------------------------------- MODULE Mlfq -------------------------------
(***************************************************************************)
(* The thread library of mypthread.c as it is built by default             *)
(* (QUEUE_NUMBER = 3, the multi-level feedback queue): thread creation,    *)
(* yield, exit and join, the timer signal, and the scheduler they enter    *)
(* through swap_context().                                                 *)
(*                                                                         *)
(* All threads are contexts of one kernel thread, so one of them, cpu,     *)
(* executes at a time.  A thread leaves the cpu only inside the scheduler, *)
(* which it enters by calling swap_context() or because SIGVTALRM runs     *)
(* swap_context() on its stack.  The queue lock turns the signal away      *)
(* while the library changes its lists, so an action below is one stretch  *)
(* of code between two points where the signal is served.                  *)
(*                                                                         *)
(* A thread is its tid (only main creates threads, so tids are unique), a  *)
(* run queue is a sequence of tids, and the list of exited threads, which  *)
(* is only searched, is a set.                                             *)
(***************************************************************************)
EXTENDS Integers, Sequences, FiniteSets

CONSTANTS
  MaxThreads,   \* bound on thread_number
  PriorityT1,   \* priority of a new or woken thread    (100 in the code)
  PriorityT2,   \* priority after a quantum in queue 1  (50 in the code)
  PriorityT3,   \* priority after a quantum in queue 2  (1 in the code)
  JoinPairs,    \* the joins the program performs: pairs <<joiner, target>>
  Exiting,      \* the threads that call mypthread_exit
  NoSlot,       \* a join called with value_ptr = NULL
  Unset         \* a variable that no exit value has been stored in yet

Tid == 0 .. MaxThreads - 1
Main == 0

ASSUME MlfqAssumption ==
  /\ MaxThreads \in Nat /\ MaxThreads >= 2
  /\ PriorityT1 \in Nat /\ PriorityT2 \in Nat /\ PriorityT3 \in Nat
  /\ PriorityT1 > PriorityT2 /\ PriorityT2 > PriorityT3 /\ PriorityT3 > 0
  /\ JoinPairs \subseteq Tid \X Tid
  /\ Exiting \subseteq Tid
  /\ NoSlot \notin Tid /\ Unset \notin Tid /\ NoSlot # Unset

(* tcb->yield_purpose: why the current thread enters the scheduler. *)
Timeout == 0
Exit == 1
Block == 2

VARIABLES
  run_queue,             \* round_robin_queue_T1, _T2 and _T3
  current_queue_number,  \* the queue whose first thread is running
  priority,              \* tcb->priority
  yield_purpose,         \* tcb->yield_purpose
  thread_number,         \* the next tid; 0 while scheduler == NULL
  current_thread,        \* scheduler->current_thread
  join_waiting_queue,    \* the waiting joins, oldest first
  exit_thread_list,      \* the tids of the exited threads
  join_target,           \* the argument of a thread's latest join
  join_ret,              \* what that join returned, -1 until it returns
  slot,                  \* the variable its value_ptr points to
  cpu,                   \* the thread whose code is executing
  pc,                    \* where each thread is in the library
  phase,                 \* "thread", or where cpu is in sched_MLFQ
  ptr,                   \* sched_MLFQ's ptr: the thread taken off the cpu
  wait_ptr               \* thread_handle's position in join_waiting_queue

queueVars == <<run_queue, current_queue_number, priority>>
threadVars == <<yield_purpose, thread_number, current_thread, cpu>>
joinVars == <<join_waiting_queue, exit_thread_list, join_target, join_ret, slot>>
schedVars == <<phase, ptr, wait_ptr>>
vars == <<queueVars, threadVars, joinVars, schedVars, pc>>

Init ==
  /\ run_queue = [k \in 1 .. 3 |-> << >>]
  /\ current_queue_number = 1
  /\ priority = [t \in Tid |-> PriorityT1]
  /\ yield_purpose = [t \in Tid |-> Timeout]
  /\ thread_number = 0
  /\ current_thread = Main
  /\ join_waiting_queue = << >>
  /\ exit_thread_list = {}
  /\ join_target = [t \in Tid |-> t]
  /\ join_ret = [t \in Tid |-> -1]
  /\ slot = [t \in Tid |-> NoSlot]
  /\ cpu = Main
  /\ pc = [t \in Tid |-> "user"]
  /\ phase = "thread"
  /\ ptr = Main
  /\ wait_ptr = 1

---------------------------------------------------------------------------
(* Helpers of the scheduler. *)

get_current_thread == Head(run_queue[current_queue_number])

InQueue(t, k) == \E i \in 1 .. Len(run_queue[k]) : run_queue[k][i] = t

(* Operators whose names end in a word after an underscore and a capital are  *)
(* mutants: what the definition that follows would be with a plausible bug.   *)

(* addFront() instead of addBack(). *)
add_to_run_queue_Front(num, t) ==
  [run_queue EXCEPT ![IF num = 1 THEN 1 ELSE 2] = <<t>> \o @]

(* add_to_run_queue(3, ...) appends to the second queue, as 2 does. *)
add_to_run_queue(num, t) ==
  [run_queue EXCEPT ![IF num = 1 THEN 1 ELSE 2] = Append(@, t)]

(* The priorities after age(), called when ptr has left its queue: a thread   *)
(* ages by one for each of its nodes.                                         *)
Nodes(queue, t) == Cardinality({i \in 1 .. Len(queue) : queue[i] = t})

age(queues) ==
  [t \in Tid |-> priority[t] + Nodes(queues[1], t) + Nodes(queues[2], t)
                             + Nodes(queues[3], t)]

HeadPriority(k) == priority[Head(run_queue[k])]

(* Queue 1 if it has a thread, unless the first thread of a lower queue    *)
(* has aged past the first thread of every queue above it.                 *)
get_highest_priority ==
  LET NonEmpty(k) == run_queue[k] # << >>
      p1 == IF NonEmpty(1) THEN HeadPriority(1) ELSE 0
      two == NonEmpty(2) /\ HeadPriority(2) > p1
      p2 == IF two THEN HeadPriority(2) ELSE p1
      three == NonEmpty(3) /\ HeadPriority(3) > p2
  IN  IF three THEN 3 ELSE IF two THEN 2 ELSE IF NonEmpty(1) THEN 1 ELSE 0

Executing(t) == phase = "thread" /\ cpu = t

(* After a stall of the scheduler a thread goes on in no run queue (Stall).   *)
OnProcessor(t) == phase \in {"thread", "stalled"} /\ cpu = t

---------------------------------------------------------------------------
(* Library calls, up to the point where they enter the scheduler. *)

(* The first mypthread_create: make the scheduler, queue main, arm the timer. *)
CreateFirst ==
  /\ Executing(Main) /\ pc[Main] = "user" /\ thread_number = 0
  /\ thread_number' = 1
  /\ current_queue_number' = 1
  /\ priority' = [priority EXCEPT ![Main] = PriorityT1]
  /\ yield_purpose' = [yield_purpose EXCEPT ![Main] = Timeout]
  /\ current_thread' = Main
  /\ run_queue' = add_to_run_queue(1, Main)
  /\ pc' = [pc EXCEPT ![Main] = "create"]
  /\ UNCHANGED <<joinVars, schedVars, cpu>>

(* Make the control block of the new thread; its handle is stored for the program. *)
CreateThread ==
  /\ Executing(Main) /\ thread_number \in 1 .. MaxThreads - 1
  /\ pc[Main] \in {"create", "user"}
  /\ yield_purpose' = [yield_purpose EXCEPT ![thread_number] = Timeout]
  /\ priority' = [priority EXCEPT ![thread_number] = PriorityT1]
  /\ thread_number' = thread_number + 1
  /\ pc' = [pc EXCEPT ![Main] = "create_add"]
  /\ UNCHANGED <<joinVars, schedVars, run_queue, current_queue_number,
                 current_thread, cpu>>

(* Put it into the first run queue, under the queue lock. *)
CreateAdd ==
  /\ Executing(Main) /\ pc[Main] = "create_add"
  /\ run_queue' = add_to_run_queue(1, thread_number - 1)
  /\ pc' = [pc EXCEPT ![Main] = "user"]
  /\ UNCHANGED <<threadVars, joinVars, schedVars, current_queue_number, priority>>

(* A join whose target has exited returns 1 and stores nothing. *)
JoinExited(t, u) ==
  /\ OnProcessor(t) /\ pc[t] = "user"
  /\ <<t, u>> \in JoinPairs /\ u < thread_number
  /\ u \in exit_thread_list
  /\ \E s \in {NoSlot, Unset} : slot' = [slot EXCEPT ![t] = s]
  /\ join_target' = [join_target EXCEPT ![t] = u]
  /\ join_ret' = [join_ret EXCEPT ![t] = 1]
  /\ UNCHANGED <<queueVars, threadVars, schedVars, pc, join_waiting_queue,
                 exit_thread_list>>

(* The caller is not marked as blocked before it yields. *)
JoinWait_Unmarked(t, u) ==
  /\ Executing(t) /\ pc[t] = "user"
  /\ <<t, u>> \in JoinPairs /\ u < thread_number
  /\ u \notin exit_thread_list
  /\ \E s \in {NoSlot, Unset} : slot' = [slot EXCEPT ![t] = s]
  /\ join_waiting_queue' =
       Append(join_waiting_queue, [tcb |-> get_current_thread, tid |-> u])
  /\ join_target' = [join_target EXCEPT ![t] = u]
  /\ join_ret' = [join_ret EXCEPT ![t] = -1]
  /\ pc' = [pc EXCEPT ![t] = "join_yield"]
  /\ UNCHANGED <<queueVars, threadVars, schedVars, exit_thread_list>>

(* The list of exited threads is not consulted. *)
JoinWait_Unchecked(t, u) ==
  /\ Executing(t) /\ pc[t] = "user"
  /\ <<t, u>> \in JoinPairs /\ u < thread_number
  /\ \E s \in {NoSlot, Unset} : slot' = [slot EXCEPT ![t] = s]
  /\ join_waiting_queue' =
       Append(join_waiting_queue, [tcb |-> get_current_thread, tid |-> u])
  /\ yield_purpose' = [yield_purpose EXCEPT ![get_current_thread] = Block]
  /\ join_target' = [join_target EXCEPT ![t] = u]
  /\ join_ret' = [join_ret EXCEPT ![t] = -1]
  /\ pc' = [pc EXCEPT ![t] = "join_yield"]
  /\ UNCHANGED <<queueVars, schedVars, exit_thread_list, thread_number,
                 current_thread, cpu>>

(* Otherwise the caller is added to the waiting joins and will yield to block. *)
JoinWait(t, u) ==
  /\ Executing(t) /\ pc[t] = "user"
  /\ <<t, u>> \in JoinPairs /\ u < thread_number
  /\ u \notin exit_thread_list
  /\ \E s \in {NoSlot, Unset} : slot' = [slot EXCEPT ![t] = s]
  /\ join_waiting_queue' =
       Append(join_waiting_queue, [tcb |-> get_current_thread, tid |-> u])
  /\ yield_purpose' = [yield_purpose EXCEPT ![get_current_thread] = Block]
  /\ join_target' = [join_target EXCEPT ![t] = u]
  /\ join_ret' = [join_ret EXCEPT ![t] = -1]
  /\ pc' = [pc EXCEPT ![t] = "join_yield"]
  /\ UNCHANGED <<queueVars, schedVars, exit_thread_list, thread_number,
                 current_thread, cpu>>

(* mypthread_join returns 0 when its call of mypthread_yield does, ... *)
JoinReturn(t) ==
  /\ OnProcessor(t) /\ pc[t] = "join_return"
  /\ join_ret' = [join_ret EXCEPT ![t] = 0]
  /\ pc' = [pc EXCEPT ![t] = "user"]
  /\ UNCHANGED <<queueVars, threadVars, schedVars, join_waiting_queue,
                 exit_thread_list, join_target, slot>>

(* mypthread_exit hands its value, here the caller's tid, to the joins that   *)
(* wait for the caller, and will yield for the last time.                     *)
WaitsFor(j, u) ==
  \E i \in 1 .. Len(join_waiting_queue) :
     join_waiting_queue[i].tcb = j /\ join_waiting_queue[i].tid = u

ExitStart(t) ==
  /\ Executing(t) /\ pc[t] = "user" /\ t \in Exiting /\ thread_number > 0
  /\ slot' = [j \in Tid |->
       IF WaitsFor(j, get_current_thread) /\ slot[j] # NoSlot THEN t ELSE slot[j]]
  /\ yield_purpose' = [yield_purpose EXCEPT ![get_current_thread] = Exit]
  /\ pc' = [pc EXCEPT ![t] = "exit_yield"]
  /\ UNCHANGED <<queueVars, schedVars, join_waiting_queue, exit_thread_list,
                 join_target, join_ret, thread_number, current_thread, cpu>>

(* ... and mypthread_exit returns, too, if no other thread is ready. *)
ExitReturn(t) ==
  /\ phase = "stalled" /\ cpu = t /\ pc[t] = "exited"
  /\ pc' = [pc EXCEPT ![t] = "user"]
  /\ UNCHANGED <<queueVars, threadVars, joinVars, schedVars>>

---------------------------------------------------------------------------
(* Entering the scheduler: swap_context() up to the call of thread_handle. *)

Deschedule ==
  /\ ptr' = get_current_thread
  /\ run_queue' = [run_queue EXCEPT ![current_queue_number] = Tail(@)]
  /\ priority' = age(run_queue')
  /\ phase' = "handle"
  /\ wait_ptr' = 1
  /\ UNCHANGED <<current_queue_number, threadVars, joinVars>>

(* SIGVTALRM: the thread stops wherever it is and later continues from there. *)
Tick(t) ==
  /\ Executing(t) /\ thread_number > 0
  /\ Deschedule
  /\ UNCHANGED pc

(* mypthread_yield, called by the program, by join or by exit. *)
Yield(t) ==
  /\ Executing(t) /\ thread_number > 0
  /\ pc[t] \in {"user", "join_yield", "exit_yield"}
  /\ Deschedule
  /\ pc' = [pc EXCEPT ![t] = CASE @ = "user" -> "user"
                               [] @ = "join_yield" -> "join_return"
                               [] @ = "exit_yield" -> "exited"]

---------------------------------------------------------------------------
(* thread_handle, one action for each case and for each step of its loop. *)

(* A thread of the second queue is not queued again. *)
HandleTimeout_Dropped ==
  /\ phase = "handle" /\ yield_purpose[ptr] = Timeout
  /\ \/ /\ current_queue_number = 1
        /\ priority' = [priority EXCEPT ![ptr] = PriorityT2]
        /\ run_queue' = add_to_run_queue(2, ptr)
     \/ /\ current_queue_number = 2
        /\ priority' = [priority EXCEPT ![ptr] = PriorityT3]
        /\ UNCHANGED run_queue
  /\ phase' = "dispatch"
  /\ UNCHANGED <<threadVars, joinVars, pc, current_queue_number, ptr, wait_ptr>>

(* The priority is not lowered with the queue. *)
HandleTimeout_Kept ==
  /\ phase = "handle" /\ yield_purpose[ptr] = Timeout
  /\ run_queue' = add_to_run_queue(2, ptr)
  /\ phase' = "dispatch"
  /\ UNCHANGED <<threadVars, joinVars, pc, priority, current_queue_number, ptr,
                 wait_ptr>>

(* The quantum is over, or the thread yielded: one queue down. *)
HandleTimeout ==
  /\ phase = "handle" /\ yield_purpose[ptr] = Timeout
  /\ \/ /\ current_queue_number = 1
        /\ priority' = [priority EXCEPT ![ptr] = PriorityT2]
        /\ run_queue' = add_to_run_queue(2, ptr)
     \/ /\ current_queue_number = 2
        /\ priority' = [priority EXCEPT ![ptr] = PriorityT3]
        /\ run_queue' = add_to_run_queue(3, ptr)
  /\ phase' = "dispatch"
  /\ UNCHANGED <<threadVars, joinVars, pc, current_queue_number, ptr, wait_ptr>>

(* The case falls through to the next one. *)
HandleBlock_FallsThrough ==
  /\ phase = "handle" /\ yield_purpose[ptr] = Block
  /\ yield_purpose' = [yield_purpose EXCEPT ![ptr] = Timeout]
  /\ priority' = [priority EXCEPT ![ptr] = PriorityT2]
  /\ run_queue' = add_to_run_queue(2, ptr)
  /\ phase' = "dispatch"
  /\ UNCHANGED <<joinVars, pc, current_queue_number, thread_number,
                 current_thread, cpu, ptr, wait_ptr>>

(* A thread that joins or waits for a mutex stays out of the run queues. *)
HandleBlock ==
  /\ phase = "handle" /\ yield_purpose[ptr] = Block
  /\ yield_purpose' = [yield_purpose EXCEPT ![ptr] = Timeout]
  /\ phase' = "dispatch"
  /\ UNCHANGED <<queueVars, joinVars, pc, thread_number, current_thread, cpu,
                 ptr, wait_ptr>>

Exits == phase = "handle" /\ yield_purpose[ptr] = Exit

(* The waiting join at wait_ptr is for the exiting thread: its caller becomes *)
(* ready.  Its node is unlinked by making its successor the head of the list, *)
(* whatever stands before it (the test for that, wait_ptr != NULL, is always  *)
(* true), so the list keeps only what follows it.                             *)
UnlinkJoin(i) ==
  SubSeq(join_waiting_queue, i + 1, Len(join_waiting_queue))

(* The walk goes on behind the successor of the node it unlinked. *)
HandleExitWake_Advances ==
  /\ Exits /\ wait_ptr <= Len(join_waiting_queue)
  /\ join_waiting_queue[wait_ptr].tid = ptr
  /\ LET j == join_waiting_queue[wait_ptr].tcb
     IN  /\ priority' = [priority EXCEPT ![j] = PriorityT1]
         /\ run_queue' = add_to_run_queue(1, j)
  /\ join_waiting_queue' = UnlinkJoin(wait_ptr)
  /\ wait_ptr' = wait_ptr + 1
  /\ UNCHANGED <<threadVars, pc, current_queue_number, exit_thread_list,
                 join_target, join_ret, slot, phase, ptr>>

(* The woken thread keeps the priority it had. *)
HandleExitWake_Kept ==
  /\ Exits /\ wait_ptr <= Len(join_waiting_queue)
  /\ join_waiting_queue[wait_ptr].tid = ptr
  /\ run_queue' = add_to_run_queue(1, join_waiting_queue[wait_ptr].tcb)
  /\ join_waiting_queue' = UnlinkJoin(wait_ptr)
  /\ wait_ptr' = 1
  /\ UNCHANGED <<threadVars, pc, priority, current_queue_number,
                 exit_thread_list, join_target, join_ret, slot, phase, ptr>>

(* The waiting thread is unlinked and not queued. *)
HandleExitWake_Dropped ==
  /\ Exits /\ wait_ptr <= Len(join_waiting_queue)
  /\ join_waiting_queue[wait_ptr].tid = ptr
  /\ join_waiting_queue' = UnlinkJoin(wait_ptr)
  /\ wait_ptr' = 1
  /\ UNCHANGED <<queueVars, threadVars, pc, exit_thread_list, join_target,
                 join_ret, slot, phase, ptr>>

HandleExitWake ==
  /\ Exits /\ wait_ptr <= Len(join_waiting_queue)
  /\ join_waiting_queue[wait_ptr].tid = ptr
  /\ LET j == join_waiting_queue[wait_ptr].tcb
     IN  /\ priority' = [priority EXCEPT ![j] = PriorityT1]
         /\ run_queue' = add_to_run_queue(1, j)
  /\ join_waiting_queue' = UnlinkJoin(wait_ptr)
  /\ wait_ptr' = 1
  /\ UNCHANGED <<threadVars, pc, current_queue_number, exit_thread_list,
                 join_target, join_ret, slot, phase, ptr>>

HandleExitSkip ==
  /\ Exits /\ wait_ptr <= Len(join_waiting_queue)
  /\ join_waiting_queue[wait_ptr].tid # ptr
  /\ wait_ptr' = wait_ptr + 1
  /\ UNCHANGED <<queueVars, threadVars, joinVars, pc, phase, ptr>>

(* The exited thread is queued again. *)
HandleExitDone_FallsThrough ==
  /\ Exits /\ wait_ptr > Len(join_waiting_queue)
  /\ exit_thread_list' = exit_thread_list \cup {ptr}
  /\ run_queue' = add_to_run_queue(2, ptr)
  /\ phase' = "dispatch"
  /\ wait_ptr' = 1
  /\ UNCHANGED <<priority, current_queue_number, threadVars, pc,
                 join_waiting_queue, join_target, join_ret, slot, ptr>>

(* The whole list is searched: the thread is recorded as exited. *)
HandleExitDone ==
  /\ Exits /\ wait_ptr > Len(join_waiting_queue)
  /\ exit_thread_list' = exit_thread_list \cup {ptr}
  /\ phase' = "dispatch"
  /\ wait_ptr' = 1
  /\ UNCHANGED <<queueVars, threadVars, pc, join_waiting_queue, join_target,
                 join_ret, slot, ptr>>

---------------------------------------------------------------------------
(* The rest of sched_MLFQ: switch to the first thread of the chosen queue. *)

Freed == yield_purpose[ptr] = Exit /\ ptr # Main

(* A thread that is the only one goes on; one that exited is freed and left   *)
(* through setcontext(), which does not set current_thread; for queue 3 the   *)
(* code changes current_queue_number first and then skips the switch.         *)
Dispatch ==
  /\ phase = "dispatch"
  /\ get_highest_priority # 0
  /\ LET k == get_highest_priority
         next == Head(run_queue[k])
         skipped == k = 3 /\ ~Freed
     IN  /\ current_queue_number' = k
         /\ cpu' = IF next = ptr \/ skipped THEN cpu ELSE next
         /\ current_thread' =
              IF next = ptr \/ Freed \/ skipped THEN current_thread ELSE next
  /\ phase' = "thread"
  /\ UNCHANGED <<joinVars, pc, run_queue, priority, yield_purpose,
                 thread_number, ptr, wait_ptr>>

(* With no thread in the queues, get_highest_priority() is 0 and swap_context *)
(* returns to its caller, which goes on in no queue: a join returns 0 although *)
(* its target has not exited.  The model ends where the queues matter again:  *)
(* at the next signal, and at every call that looks for the current thread,   *)
(* where the code reads the control block of an empty queue's sentinel, which *)
(* it never sets, and if main makes another thread.                           *)
Stall ==
  /\ phase = "dispatch"
  /\ get_highest_priority = 0
  /\ phase' = "stalled"
  /\ UNCHANGED <<queueVars, threadVars, joinVars, pc, ptr, wait_ptr>>

---------------------------------------------------------------------------

ThreadStep(t) ==
  \/ \E u \in Tid : JoinExited(t, u) \/ JoinWait(t, u)
  \/ JoinReturn(t)
  \/ ExitStart(t) \/ ExitReturn(t)
  \/ Yield(t)
  \/ Tick(t)

Create == CreateFirst \/ CreateThread \/ CreateAdd

SchedStep ==
  \/ HandleTimeout \/ HandleBlock
  \/ HandleExitWake \/ HandleExitSkip \/ HandleExitDone
  \/ Dispatch \/ Stall

Next == Create \/ (\E t \in Tid : ThreadStep(t)) \/ SchedStep

Spec == Init /\ [][Next]_vars

---------------------------------------------------------------------------
(* Properties. *)

PC == {"user", "create", "create_add", "join_yield", "join_return",
       "exit_yield", "exited"}

Waiter == [tcb : Tid, tid : Tid]

QueueTypeOK ==
  /\ run_queue \in [1 .. 3 -> Seq(Tid)]
  /\ current_queue_number \in 1 .. 3
  /\ priority \in [Tid -> Nat \ {0}]

ThreadTypeOK ==
  /\ yield_purpose \in [Tid -> {Timeout, Exit, Block}]
  /\ thread_number \in 0 .. MaxThreads
  /\ current_thread \in Tid
  /\ cpu \in Tid
  /\ pc \in [Tid -> PC]

JoinTypeOK ==
  /\ join_waiting_queue \in Seq(Waiter)
  /\ exit_thread_list \subseteq Tid
  /\ join_target \in [Tid -> Tid]
  /\ join_ret \in [Tid -> {-1, 0, 1}]
  /\ slot \in [Tid -> Tid \cup {NoSlot, Unset}]

SchedTypeOK ==
  /\ phase \in {"thread", "handle", "dispatch", "stalled", "sentinel", "crossed",
                "undefined"}
  /\ ptr \in Tid
  /\ wait_ptr \in 1 .. Len(join_waiting_queue) + 1

(* The types of the variables; wait_ptr is a node of the list or its end, and *)
(* no priority is 0, which get_highest_priority takes for an empty queue's.   *)
TypeOK == QueueTypeOK /\ ThreadTypeOK /\ JoinTypeOK /\ SchedTypeOK

(* get_current_thread() answers with the head of the current run queue, and   *)
(* every library call trusts it: whenever code of a thread executes, that     *)
(* head is the executing thread itself.                                       *)
CurrentIsExecuting ==
  phase = "thread" /\ thread_number > 0 =>
    /\ run_queue[current_queue_number] # << >>
    /\ get_current_thread = cpu

Waiting(t) == \E i \in 1 .. Len(join_waiting_queue) : join_waiting_queue[i].tcb = t

InRunQueue(t) == \E k \in 1 .. 3 : InQueue(t, k)

UniqueInRunQueues ==
  \A k, l \in 1 .. 3 :
    \A i \in 1 .. Len(run_queue[k]), j \in 1 .. Len(run_queue[l]) :
      run_queue[k][i] = run_queue[l][j] => k = l /\ i = j

UniqueInJoinQueue ==
  \A i, j \in 1 .. Len(join_waiting_queue) :
    join_waiting_queue[i].tcb = join_waiting_queue[j].tcb => i = j

(* No thread is queued twice: a second node would run one control block from  *)
(* two places, and go on running it after the first one had it freed.  Only a *)
(* thread that is executing its own join is in a run queue and in the list.   *)
NoDuplicates ==
  /\ UniqueInRunQueues
  /\ UniqueInJoinQueue
  /\ \A t \in Tid :
       InRunQueue(t) /\ Waiting(t) => Executing(t) /\ yield_purpose[t] = Block

Queued(t) == t < thread_number /\ (pc[Main] = "create_add" => t # thread_number - 1)

(* Between two passes of the scheduler no created thread is lost: it has      *)
(* exited, or it is ready, or it waits in the join list.                      *)
EveryThreadPlaced ==
  phase = "thread" =>
    \A t \in Tid : Queued(t) =>
       t \in exit_thread_list \/ InRunQueue(t) \/ Waiting(t)

(* A thread that exited is gone: its freed control block is in no run queue,  *)
(* and, as long as there is a ready thread, it is not what the processor      *)
(* executes.                                                                  *)
ExitedAreGone ==
  \A t \in exit_thread_list :
    /\ ~InRunQueue(t)
    /\ phase = "thread" => cpu # t

Answered(t) ==
  /\ join_target[t] \in exit_thread_list
  /\ slot[t] \in {join_target[t], NoSlot}

(* mypthread_join returns 0 only after its target has exited, and then the    *)
(* target's exit value is in the variable that value_ptr points to; but the   *)
(* last thread that was ready, whose yield returns when the scheduler finds   *)
(* no other one, gets 0 at once.                                              *)
JoinCorrect ==
  \A t \in Tid : join_ret[t] = 0 => Answered(t) \/ (phase = "stalled" /\ cpu = t)

(* add_to_run_queue_priority_based appends, where an earlier version searched *)
(* for the place by priority: the first queue is ordered by priority all the  *)
(* same, because its threads enter it with the highest one and age together.  *)
FirstQueueOrdered ==
  \A i, j \in 1 .. Len(run_queue[1]) :
    i < j => priority[run_queue[1][i]] >= priority[run_queue[1][j]]

(* Aging ends every wait: a ready thread is chosen before its priority has    *)
(* grown past that of a new thread by one step for each other thread, so no   *)
(* stream of new or woken threads can hold it back for long.  The second      *)
(* queue is not ordered, and a thread there may have to wait for its first    *)
(* one to age as well, which may be behind by PriorityT2 - PriorityT3.        *)
WaitBounded ==
  \A t \in Tid :
    /\ InQueue(t, 1) => priority[t] <= PriorityT1 + MaxThreads - 1
    /\ InQueue(t, 2) =>
         priority[t] <= PriorityT1 + (PriorityT2 - PriorityT3) + MaxThreads - 1

(* Some thread can go on as long as one has not exited: the scheduler finds   *)
(* its queues empty only after the exit of every thread.                      *)
StallsAtEnd ==
  phase \in {"stalled", "sentinel"} =>
    \A t \in Tid : Queued(t) => t \in exit_thread_list

(* Every ready thread gets the processor, unless a signal between the         *)
(* releases and the switch of round robin has crossed two contexts.           *)
EveryReadyThreadRuns ==
  \A t \in Tid : InRunQueue(t) ~> Executing(t) \/ phase = "crossed"

(* A join returns once its target has exited, with the same exception.        *)
JoinCompletes ==
  \A t, u \in Tid :
    (pc[t] \in {"join_yield", "join_return"} /\ join_target[t] = u
       /\ u \in exit_thread_list) ~> join_ret[t] = 0 \/ phase = "crossed"

---------------------------------------------------------------------------
(* The abstract state of a thread: between its removal from the queue and its *)
(* handling it is still ready; and what it waits for.                         *)

ThreadState(t) ==
  IF t \in exit_thread_list THEN "exited"
  ELSE IF ~Queued(t) THEN "none"
  ELSE IF yield_purpose[t] = Exit THEN "exiting"
  ELSE IF InRunQueue(t) \/ (phase = "handle" /\ ptr = t) THEN "ready"
  ELSE "blocked"

InJoin(t) == pc[t] \in {"join_yield", "join_return"}

StateOfThreads == [t \in Tid |-> ThreadState(t)]
TargetOfThreads == [t \in Tid |-> IF InJoin(t) THEN join_target[t] ELSE -1]

Abstract == INSTANCE Threads WITH
  NoTarget <- -1, running <- cpu, state <- StateOfThreads, target <- TargetOfThreads

(* Queues, priorities, the join list that loses nodes and the signal at any   *)
(* place of a call together still keep what Threads promises: no thread runs  *)
(* that is blocked or gone while another one is ready, none is woken but by   *)
(* the exit it waits for, and a join that waited returns before that exit is  *)
(* complete only when no thread is ready any more.                            *)
ImplementsThreads == Abstract!Spec

---------------------------------------------------------------------------
(* What comments in the source say and the code does not do. *)

(* mypthread.c:767: "iterate through waiting queue, move threads waiting for  *)
(* exit thread to running queue".                                             *)
JoinersAreMoved ==
  phase \notin {"handle", "dispatch"} =>
    \A t \in Tid :
      pc[t] \in {"join_yield", "join_return"} /\ join_target[t] \in exit_thread_list
        => InRunQueue(t)
=============================================================================
