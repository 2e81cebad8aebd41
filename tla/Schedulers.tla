----------------------------- MODULE Schedulers -----------------------------
(***************************************************************************)
(* The library of mypthread.c with any of its schedulers, which            *)
(* QUEUE_NUMBER selects: round robin (1), the one the source calls PSJF    *)
(* (2), which orders its queue by the time a thread has waited, and the    *)
(* multi-level feedback queue (3) of Mlfq.  The first two use the first    *)
(* run queue only.  Thread creation, join and exit are those of Mlfq; the  *)
(* scheduler's pass is different.                                          *)
(***************************************************************************)
EXTENDS Mlfq
LOCAL INSTANCE SequencesExt

CONSTANTS
  QueueNumbers,     \* the schedulers that the library is built with
  Interval,         \* TIMER_PARA
  RefusedInterval,  \* what a refused signal leaves in timer.it_interval (1000)
  Garbage,          \* what memory that is not initialised may hold
  MaxWait           \* bound on waiting_time

ASSUME SchedulersAssumption ==
  /\ QueueNumbers \subseteq 1 .. 3
  /\ RefusedInterval \in Nat \ {0} /\ Interval \in Nat /\ Interval > RefusedInterval
  /\ Garbage \subseteq Int /\ 0 \in Garbage
  /\ MaxWait \in Nat

VARIABLES
  QUEUE_NUMBER,  \* which scheduler; no code of the library changes it
  waiting_time,  \* tcb->waiting_time, which only PSJF uses
  it_interval,   \* timer.it_interval.tv_usec, which only PSJF reads
  placed,        \* history: the threads PSJF has put into its queue itself
  unmasked       \* the signal is not masked in the pass of RR or PSJF

sqVars == <<QUEUE_NUMBER, waiting_time, it_interval, placed, unmasked>>

RoundRobin == QUEUE_NUMBER = 1
Psjf == QUEUE_NUMBER = 2
Feedback == QUEUE_NUMBER = 3

(* No code sets the waiting time of a new thread. *)
SqInit ==
  /\ Init
  /\ QUEUE_NUMBER \in QueueNumbers
  /\ waiting_time \in [Tid -> IF Psjf THEN Garbage ELSE {0}]
  /\ it_interval = 0
  /\ placed = {}
  /\ unmasked = FALSE

---------------------------------------------------------------------------
(* Library calls.  A signal that comes while the queue lock is taken leaves   *)
(* its mark on it_interval.                                                   *)

MaybeRefused ==
  /\ it_interval' \in IF Psjf THEN {it_interval, RefusedInterval} ELSE {it_interval}
  /\ UNCHANGED <<QUEUE_NUMBER, waiting_time, placed, unmasked>>

SqCreateFirst ==
  /\ CreateFirst
  /\ it_interval' = Interval
  /\ UNCHANGED <<QUEUE_NUMBER, waiting_time, placed, unmasked>>

SqCreateThread == CreateThread /\ UNCHANGED sqVars
SqCreateAdd == CreateAdd /\ MaybeRefused
SqJoinExited(t, u) == JoinExited(t, u) /\ MaybeRefused
SqJoinWait(t, u) == JoinWait(t, u) /\ MaybeRefused
SqJoinReturn(t) == JoinReturn(t) /\ UNCHANGED sqVars
SqExitStart(t) == ExitStart(t) /\ MaybeRefused
SqExitReturn(t) == ExitReturn(t) /\ UNCHANGED sqVars

---------------------------------------------------------------------------
(* Entering the scheduler. *)

TakeFront ==
  /\ ptr' = Head(run_queue[1])
  /\ run_queue' = [run_queue EXCEPT ![1] = Tail(@)]
  /\ phase' = "handle"
  /\ wait_ptr' = 1
  /\ UNCHANGED <<priority, current_queue_number, threadVars, joinVars>>

(* Every queued thread has waited for one more interval, whatever the time    *)
(* that has really passed.                                                    *)
add_waiting_time(queue) ==
  [t \in Tid |->
     IF Contains(queue, t) THEN waiting_time[t] + it_interval ELSE waiting_time[t]]

sched_RR == RoundRobin /\ TakeFront /\ UNCHANGED <<QUEUE_NUMBER, waiting_time, placed>>

sched_PSJF ==
  /\ Psjf /\ TakeFront
  /\ waiting_time' = add_waiting_time(run_queue'[1])
  /\ \A t \in Tid : waiting_time'[t] <= MaxWait
  /\ UNCHANGED <<QUEUE_NUMBER, placed>>

(* A pass sets the interval again.  The signal is masked in a pass that it    *)
(* started; during another one it may come and be refused.                    *)
Interrupts ==
  /\ it_interval' = IF Psjf THEN Interval ELSE it_interval
  /\ unmasked' = FALSE

Calls ==
  /\ it_interval' \in IF Psjf THEN {Interval, RefusedInterval} ELSE {it_interval}
  /\ unmasked' = ~Feedback

sched_MLFQ == Feedback /\ Deschedule /\ UNCHANGED <<QUEUE_NUMBER, waiting_time, placed>>

schedule == sched_RR \/ sched_PSJF \/ sched_MLFQ

SqTick(t) ==
  /\ Executing(t) /\ thread_number > 0
  /\ schedule /\ Interrupts
  /\ UNCHANGED pc

SqYield(t) ==
  /\ Executing(t) /\ thread_number > 0
  /\ pc[t] \in {"user", "join_yield", "exit_yield"}
  /\ schedule /\ Calls
  /\ pc' = [pc EXCEPT ![t] = CASE @ = "user" -> "user"
                               [] @ = "join_yield" -> "join_return"
                               [] @ = "exit_yield" -> "exited"]

---------------------------------------------------------------------------
(* yield_handler_RR and yield_handler_PSJF. *)

(* A longer wait goes to the back. *)
add_to_run_queue_waiting_time_based_Reversed(t, times) ==
  LET queue == run_queue[1]
      i == SelectInSeq(queue, LAMBDA s : times[t] < times[s])
  IN  [run_queue EXCEPT ![1] = InsertAt(queue, IF i = 0 THEN Len(queue) + 1 ELSE i, t)]

(* Before the first thread that has waited for less, or at the end. *)
add_to_run_queue_waiting_time_based(t, times) ==
  LET queue == run_queue[1]
      i == SelectInSeq(queue, LAMBDA s : times[t] > times[s])
  IN  [run_queue EXCEPT ![1] = InsertAt(queue, IF i = 0 THEN Len(queue) + 1 ELSE i, t)]

Handled ==
  /\ phase' = "dispatch"
  /\ UNCHANGED <<priority, current_queue_number, thread_number, current_thread,
                 cpu, joinVars, pc, ptr, wait_ptr>>

(* The break of case 2 is missing. *)
RRBlock_FallsThrough ==
  /\ RoundRobin /\ phase = "handle" /\ yield_purpose[ptr] = Block
  /\ yield_purpose' = [yield_purpose EXCEPT ![ptr] = Timeout]
  /\ run_queue' = [run_queue EXCEPT ![1] = Append(@, ptr)]
  /\ Handled /\ UNCHANGED sqVars

(* case 2 and default of the round robin handler. *)
RRBlock ==
  /\ RoundRobin /\ phase = "handle" /\ yield_purpose[ptr] = Block
  /\ yield_purpose' = [yield_purpose EXCEPT ![ptr] = Timeout]
  /\ Handled /\ UNCHANGED <<run_queue, sqVars>>

(* addFront() instead of addBack(). *)
RRTimeout_Front ==
  /\ RoundRobin /\ phase = "handle" /\ yield_purpose[ptr] = Timeout
  /\ yield_purpose' = [yield_purpose EXCEPT ![ptr] = Timeout]
  /\ run_queue' = [run_queue EXCEPT ![1] = <<ptr>> \o @]
  /\ Handled /\ UNCHANGED sqVars

RRTimeout ==
  /\ RoundRobin /\ phase = "handle" /\ yield_purpose[ptr] = Timeout
  /\ yield_purpose' = [yield_purpose EXCEPT ![ptr] = Timeout]
  /\ run_queue' = [run_queue EXCEPT ![1] = Append(@, ptr)]
  /\ Handled /\ UNCHANGED sqVars

(* The same cases for PSJF. *)
PsjfBlock ==
  /\ Psjf /\ phase = "handle" /\ yield_purpose[ptr] = Block
  /\ yield_purpose' = [yield_purpose EXCEPT ![ptr] = Timeout]
  /\ Handled /\ UNCHANGED <<run_queue, sqVars>>

PsjfTimeout ==
  /\ Psjf /\ phase = "handle" /\ yield_purpose[ptr] = Timeout
  /\ yield_purpose' = [yield_purpose EXCEPT ![ptr] = Timeout]
  /\ run_queue' = add_to_run_queue_waiting_time_based(ptr, waiting_time)
  /\ placed' = placed \cup {ptr}
  /\ Handled /\ UNCHANGED <<QUEUE_NUMBER, waiting_time, it_interval, unmasked>>

(* The node becomes the end of what precedes it, as in thread_handle. *)
WokenJoin_Truncates ==
  /\ Exits /\ wait_ptr <= Len(join_waiting_queue)
  /\ join_waiting_queue[wait_ptr].tid = ptr
  /\ join_waiting_queue' = UnlinkJoin(wait_ptr)
  /\ wait_ptr' = 1
  /\ UNCHANGED <<priority, current_queue_number, threadVars, pc, exit_thread_list,
                 join_target, join_ret, slot, phase, ptr>>

(* The walk goes on behind the successor of the node it unlinked. *)
WokenJoin_Advances ==
  /\ Exits /\ wait_ptr <= Len(join_waiting_queue)
  /\ join_waiting_queue[wait_ptr].tid = ptr
  /\ join_waiting_queue' = RemoveAt(join_waiting_queue, wait_ptr)
  /\ wait_ptr' = wait_ptr + 1
  /\ UNCHANGED <<priority, current_queue_number, threadVars, pc, exit_thread_list,
                 join_target, join_ret, slot, phase, ptr>>

(* case 1: a join that waits for ptr is over, and its node is unlinked.       *)
WokenJoin ==
  /\ Exits /\ wait_ptr <= Len(join_waiting_queue)
  /\ join_waiting_queue[wait_ptr].tid = ptr
  /\ join_waiting_queue' = RemoveAt(join_waiting_queue, wait_ptr)
  /\ UNCHANGED <<priority, current_queue_number, threadVars, pc, exit_thread_list,
                 join_target, join_ret, slot, phase, ptr, wait_ptr>>

RRExitWake_Dropped == RoundRobin /\ WokenJoin /\ UNCHANGED <<run_queue, sqVars>>

RRExitWake ==
  /\ RoundRobin /\ WokenJoin
  /\ run_queue' = add_to_run_queue(1, join_waiting_queue[wait_ptr].tcb)
  /\ UNCHANGED sqVars

(* The joining thread gets the waiting time of the node, which no code sets.  *)
PsjfExitWake ==
  /\ Psjf /\ WokenJoin
  /\ LET j == join_waiting_queue[wait_ptr].tcb
     IN  /\ \E w \in Garbage : waiting_time' = [waiting_time EXCEPT ![j] = w]
         /\ run_queue' = add_to_run_queue_waiting_time_based(j, waiting_time')
         /\ placed' = placed \cup {j}
  /\ UNCHANGED <<QUEUE_NUMBER, it_interval, unmasked>>

RRExitSkip == RoundRobin /\ HandleExitSkip /\ UNCHANGED sqVars
RRExitDone == RoundRobin /\ HandleExitDone /\ UNCHANGED sqVars
PsjfExitSkip == Psjf /\ HandleExitSkip /\ UNCHANGED sqVars
PsjfExitDone_FallsThrough ==
  /\ Psjf /\ HandleExitDone_FallsThrough /\ UNCHANGED sqVars
PsjfExitDone == Psjf /\ HandleExitDone /\ UNCHANGED sqVars

---------------------------------------------------------------------------
(* The rest of sched_RR and sched_PSJF: switch to the first thread.  As in    *)
(* sched_MLFQ, the way out of a freed thread does not set current_thread.     *)

SwitchToFirst ==
  /\ phase = "dispatch" /\ run_queue[1] # << >>
  /\ LET next == Head(run_queue[1])
     IN  /\ cpu' = IF next = ptr THEN cpu ELSE next
         /\ current_thread' = IF next = ptr \/ Freed THEN current_thread ELSE next
  /\ current_queue_number' = 1
  /\ phase' = "thread"
  /\ UNCHANGED <<joinVars, pc, run_queue, priority, yield_purpose,
                 thread_number, ptr, wait_ptr, sqVars>>

RRSwitch == RoundRobin /\ SwitchToFirst
PsjfSwitch == Psjf /\ SwitchToFirst

(* Both release the locks before the switch and leave the time to the next    *)
(* signal as it is, so in a pass that a call started the signal may come in   *)
(* between.  It starts a second pass, which takes out the first thread of the *)
(* queue although another one executes.  If no thread is behind it nothing    *)
(* has changed in the end; if there is one the pass stores the stack it is on *)
(* in the context of the thread it took out, and the model ends (SwapContext  *)
(* goes on).                                                                  *)
Unswitched ==
  /\ ~Feedback /\ unmasked /\ phase = "dispatch"
  /\ run_queue[1] # << >> /\ Head(run_queue[1]) # ptr

SecondPassReturns ==
  /\ Unswitched
  /\ Len(run_queue[1]) = 1 /\ yield_purpose[Head(run_queue[1])] = Timeout
  /\ IF Psjf THEN it_interval' = Interval /\ placed' = placed \cup {Head(run_queue[1])}
             ELSE UNCHANGED <<it_interval, placed>>
  /\ UNCHANGED <<vars, QUEUE_NUMBER, waiting_time, unmasked>>

SecondPassCrosses ==
  /\ Unswitched
  /\ Len(run_queue[1]) > 1 \/ yield_purpose[Head(run_queue[1])] # Timeout
  /\ phase' = "crossed"
  /\ UNCHANGED <<queueVars, threadVars, joinVars, pc, ptr, wait_ptr, sqVars>>

(* With an empty queue head->next is the sentinel, whose control block no     *)
(* code sets.  The model stops here.                                          *)
SqStall ==
  /\ ~Feedback /\ phase = "dispatch" /\ run_queue[1] = << >>
  /\ phase' = "sentinel"
  /\ UNCHANGED <<queueVars, threadVars, joinVars, pc, ptr, wait_ptr, sqVars>>

(* sched_MLFQ, as in Mlfq. *)
MlfqStep == Feedback /\ SchedStep /\ UNCHANGED sqVars

---------------------------------------------------------------------------

SqCreate == SqCreateFirst \/ SqCreateThread \/ SqCreateAdd

SqThreadStep(t) ==
  \/ \E u \in Tid : SqJoinExited(t, u) \/ SqJoinWait(t, u)
  \/ SqJoinReturn(t)
  \/ SqExitStart(t) \/ SqExitReturn(t)
  \/ SqYield(t)
  \/ SqTick(t)

SqSchedStep ==
  \/ RRBlock \/ RRTimeout \/ RRExitWake \/ RRExitSkip \/ RRExitDone \/ RRSwitch
  \/ PsjfBlock \/ PsjfTimeout \/ PsjfExitWake \/ PsjfExitSkip \/ PsjfExitDone
  \/ PsjfSwitch \/ SqStall \/ MlfqStep

SqNext ==
  \/ SqCreate
  \/ \E t \in Tid : SqThreadStep(t)
  \/ SqSchedStep
  \/ SecondPassReturns \/ SecondPassCrosses

allVars == <<vars, sqVars>>

SqSpec == SqInit /\ [][SqNext]_allVars

(* The few instructions that end a join whose wait is over.                   *)
SqJoinFinish(t) == SqJoinReturn(t) \/ (pc[t] = "join_yield" /\ SqYield(t))

(* The timer counts the processor time the process uses, so a thread that     *)
(* executes is interrupted in the end; the scheduler runs to its end; and a   *)
(* thread that is given quantum after quantum, each of 250 ms, gets past the  *)
(* last instructions of mypthread_join.                                       *)
SqFairness ==
  /\ WF_allVars(\E t \in Tid : SqTick(t))
  /\ WF_allVars(SqSchedStep)
  /\ \A t \in Tid : SF_allVars(SqJoinFinish(t))

SqFairSpec == SqSpec /\ SqFairness

---------------------------------------------------------------------------
(* Properties: those of Mlfq, and what PSJF adds to them.                     *)

(* The types of the variables; round robin and PSJF leave the lower    *)
(* queues empty.                                                              *)
SqTypeOK ==
  /\ TypeOK
  /\ ~Feedback => run_queue[2] = << >> /\ run_queue[3] = << >>
  /\ QUEUE_NUMBER \in QueueNumbers
  /\ waiting_time \in [Tid -> Int]
  /\ it_interval \in {0, Interval, RefusedInterval}
  /\ placed \subseteq Tid
  /\ unmasked \in BOOLEAN

(* PSJF compares waiting times that were never set: those of new threads,     *)
(* which create appends wherever they belong, and those of joins.  Whatever   *)
(* they are, the threads that the scheduler itself has put into the queue     *)
(* stand in it in the order of their waiting times, longest first.            *)
PsjfOrdered ==
  Psjf =>
    \A i, j \in 1 .. Len(run_queue[1]) :
      LET s == run_queue[1][i]
          t == run_queue[1][j]
      IN  i < j /\ s \in placed /\ t \in placed => waiting_time[s] >= waiting_time[t]
=============================================================================
