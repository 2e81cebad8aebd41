---------------------------- MODULE SwapContext ----------------------------
(***************************************************************************)
(* swap_context() and the switch of contexts, statement by statement, over *)
(* the actions of Schedulers.  There the signal comes between two actions  *)
(* and a pass of the scheduler is never interrupted; here the two locks    *)
(* that make it so are variables, the signal comes at any statement that   *)
(* it is not masked at, and a thread goes on from what tcb->context holds. *)
(*                                                                         *)
(* A stack holds at most two calls of swap_context: one that its thread    *)
(* made, and above it one that the signal made, in which it is masked.     *)
(* All threads that return from their function run mypthread_exit on one   *)
(* shared stack, that of return_function.  PSJF, which reads back what a   *)
(* refused signal stores, is left to Schedulers.                           *)
(***************************************************************************)
EXTENDS Schedulers

CONSTANTS
  Returning,  \* the exiting threads that return instead of calling exit
  Shared      \* the stack of return_function

Stacks == Tid \cup {Shared}

ASSUME SwapAssumption ==
  /\ QueueNumbers \subseteq {1, 3}
  /\ Returning \subseteq Exiting \ {Main}
  /\ Shared \notin Tid

VARIABLES
  modifying_queue,    \* the queue lock
  scheduler_running,  \* the scheduler lock
  context,            \* tcb->context: the stack on which the thread goes on
  stack,              \* the stack the processor is on
  returned,           \* the thread that entered the shared stack last
  call,               \* where the thread's own swap_context on a stack is
  handler,            \* where the signal's is
  section             \* the part of a library call a thread holds the lock in

lockVars == <<modifying_queue, scheduler_running>>
stackVars == <<context, stack, returned>>
frameVars == <<call, handler>>
swapVars == <<lockVars, stackVars, frameVars, section>>

SwapInit ==
  /\ SqInit
  /\ modifying_queue = 0 /\ scheduler_running = 0
  /\ context = [t \in Tid |-> t]
  /\ stack = Main
  /\ returned = Main
  /\ call = [s \in Stacks |-> "none"]
  /\ handler = [s \in Stacks |-> "none"]
  /\ section = [t \in Tid |-> "none"]

Owner(s) == IF s = Shared THEN returned ELSE s

Masked == handler[stack] # "none"

At(label) == IF Masked THEN handler[stack] = label ELSE call[stack] = label

Goto(label) ==
  IF Masked THEN handler' = [handler EXCEPT ![stack] = label] /\ UNCHANGED call
            ELSE call' = [call EXCEPT ![stack] = label] /\ UNCHANGED handler

(* The processor executes code of t itself, outside its critical sections. *)
InThread(t) == Owner(stack) = t /\ At("none")
Outside(t) == InThread(t) /\ section[t] = "none"

---------------------------------------------------------------------------
(* The library calls and their critical sections. *)

(* The first mypthread_create runs before the timer is set. *)
SwCreateFirst == Outside(Main) /\ SqCreateFirst /\ UNCHANGED swapVars

SwCreateThread == Outside(Main) /\ SqCreateThread /\ UNCHANGED swapVars

(* A thread's function returns to mypthread_exit, from the top of the shared  *)
(* stack, whatever that holds.                                                *)
Return(t) ==
  /\ Outside(t) /\ t \in Returning /\ stack # Shared /\ pc[t] = "user"
  /\ stack' = Shared
  /\ returned' = t
  /\ call' = [call EXCEPT ![Shared] = "none"]
  /\ handler' = [handler EXCEPT ![Shared] = "none"]
  /\ UNCHANGED <<allVars, lockVars, context, section>>

MayCall(t, name) ==
  \/ /\ name = "join" /\ pc[t] = "user" /\ stack # Shared
     /\ \E u \in Tid : <<t, u>> \in JoinPairs /\ u < thread_number
  \/ /\ name = "exit" /\ pc[t] = "user" /\ t \in Exiting /\ thread_number > 0
     /\ t \in Returning => stack = Shared
  \/ name = "create" /\ t = Main /\ pc[t] = "create_add"

(* while (__sync_lock_test_and_set(&modifying_queue, 1) == 1); *)
Enter(t, name) ==
  /\ Outside(t) /\ MayCall(t, name)
  /\ modifying_queue = 0 /\ modifying_queue' = 1
  /\ section' = [section EXCEPT ![t] = name]
  /\ UNCHANGED <<allVars, scheduler_running, stackVars, frameVars>>

JoinSection(t) ==
  /\ InThread(t) /\ section[t] = "join"
  /\ \E u \in Tid : SqJoinExited(t, u) \/ SqJoinWait(t, u)
  /\ section' = [section EXCEPT ![t] = "leave"]
  /\ UNCHANGED <<lockVars, stackVars, frameVars>>

ExitSection(t) ==
  /\ InThread(t) /\ section[t] = "exit"
  /\ SqExitStart(t)
  /\ section' = [section EXCEPT ![t] = "leave"]
  /\ UNCHANGED <<lockVars, stackVars, frameVars>>

(* add_to_run_queue() has already released the lock. *)
CreateSection ==
  /\ InThread(Main) /\ section[Main] = "create"
  /\ SqCreateAdd
  /\ modifying_queue' = 0
  /\ section' = [section EXCEPT ![Main] = "leave"]
  /\ UNCHANGED <<scheduler_running, stackVars, frameVars>>

(* The lock is not released. *)
Leave_Locked(t) ==
  /\ InThread(t) /\ section[t] = "leave"
  /\ section' = [section EXCEPT ![t] = "none"]
  /\ UNCHANGED <<allVars, lockVars, stackVars, frameVars>>

Leave(t) ==
  /\ InThread(t) /\ section[t] = "leave"
  /\ modifying_queue' = 0
  /\ section' = [section EXCEPT ![t] = "none"]
  /\ UNCHANGED <<allVars, scheduler_running, stackVars, frameVars>>

SwJoinReturn(t) == Outside(t) /\ SqJoinReturn(t) /\ UNCHANGED swapVars

(* Nothing is below mypthread_exit on the shared stack: there the model ends. *)
SwExitReturn(t) ==
  /\ Outside(t) /\ stack # Shared
  /\ SqExitReturn(t) /\ UNCHANGED swapVars

---------------------------------------------------------------------------
(* swap_context(). *)

YieldsAt == {"user", "join_yield", "exit_yield"}

CallYield(t) ==
  /\ Outside(t) /\ thread_number > 0 /\ pc[t] \in YieldsAt
  /\ t \in Returning /\ stack = Shared => pc[t] = "exit_yield"
  /\ Goto("queue")
  /\ UNCHANGED <<allVars, lockVars, stackVars, section>>

(* setitimer() with the time of only the following signals, as in sched_RR. *)
Rearmed_Interval == FALSE

(* The feedback queue sets the time to the next signal to a whole quantum     *)
(* before it releases the locks, the others leave it as it is, and so does    *)
(* the feedback queue when no thread is ready.                                *)
Rearmed == Feedback /\ phase = "thread"

(* A quantum is longer than the few statements up to the switch.              *)
BeforeSwitch == At("release_sched") \/ At("release_queue") \/ At("switch")

Signal ==
  /\ thread_number > 0 /\ ~Masked
  /\ ~(Rearmed /\ BeforeSwitch)
  /\ handler' = [handler EXCEPT ![stack] = "queue"]
  /\ UNCHANGED <<allVars, lockVars, stackVars, call, section>>

(* swap_context returns early; a thread that called it goes on as if another  *)
(* had run in between.                                                        *)
Refused ==
  /\ pc' = IF Masked \/ pc[Owner(stack)] \notin YieldsAt THEN pc
           ELSE [pc EXCEPT ![Owner(stack)] = CASE @ = "user" -> "user"
                                               [] @ = "join_yield" -> "join_return"
                                               [] @ = "exit_yield" -> "exited"]
  /\ Goto("none")
  /\ UNCHANGED <<queueVars, threadVars, joinVars, schedVars, sqVars,
                 scheduler_running, stackVars, section>>

(* Every return releases the lock. *)
TestQueue_Releases ==
  /\ At("queue")
  /\ \/ modifying_queue = 1 /\ Refused /\ modifying_queue' = 0
     \/ /\ modifying_queue = 0 /\ modifying_queue' = 1
        /\ Goto("sched")
        /\ UNCHANGED <<allVars, scheduler_running, stackVars, section>>

TestQueue ==
  /\ At("queue")
  /\ \/ modifying_queue = 1 /\ Refused /\ UNCHANGED modifying_queue
     \/ /\ modifying_queue = 0 /\ modifying_queue' = 1
        /\ Goto("sched")
        /\ UNCHANGED <<allVars, scheduler_running, stackVars, section>>

(* This return leaves the queue lock taken. *)
TestSched ==
  /\ At("sched")
  /\ \/ scheduler_running = 1 /\ Refused /\ UNCHANGED modifying_queue
     \/ /\ scheduler_running = 0 /\ scheduler_running' = 1
        /\ Goto("take")
        /\ UNCHANGED <<allVars, modifying_queue, stackVars, section>>

(* The pass begins: the head of the current queue is taken out. *)
Take ==
  /\ At("take")
  /\ IF Masked THEN SqTick(cpu) ELSE SqYield(cpu)
  /\ Goto("pass")
  /\ UNCHANGED <<lockVars, stackVars, section>>

(* add_to_run_queue() releases the queue lock in the middle of the pass; the  *)
(* round robin scheduler queues its own thread with addBack().                *)
Releases == run_queue' # run_queue /\ ~(RoundRobin /\ yield_purpose[ptr] = Timeout)

PassStep ==
  /\ At("pass")
  /\ SqSchedStep
  /\ modifying_queue' = IF Releases THEN 0 ELSE modifying_queue
  /\ IF phase' \in {"thread", "stalled"} THEN Goto("release_sched")
     ELSE UNCHANGED frameVars
  /\ UNCHANGED <<scheduler_running, stackVars, section>>

(* The release is left to the end of swap_context(). *)
ReleaseSched_Late ==
  /\ At("release_sched")
  /\ Goto("release_queue")
  /\ UNCHANGED <<allVars, lockVars, stackVars, section>>

ReleaseSched ==
  /\ At("release_sched")
  /\ scheduler_running' = 0
  /\ Goto("release_queue")
  /\ UNCHANGED <<allVars, modifying_queue, stackVars, section>>

(* The same. *)
ReleaseQueue_Late ==
  /\ At("release_queue")
  /\ Goto("switch")
  /\ UNCHANGED <<allVars, lockVars, stackVars, section>>

ReleaseQueue ==
  /\ At("release_queue")
  /\ modifying_queue' = 0
  /\ Goto("switch")
  /\ UNCHANGED <<allVars, scheduler_running, stackVars, section>>

(* swapcontext() stores the stack that executes it in ptr->tcb->context; a    *)
(* freed thread is left by setcontext(), which stores nothing.                *)
Switch ==
  /\ At("switch")
  /\ IF cpu = ptr THEN Goto("end_sched") /\ UNCHANGED stackVars
     ELSE /\ stack' = context[cpu]
          /\ IF Freed THEN UNCHANGED <<context, frameVars>>
             ELSE context' = [context EXCEPT ![ptr] = stack] /\ Goto("end_sched")
          /\ UNCHANGED returned
  /\ UNCHANGED <<allVars, lockVars, section>>

(* A thread that is given the processor again releases both locks once more. *)
EndSched ==
  /\ At("end_sched")
  /\ scheduler_running' = 0
  /\ Goto("end_queue")
  /\ UNCHANGED <<allVars, modifying_queue, stackVars, section>>

EndQueue ==
  /\ At("end_queue")
  /\ modifying_queue' = 0
  /\ Goto("none")
  /\ UNCHANGED <<allVars, scheduler_running, stackVars, section>>

---------------------------------------------------------------------------

SwapThreadStep(t) ==
  \/ \E name \in {"join", "exit", "create"} : Enter(t, name)
  \/ JoinSection(t) \/ ExitSection(t) \/ Leave(t)
  \/ SwJoinReturn(t) \/ SwExitReturn(t) \/ CallYield(t) \/ Return(t)

SwapNext ==
  \/ SwCreateFirst \/ SwCreateThread \/ CreateSection
  \/ \E t \in Tid : SwapThreadStep(t)
  \/ Signal \/ TestQueue \/ TestSched \/ Take \/ PassStep
  \/ ReleaseSched \/ ReleaseQueue \/ Switch \/ EndSched \/ EndQueue

SwapSpec == SwapInit /\ [][SwapNext]_<<allVars, swapVars>>

---------------------------------------------------------------------------
(* Properties. *)

FramePC == {"none", "queue", "sched", "take", "pass", "release_sched",
            "release_queue", "switch", "end_sched", "end_queue"}

InPass(s) == {call[s], handler[s]} \cap {"take", "pass", "release_sched"} # {}

(* The types of the variables; the scheduler lock is taken exactly while some *)
(* stack is in a pass, and no two are.                                        *)
SwapTypeOK ==
  /\ modifying_queue \in {0, 1} /\ scheduler_running \in {0, 1}
  /\ context \in [Tid -> Stacks] /\ stack \in Stacks /\ returned \in Tid
  /\ call \in [Stacks -> FramePC] /\ handler \in [Stacks -> FramePC]
  /\ section \in [Tid -> {"none", "join", "exit", "create", "leave"}]
  /\ scheduler_running = 1 <=> \E s \in Stacks : InPass(s)
  /\ \A r, s \in Stacks : InPass(r) /\ InPass(s) => r = s

(* A thread that executes its own code outside its critical sections finds    *)
(* both locks free: its loop for the queue lock ends, and its call of         *)
(* swap_context is not refused, although a refused signal leaves the lock     *)
(* taken and a new thread does not pass the releases at the end.              *)
LocksFree ==
  \A t \in Tid :
    Outside(t) /\ phase = "thread" => modifying_queue = 0 /\ scheduler_running = 0

(* The lock is released twice or more for each time it is taken: none of the  *)
(* releases, by a thread that goes on after a switch, by create or in the     *)
(* middle of a pass, opens the section that another thread is in.             *)
SectionsLocked ==
  \A t \in Tid : section[t] \in {"join", "exit", "create"} =>
    /\ modifying_queue = 1
    /\ OnProcessor(t)
    /\ \A u \in Tid \ {t} : section[u] \in {"none", "leave"}

(* mypthread.h:55: a control block's context "contains thread stack": what it *)
(* holds of a thread that has not ended is that thread's, and a thread's own  *)
(* code runs as the thread that the scheduler has chosen.                     *)
StacksOwn ==
  /\ \A t \in Tid : Queued(t) /\ t \notin exit_thread_list => Owner(context[t]) = t
  /\ phase = "thread" /\ thread_number > 0 /\ At("none") => Owner(stack) = cpu

(* With the locks and the statements, the program takes the steps that the    *)
(* model of the schedulers allows.                                            *)
ImplementsSchedulers == SqSpec
=============================================================================
