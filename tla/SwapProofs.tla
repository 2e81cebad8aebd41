----------------------------- MODULE SwapProofs -----------------------------
(***************************************************************************)
(* Proofs about SwapContext in the default build, the feedback queue, for  *)
(* programs in which at most one thread returns from its function.         *)
(***************************************************************************)
EXTENDS SwapContext, JoinProofs

(* Round robin and a second thread on the shared stack break StacksOwn.       *)
DefaultBuild == QueueNumbers = {3} /\ \A s, t \in Returning : s = t

(* The labels at which the scheduler lock is held, those between the choice   *)
(* of the next thread and the switch to it, and those a signal may find in a  *)
(* call that it takes the processor from.                                     *)
Passing == {"take", "pass", "release_sched"}
Departing == {"release_sched", "release_queue", "switch"}
Resting == {"none", "queue", "end_sched", "end_queue"}
---------------------------------------------------------------------------
(* The inductive invariant.  What the labels c of the call and h of the       *)
(* signal on the current stack say about the two locks q and s, when the      *)
(* thread that owns the stack is in the section sec:                          *)

(* a signal is in a pass only if the call below it is not, ...                *)
SignalOverCall(c, h) ==
  /\ h = "sched" => c \in Resting \cup Departing \cup {"pass"}
  /\ h = "take" => c \in Resting \cup {"release_queue", "switch"}
  /\ h \notin {"none", "queue", "sched", "take"} => c \in Resting

(* ... the scheduler lock is held in a pass, ...                              *)
SchedLock(c, h, s) == s = 1 <=> c \in Passing \/ h \in Passing

(* ... and the queue lock is held on the way into the pass, and free outside  *)
(* of the critical sections and after it; within, it may be either.           *)
QueueLock(c, h, q, sec) ==
  /\ h \in {"sched", "take"} => q = 1
  /\ h \in {"switch", "end_sched", "end_queue"} => q = 0
  /\ h \in {"none", "queue"} =>
       /\ c \in {"sched", "take"} => q = 1
       /\ c \in {"queue", "switch", "end_sched", "end_queue"} => q = 0
       /\ c = "none" /\ sec = "none" => q = 0

Local(c, h, q, s, sec) ==
  SignalOverCall(c, h) /\ SchedLock(c, h, s) /\ QueueLock(c, h, q, sec)

LocksAgree ==
  Local(call[stack], handler[stack], modifying_queue, scheduler_running,
        section[Owner(stack)])

On(labels) == call[stack] \in labels \/ handler[stack] \in labels

(* A stack that is left has finished its pass.                                *)
OthersRest == \A s \in Stacks \ {stack} : ~InPass(s)

(* Only the thread that executes is in a section, and not below a pass.       *)
SectionIsCurrent ==
  \A t \in Tid : section[t] \in {"join", "exit", "create"} =>
    /\ Owner(stack) = t /\ modifying_queue = 1
    /\ call[stack] = "none" /\ handler[stack] \in {"none", "queue"}

(* The owner of the stack is the executing thread, but for the statements     *)
(* between the end of the pass and the switch, where it is still ptr; and     *)
(* there no signal comes, unless the pass has found no thread.                *)
OwnerExecutes ==
  /\ phase \in {"thread", "stalled"} <=> ~On({"pass"})
  /\ phase = "stalled" => cpu = ptr
  /\ phase = "thread" /\ handler[stack] # "none" => call[stack] \notin Departing
  /\ On(Departing) => Owner(stack) = ptr
  /\ ~On(Departing) => Owner(stack) = cpu

(* The thread that is left for good has been recorded as exited.              *)
LeftForGood ==
  (phase = "dispatch" \/ On(Departing)) /\ yield_purpose[ptr] = Exit
    => ptr \in exit_thread_list

(* A context is the thread's own stack or, if it is the one that returned,    *)
(* the shared one.                                                            *)
ContextsOwn ==
  /\ \A t \in Tid :
       context[t] = t \/ (context[t] = Shared /\ t \in Returning /\ returned = t)
  /\ stack = Shared => returned \in Returning

(* A thread that does not execute goes on from its beginning, behind its own  *)
(* switch, or behind that of a signal that found its call at rest.            *)
Resumable(c, h) ==
  \/ c \in {"none", "end_sched"} /\ h = "none"
  \/ c \in Resting /\ h = "end_sched"

OthersResumable ==
  \A t \in Tid \ exit_thread_list :
    t # Owner(stack) => Resumable(call[context[t]], handler[context[t]])

FrameTypeOK ==
  /\ modifying_queue \in {0, 1} /\ scheduler_running \in {0, 1}
  /\ context \in [Tid -> Stacks] /\ stack \in Stacks /\ returned \in Tid
  /\ call \in [Stacks -> FramePC] /\ handler \in [Stacks -> FramePC]
  /\ section \in [Tid -> {"none", "join", "exit", "create", "leave"}]

SwInv ==
  /\ IInv
  /\ Feedback
  /\ FrameTypeOK
  /\ LocksAgree
  /\ OthersRest
  /\ SectionIsCurrent
  /\ OwnerExecutes
  /\ LeftForGood
  /\ ContextsOwn
  /\ OthersResumable
---------------------------------------------------------------------------
(* Lemmas: what a step leaves as it was. *)

LEMMA StackTypes ==
  ASSUME SwInv
  PROVE  /\ stack \in Stacks /\ Owner(stack) \in Tid
         /\ \A t \in Tid : t # Shared /\ Owner(t) = t /\ context[t] \in Stacks
         /\ \A s \in Stacks : call[s] \in FramePC /\ handler[s] \in FramePC
         /\ \A t \in Tid : Owner(context[t]) = t
BY SwapAssumption DEF SwInv, FrameTypeOK, ContextsOwn, Owner, Stacks

(* The steps in which the processor stays on its stack.                       *)
LEMMA SameStack ==
  ASSUME SwInv, IInv', QUEUE_NUMBER' = QUEUE_NUMBER, UNCHANGED stackVars,
         exit_thread_list \subseteq exit_thread_list',
         \A s \in Stacks \ {stack} : call'[s] = call[s] /\ handler'[s] = handler[s]
  PROVE  /\ Feedback' /\ OthersRest' /\ ContextsOwn' /\ OthersResumable'
         /\ Owner(stack)' = Owner(stack)
<1>1. /\ context' = context /\ stack' = stack /\ returned' = returned
      /\ Owner(stack)' = Owner(stack)
  BY DEF stackVars, Owner
<1>2. Feedback'
  BY DEF SwInv, Feedback
<1>3. OthersRest'
  BY <1>1 DEF SwInv, OthersRest, InPass
<1>4. ContextsOwn'
  BY <1>1 DEF SwInv, ContextsOwn
<1>5. OthersResumable'
  <2> SUFFICES ASSUME NEW t \in Tid, t \notin exit_thread_list', t # Owner(stack)
               PROVE  Resumable(call'[context[t]], handler'[context[t]])
    BY <1>1 DEF OthersResumable
  <2>1. context[t] \in Stacks \ {stack}
    BY StackTypes
  <2>2. Resumable(call[context[t]], handler[context[t]])
    BY DEF SwInv, OthersResumable
  <2> QED  BY <2>1, <2>2
<1> QED  BY <1>1, <1>2, <1>3, <1>4, <1>5

(* The label that moves is the one of the code that executes.                 *)
LEMMA GotoMoves ==
  ASSUME SwInv, NEW label \in FramePC, Goto(label)
  PROVE  /\ call' \in [Stacks -> FramePC] /\ handler' \in [Stacks -> FramePC]
         /\ Masked => call'[stack] = call[stack] /\ handler'[stack] = label
         /\ ~Masked => call'[stack] = label /\ handler'[stack] = handler[stack]
         /\ \A s \in Stacks \ {stack} : call'[s] = call[s] /\ handler'[s] = handler[s]
BY DEF SwInv, FrameTypeOK, Goto, Masked

(* The scheduler's variables stay.                                            *)
LEMMA SameThreads ==
  ASSUME SwInv, UNCHANGED allVars
  PROVE  /\ IInv' /\ QUEUE_NUMBER' = QUEUE_NUMBER
         /\ phase' = phase /\ cpu' = cpu /\ ptr' = ptr
         /\ exit_thread_list' = exit_thread_list /\ yield_purpose' = yield_purpose
<1>1. IInv'
  BY StutterKeeps DEF SwInv, allVars
<1> QED  BY <1>1 DEF allVars, vars, sqVars, schedVars, threadVars, joinVars
---------------------------------------------------------------------------
(* swap_context(), statement by statement. *)

(* A statement that moves the label and sets locks outside the sections.      *)
LEMMA Statement ==
  ASSUME SwInv, NEW label \in FramePC, Goto(label), UNCHANGED <<allVars, stackVars, section>>,
         modifying_queue' \in {0, 1}, scheduler_running' \in {0, 1},
         LocksAgree', SectionIsCurrent', OwnerExecutes',
         On(Departing)' => On(Departing)
  PROVE  SwInv'
<1>1. /\ IInv' /\ QUEUE_NUMBER' = QUEUE_NUMBER
      /\ phase' = phase /\ cpu' = cpu /\ ptr' = ptr
      /\ exit_thread_list' = exit_thread_list /\ yield_purpose' = yield_purpose
  BY SameThreads
<1>2. /\ call' \in [Stacks -> FramePC] /\ handler' \in [Stacks -> FramePC]
      /\ \A s \in Stacks \ {stack} : call'[s] = call[s] /\ handler'[s] = handler[s]
  BY GotoMoves
<1>3. Feedback' /\ OthersRest' /\ ContextsOwn' /\ OthersResumable'
  BY <1>1, <1>2, SameStack
<1>4. FrameTypeOK'
  BY <1>2 DEF SwInv, FrameTypeOK, stackVars
<1>5. LeftForGood'
  BY <1>1 DEF SwInv, LeftForGood
<1> QED  BY <1>1, <1>3, <1>4, <1>5 DEF SwInv

(* The queue lock is free when a thread's own call tests it.                  *)
LEMMA CallNotRefused ==
  ASSUME SwInv, ~Masked
  PROVE  /\ At("queue") => modifying_queue = 0
         /\ At("sched") => scheduler_running = 0
BY DEF SwInv, LocksAgree, Local, SchedLock, QueueLock, At, Masked, Passing, FrameTypeOK

LEMMA RefusedSignal ==
  ASSUME SwInv, Masked, Refused, UNCHANGED modifying_queue,
         \/ At("queue") /\ modifying_queue = 1
         \/ At("sched") /\ scheduler_running = 1
  PROVE  SwInv'
<1>1. /\ Goto("none") /\ UNCHANGED <<allVars, stackVars, section, scheduler_running>>
  BY DEF Refused, allVars, vars
<1>2. /\ call'[stack] = call[stack] /\ handler'[stack] = "none" /\ stack' = stack
      /\ Owner(stack)' = Owner(stack)
  BY <1>1, GotoMoves DEF FramePC, stackVars, Owner
<1>3. handler[stack] \in {"queue", "sched"}
  BY DEF At
<1>4. LocksAgree'
  BY <1>1, <1>2, <1>3 DEF SwInv, LocksAgree, Local, SignalOverCall, SchedLock, QueueLock,
     At, Masked, Passing, Departing, Resting, FrameTypeOK
<1>5. SectionIsCurrent'
  BY <1>1, <1>2 DEF SwInv, SectionIsCurrent, Masked
<1>6. OwnerExecutes' /\ (On(Departing)' => On(Departing))
  BY <1>1, <1>2, <1>3, SameThreads DEF SwInv, OwnerExecutes, On, Departing
<1> QED  BY <1>1, <1>4, <1>5, <1>6, Statement DEF SwInv, FrameTypeOK, FramePC

LEMMA TestQueueKeeps == ASSUME SwInv, TestQueue PROVE SwInv'
<1>1. CASE modifying_queue = 1 /\ Refused /\ UNCHANGED modifying_queue
  <2>1. At("queue")
    BY DEF TestQueue
  <2>2. Masked
    BY <1>1, <2>1, CallNotRefused
  <2> QED  BY <1>1, <2>1, <2>2, RefusedSignal
<1>2. CASE /\ modifying_queue = 0 /\ modifying_queue' = 1 /\ Goto("sched")
           /\ UNCHANGED <<allVars, scheduler_running, stackVars, section>>
  <2>1. /\ stack' = stack /\ Owner(stack)' = Owner(stack) /\ section' = section
        /\ Masked => call'[stack] = call[stack] /\ handler'[stack] = "sched"
        /\ ~Masked => call'[stack] = "sched" /\ handler'[stack] = handler[stack]
    BY <1>2, GotoMoves DEF FramePC, stackVars, Owner
  <2>2. At("queue")
    BY DEF TestQueue
  <2>3. LocksAgree'
    BY <1>2, <2>1, <2>2 DEF SwInv, LocksAgree, Local, SignalOverCall, SchedLock, QueueLock,
       At, Masked, Passing, Departing, Resting, FrameTypeOK, FramePC, Stacks
  <2>4. SectionIsCurrent'
    BY <1>2, <2>1 DEF SwInv, SectionIsCurrent
  <2>5. OwnerExecutes' /\ (On(Departing)' => On(Departing))
    BY <1>2, <2>1, <2>2, SameThreads DEF SwInv, OwnerExecutes, On, Departing, At, Masked
  <2> QED  BY <1>2, <2>3, <2>4, <2>5, Statement DEF SwInv, FrameTypeOK, FramePC
<1> QED  BY <1>1, <1>2 DEF TestQueue

LEMMA TestSchedKeeps == ASSUME SwInv, TestSched PROVE SwInv'
<1>1. CASE scheduler_running = 1 /\ Refused /\ UNCHANGED modifying_queue
  <2>1. At("sched")
    BY DEF TestSched
  <2>2. Masked
    BY <1>1, <2>1, CallNotRefused
  <2> QED  BY <1>1, <2>1, <2>2, RefusedSignal
<1>2. CASE /\ scheduler_running = 0 /\ scheduler_running' = 1 /\ Goto("take")
           /\ UNCHANGED <<allVars, modifying_queue, stackVars, section>>
  <2>1. /\ stack' = stack /\ Owner(stack)' = Owner(stack) /\ section' = section
        /\ Masked => call'[stack] = call[stack] /\ handler'[stack] = "take"
        /\ ~Masked => call'[stack] = "take" /\ handler'[stack] = handler[stack]
    BY <1>2, GotoMoves DEF FramePC, stackVars, Owner
  <2>2. At("sched")
    BY DEF TestSched
  <2>3. LocksAgree'
    BY <1>2, <2>1, <2>2 DEF SwInv, LocksAgree, Local, SignalOverCall, SchedLock, QueueLock,
       At, Masked, Passing, Departing, Resting, FrameTypeOK
  <2>4. SectionIsCurrent'
    BY <1>2, <2>1, <2>2 DEF SwInv, SectionIsCurrent, At, Masked
  <2>5. OwnerExecutes' /\ (On(Departing)' => On(Departing))
    BY <1>2, <2>1, <2>2, SameThreads DEF SwInv, OwnerExecutes, On, Departing, At, Masked
  <2> QED  BY <1>2, <2>3, <2>4, <2>5, Statement DEF SwInv, FrameTypeOK, FramePC
<1> QED  BY <1>1, <1>2 DEF TestSched

LEMMA SignalKeeps == ASSUME SwInv, Signal PROVE SwInv'
<1>1. /\ ~Masked /\ handler' = [handler EXCEPT ![stack] = "queue"]
      /\ phase = "thread" => ~BeforeSwitch
      /\ UNCHANGED <<allVars, lockVars, stackVars, call, section>>
  BY DEF Signal, Rearmed, SwInv
<1>2. /\ handler[stack] = "none" /\ handler'[stack] = "queue" /\ call'[stack] = call[stack]
      /\ handler' \in [Stacks -> FramePC]
      /\ phase = "thread" => call[stack] \notin Departing
      /\ \A s \in Stacks \ {stack} : call'[s] = call[s] /\ handler'[s] = handler[s]
      /\ stack' = stack /\ Owner(stack)' = Owner(stack)
  BY <1>1 DEF SwInv, FrameTypeOK, Masked, BeforeSwitch, At, Departing, FramePC, stackVars, Owner
<1>3. /\ IInv' /\ QUEUE_NUMBER' = QUEUE_NUMBER
      /\ phase' = phase /\ cpu' = cpu /\ ptr' = ptr
      /\ exit_thread_list' = exit_thread_list /\ yield_purpose' = yield_purpose
  BY <1>1, SameThreads
<1>4. Feedback' /\ OthersRest' /\ ContextsOwn' /\ OthersResumable'
  BY <1>1, <1>2, <1>3, SameStack
<1>5. FrameTypeOK'
  BY <1>1, <1>2 DEF SwInv, FrameTypeOK, lockVars, stackVars
<1>6. LocksAgree'
  BY <1>1, <1>2 DEF SwInv, LocksAgree, Local, SignalOverCall, SchedLock, QueueLock,
     lockVars, Passing, Departing, Resting
<1>7. SectionIsCurrent'
  BY <1>1, <1>2 DEF SwInv, SectionIsCurrent, lockVars
<1>8. OwnerExecutes' /\ LeftForGood'
  BY <1>2, <1>3 DEF SwInv, OwnerExecutes, LeftForGood, On, Departing
<1> QED  BY <1>3, <1>4, <1>5, <1>6, <1>7, <1>8 DEF SwInv

LEMMA ReleaseSchedKeeps == ASSUME SwInv, ReleaseSched PROVE SwInv'
<1>1. /\ At("release_sched") /\ Goto("release_queue") /\ scheduler_running' = 0
      /\ UNCHANGED <<allVars, modifying_queue, stackVars, section>>
  BY DEF ReleaseSched
<1>2. /\ stack' = stack /\ Owner(stack)' = Owner(stack) /\ section' = section
      /\ Masked => call'[stack] = call[stack] /\ handler'[stack] = "release_queue"
      /\ ~Masked => call'[stack] = "release_queue" /\ handler'[stack] = handler[stack]
  BY <1>1, GotoMoves DEF FramePC, stackVars, Owner
<1>3. LocksAgree'
  BY <1>1, <1>2 DEF SwInv, LocksAgree, Local, SignalOverCall, SchedLock, QueueLock,
     At, Masked, Passing, Departing, Resting, FrameTypeOK
<1>4. SectionIsCurrent'
  BY <1>1, <1>2 DEF SwInv, SectionIsCurrent, At, Masked
<1>5. OwnerExecutes' /\ (On(Departing)' => On(Departing))
  BY <1>1, <1>2, SameThreads DEF SwInv, OwnerExecutes, On, Departing, At, Masked
<1> QED  BY <1>1, <1>3, <1>4, <1>5, Statement DEF SwInv, FrameTypeOK, FramePC

LEMMA ReleaseQueueKeeps == ASSUME SwInv, ReleaseQueue PROVE SwInv'
<1>1. /\ At("release_queue") /\ Goto("switch") /\ modifying_queue' = 0
      /\ UNCHANGED <<allVars, scheduler_running, stackVars, section>>
  BY DEF ReleaseQueue
<1>2. /\ stack' = stack /\ Owner(stack)' = Owner(stack) /\ section' = section
      /\ Masked => call'[stack] = call[stack] /\ handler'[stack] = "switch"
      /\ ~Masked => call'[stack] = "switch" /\ handler'[stack] = handler[stack]
  BY <1>1, GotoMoves DEF FramePC, stackVars, Owner
<1>3. LocksAgree'
  BY <1>1, <1>2 DEF SwInv, LocksAgree, Local, SignalOverCall, SchedLock, QueueLock,
     At, Masked, Passing, Departing, Resting, FrameTypeOK
<1>4. SectionIsCurrent'
  BY <1>1, <1>2 DEF SwInv, SectionIsCurrent, At, Masked
<1>5. OwnerExecutes' /\ (On(Departing)' => On(Departing))
  BY <1>1, <1>2, SameThreads DEF SwInv, OwnerExecutes, On, Departing, At, Masked
<1> QED  BY <1>1, <1>3, <1>4, <1>5, Statement DEF SwInv, FrameTypeOK, FramePC

LEMMA EndSchedKeeps == ASSUME SwInv, EndSched PROVE SwInv'
<1>1. /\ At("end_sched") /\ Goto("end_queue") /\ scheduler_running' = 0
      /\ UNCHANGED <<allVars, modifying_queue, stackVars, section>>
  BY DEF EndSched
<1>2. /\ stack' = stack /\ Owner(stack)' = Owner(stack) /\ section' = section
      /\ Masked => call'[stack] = call[stack] /\ handler'[stack] = "end_queue"
      /\ ~Masked => call'[stack] = "end_queue" /\ handler'[stack] = handler[stack]
  BY <1>1, GotoMoves DEF FramePC, stackVars, Owner
<1>3. LocksAgree'
  BY <1>1, <1>2 DEF SwInv, LocksAgree, Local, SignalOverCall, SchedLock, QueueLock,
     At, Masked, Passing, Departing, Resting, FrameTypeOK
<1>4. SectionIsCurrent'
  BY <1>1, <1>2 DEF SwInv, SectionIsCurrent, At, Masked
<1>5. OwnerExecutes' /\ (On(Departing)' => On(Departing))
  BY <1>1, <1>2, SameThreads DEF SwInv, OwnerExecutes, On, Departing, At, Masked
<1> QED  BY <1>1, <1>3, <1>4, <1>5, Statement DEF SwInv, FrameTypeOK, FramePC

LEMMA EndQueueKeeps == ASSUME SwInv, EndQueue PROVE SwInv'
<1>1. /\ At("end_queue") /\ Goto("none") /\ modifying_queue' = 0
      /\ UNCHANGED <<allVars, scheduler_running, stackVars, section>>
  BY DEF EndQueue
<1>2. /\ stack' = stack /\ Owner(stack)' = Owner(stack) /\ section' = section
      /\ Masked => call'[stack] = call[stack] /\ handler'[stack] = "none"
      /\ ~Masked => call'[stack] = "none" /\ handler'[stack] = handler[stack]
  BY <1>1, GotoMoves DEF FramePC, stackVars, Owner
<1>3. LocksAgree'
  BY <1>1, <1>2 DEF SwInv, LocksAgree, Local, SignalOverCall, SchedLock, QueueLock,
     At, Masked, Passing, Departing, Resting, FrameTypeOK
<1>4. SectionIsCurrent'
  BY <1>1, <1>2 DEF SwInv, SectionIsCurrent, At, Masked
<1>5. OwnerExecutes' /\ (On(Departing)' => On(Departing))
  BY <1>1, <1>2, SameThreads DEF SwInv, OwnerExecutes, On, Departing, At, Masked
<1> QED  BY <1>1, <1>3, <1>4, <1>5, Statement DEF SwInv, FrameTypeOK, FramePC

LEMMA CallYieldKeeps == ASSUME SwInv, NEW t \in Tid, CallYield(t) PROVE SwInv'
<1>1. /\ Outside(t) /\ Goto("queue") /\ UNCHANGED <<allVars, lockVars, stackVars, section>>
  BY DEF CallYield
<1>2. /\ Owner(stack) = t /\ section[t] = "none"
      /\ ~Masked /\ call[stack] = "none" /\ handler[stack] = "none"
  BY <1>1 DEF Outside, InThread, At, Masked
<1>3. /\ stack' = stack /\ Owner(stack)' = Owner(stack) /\ section' = section
      /\ call'[stack] = "queue" /\ handler'[stack] = "none"
      /\ modifying_queue' = modifying_queue /\ scheduler_running' = scheduler_running
  BY <1>1, <1>2, GotoMoves DEF FramePC, stackVars, lockVars, Owner
<1>4. LocksAgree'
  BY <1>2, <1>3 DEF SwInv, LocksAgree, Local, SignalOverCall, SchedLock, QueueLock, Passing,
     Departing, Resting
<1>5. SectionIsCurrent'
  BY <1>2, <1>3 DEF SwInv, SectionIsCurrent
<1>6. OwnerExecutes' /\ (On(Departing)' => On(Departing))
  BY <1>1, <1>2, <1>3, SameThreads DEF SwInv, OwnerExecutes, On, Departing
<1> QED  BY <1>1, <1>3, <1>4, <1>5, <1>6, Statement DEF SwInv, FrameTypeOK, FramePC

(* The pass begins with a step of Mlfq by the thread that executes.           *)
LEMMA TakeTicks ==
  ASSUME SwInv, Take
  PROVE  /\ \E t \in Tid : Tick(t) \/ Yield(t)
         /\ QUEUE_NUMBER' = QUEUE_NUMBER
<1>1. cpu \in Tid
  BY DEF SwInv, IInv, TypeOK, ThreadTypeOK
<1>2. ASSUME SqTick(cpu) PROVE Tick(cpu) /\ QUEUE_NUMBER' = QUEUE_NUMBER
  BY <1>2 DEF SwInv, Feedback, SqTick, Tick, schedule, sched_RR, sched_PSJF, sched_MLFQ,
     RoundRobin, Psjf
<1>3. ASSUME SqYield(cpu) PROVE Yield(cpu) /\ QUEUE_NUMBER' = QUEUE_NUMBER
  BY <1>3 DEF SwInv, Feedback, SqYield, Yield, schedule, sched_RR, sched_PSJF, sched_MLFQ,
     RoundRobin, Psjf
<1>4. SqTick(cpu) \/ SqYield(cpu)
  BY DEF Take
<1> QED  BY <1>1, <1>2, <1>3, <1>4

LEMMA TakeKeeps == ASSUME SwInv, Take PROVE SwInv'
<1>1. /\ At("take") /\ Goto("pass") /\ UNCHANGED <<lockVars, stackVars, section>>
  BY DEF Take
<1>2. PICK t \in Tid : Tick(t) \/ Yield(t)
  BY TakeTicks
<1>3. IInv' /\ QUEUE_NUMBER' = QUEUE_NUMBER
  BY <1>2, TakeTicks, StepKeepsInv DEF SwInv, Next, ThreadStep
<1>4. /\ phase = "thread" /\ phase' = "handle" /\ ptr' = cpu /\ cpu' = cpu
      /\ exit_thread_list' = exit_thread_list /\ yield_purpose' = yield_purpose
  BY <1>2 DEF SwInv, IInv, CurrentIsExecuting, Tick, Yield, Executing, Deschedule,
     threadVars, joinVars
<1>5. /\ call' \in [Stacks -> FramePC] /\ handler' \in [Stacks -> FramePC]
      /\ stack' = stack /\ Owner(stack)' = Owner(stack) /\ section' = section
      /\ Masked => call'[stack] = call[stack] /\ handler'[stack] = "pass"
      /\ ~Masked => call'[stack] = "pass" /\ handler'[stack] = handler[stack]
      /\ \A s \in Stacks \ {stack} : call'[s] = call[s] /\ handler'[s] = handler[s]
      /\ modifying_queue' = modifying_queue /\ scheduler_running' = scheduler_running
  BY <1>1, GotoMoves DEF FramePC, stackVars, lockVars, Owner
<1>6. Feedback' /\ OthersRest' /\ ContextsOwn' /\ OthersResumable'
  BY <1>1, <1>3, <1>4, <1>5, SameStack
<1>7. FrameTypeOK'
  BY <1>1, <1>5 DEF SwInv, FrameTypeOK, stackVars
<1>8. LocksAgree'
  BY <1>1, <1>4, <1>5 DEF SwInv, LocksAgree, Local, SignalOverCall, SchedLock, QueueLock,
     OwnerExecutes, At, Masked, Passing, Departing, Resting, FrameTypeOK
<1>9. SectionIsCurrent'
  BY <1>1, <1>5 DEF SwInv, SectionIsCurrent, At, Masked
<1>10. OwnerExecutes' /\ LeftForGood'
  BY <1>1, <1>4, <1>5
     DEF SwInv, LocksAgree, Local, SignalOverCall, OwnerExecutes, LeftForGood, On, At, Masked,
         Departing, Resting
<1> QED  BY <1>3, <1>6, <1>7, <1>8, <1>9, <1>10 DEF SwInv

(* A step of the pass: ptr is the thread that the processor leaves, and is    *)
(* recorded as exited before the pass chooses another one.                    *)
LEMMA PassEffect ==
  ASSUME IInv, SchedStep
  PROVE  /\ phase \in {"handle", "dispatch"} /\ ptr = cpu /\ ptr' = ptr
         /\ phase' # "thread" => cpu' = cpu
         /\ phase' \in {"thread", "stalled"} =>
              /\ phase = "dispatch" /\ yield_purpose' = yield_purpose
              /\ exit_thread_list' = exit_thread_list
         /\ phase' = "dispatch" /\ yield_purpose'[ptr] = Exit => ptr \in exit_thread_list'
         /\ exit_thread_list \subseteq exit_thread_list'
         /\ phase' \in {"thread", "handle", "dispatch", "stalled"}
<1> USE DEF threadVars, joinVars
<1>1. CASE HandleTimeout
  BY <1>1 DEF HandleTimeout, IInv, PtrTakenOff, Timeout, Exit
<1>2. CASE HandleBlock
  BY <1>2 DEF HandleBlock, IInv, PtrTakenOff, Timeout, Exit, TypeOK, ThreadTypeOK
<1>3. CASE HandleExitWake
  BY <1>3 DEF HandleExitWake, Exits, IInv, PtrTakenOff
<1>4. CASE HandleExitSkip
  BY <1>4 DEF HandleExitSkip, Exits, IInv, PtrTakenOff
<1>5. CASE HandleExitDone
  BY <1>5 DEF HandleExitDone, Exits, IInv, PtrTakenOff
<1>6. CASE Dispatch
  BY <1>6 DEF Dispatch, IInv, PtrTakenOff
<1>7. CASE Stall
  BY <1>7 DEF Stall, IInv, PtrTakenOff
<1> QED  BY <1>1, <1>2, <1>3, <1>4, <1>5, <1>6, <1>7 DEF SchedStep

LEMMA PassSteps ==
  ASSUME SwInv, SqSchedStep
  PROVE  SchedStep /\ QUEUE_NUMBER' = QUEUE_NUMBER
<1>1. MlfqStep
  BY DEF SwInv, Feedback, SqSchedStep, RRBlock, RRTimeout, RRExitWake, RRExitSkip, RRExitDone,
     RRSwitch, PsjfBlock, PsjfTimeout, PsjfExitWake, PsjfExitSkip, PsjfExitDone, PsjfSwitch,
     SqStall, RoundRobin, Psjf
<1> QED  BY <1>1 DEF MlfqStep, sqVars

LEMMA PassStepKeeps == ASSUME SwInv, PassStep PROVE SwInv'
<1>1. /\ At("pass") /\ SchedStep /\ QUEUE_NUMBER' = QUEUE_NUMBER
      /\ modifying_queue' \in {0, modifying_queue}
      /\ UNCHANGED <<scheduler_running, stackVars, section>>
      /\ phase' \in {"thread", "stalled"} => Goto("release_sched")
      /\ phase' \notin {"thread", "stalled"} => UNCHANGED frameVars
  BY PassSteps DEF PassStep
<1>2. IInv'
  BY <1>1, StepKeepsInv DEF SwInv, Next
<1>3. /\ call' \in [Stacks -> FramePC] /\ handler' \in [Stacks -> FramePC]
      /\ stack' = stack /\ Owner(stack)' = Owner(stack) /\ section' = section
      /\ phase' \in {"thread", "stalled"} =>
           /\ Masked => call'[stack] = call[stack] /\ handler'[stack] = "release_sched"
           /\ ~Masked => call'[stack] = "release_sched" /\ handler'[stack] = handler[stack]
      /\ phase' \notin {"thread", "stalled"} => call' = call /\ handler' = handler
      /\ \A s \in Stacks \ {stack} : call'[s] = call[s] /\ handler'[s] = handler[s]
  BY <1>1, GotoMoves DEF FramePC, stackVars, frameVars, Owner, SwInv, FrameTypeOK
<1>4. Feedback' /\ OthersRest' /\ ContextsOwn' /\ OthersResumable'
  BY <1>1, <1>2, <1>3, PassEffect, SameStack DEF SwInv
<1>5. FrameTypeOK'
  BY <1>1, <1>3 DEF SwInv, FrameTypeOK, stackVars
<1>6. LocksAgree'
  BY <1>1, <1>3 DEF SwInv, LocksAgree, Local, SignalOverCall, SchedLock, QueueLock,
     At, Masked, Passing, Departing, Resting, FrameTypeOK
<1>7. SectionIsCurrent'
  BY <1>1, <1>3 DEF SwInv, SectionIsCurrent, At, Masked
<1>8. OwnerExecutes' /\ LeftForGood'
  BY <1>1, <1>3, PassEffect
     DEF SwInv, LocksAgree, Local, SignalOverCall, OwnerExecutes, LeftForGood, On, At, Masked,
         Departing, Resting
<1> QED  BY <1>2, <1>4, <1>5, <1>6, <1>7, <1>8 DEF SwInv
---------------------------------------------------------------------------
(* The library calls. *)

LibraryCall ==
  \/ SqCreateFirst \/ SqCreateThread \/ SqCreateAdd
  \/ \E t \in Tid : \/ \E u \in Tid : SqJoinExited(t, u) \/ SqJoinWait(t, u)
                    \/ SqJoinReturn(t) \/ SqExitStart(t) \/ SqExitReturn(t)

(* A thread that executes its own code has no call and no signal on its stack. *)
LEMMA OwnCode ==
  ASSUME SwInv, NEW t \in Tid, InThread(t)
  PROVE  /\ Owner(stack) = t /\ call[stack] = "none" /\ handler[stack] = "none"
         /\ phase \in {"thread", "stalled"} /\ cpu = t /\ scheduler_running = 0
         /\ section[t] = "none" => modifying_queue = 0
BY DEF SwInv, InThread, At, Masked, OwnerExecutes, On, Departing, LocksAgree, Local, SchedLock,
       QueueLock, Passing, FrameTypeOK

LEMMA CallEffect ==
  ASSUME SwInv, LibraryCall
  PROVE  /\ IInv' /\ QUEUE_NUMBER' = QUEUE_NUMBER
         /\ phase' = phase /\ cpu' = cpu /\ ptr' = ptr
         /\ exit_thread_list' = exit_thread_list
<1>1. Create \/ \E t \in Tid : \/ \E u \in Tid : JoinExited(t, u) \/ JoinWait(t, u)
                               \/ JoinReturn(t) \/ ExitStart(t) \/ ExitReturn(t)
  BY DEF LibraryCall, Create, SqCreateFirst, SqCreateThread, SqCreateAdd, SqJoinExited,
         SqJoinWait, SqJoinReturn, SqExitStart, SqExitReturn
<1>2. IInv'
  BY <1>1, StepKeepsInv DEF SwInv, Next, ThreadStep
<1>3. QUEUE_NUMBER' = QUEUE_NUMBER
  BY DEF LibraryCall, SqCreateFirst, SqCreateThread, SqCreateAdd, SqJoinExited,
         SqJoinWait, SqJoinReturn, SqExitStart, SqExitReturn, MaybeRefused, sqVars
<1>4. /\ phase' = phase /\ cpu' = cpu /\ ptr' = ptr
      /\ exit_thread_list' = exit_thread_list
  BY <1>1 DEF Create, CreateFirst, CreateThread, CreateAdd, JoinExited, JoinWait, JoinReturn,
              ExitStart, ExitReturn, joinVars, schedVars, threadVars
<1> QED  BY <1>2, <1>3, <1>4

LEMMA CallKeeps ==
  ASSUME SwInv, NEW t \in Tid, InThread(t), UNCHANGED <<stackVars, frameVars, scheduler_running>>,
         LibraryCall \/ UNCHANGED allVars,
         modifying_queue' \in {0, 1}, NEW sec \in {"none", "join", "exit", "create", "leave"},
         section' = [section EXCEPT ![t] = sec],
         sec = "none" => modifying_queue' = 0,
         sec \in {"join", "exit", "create"} => modifying_queue' = 1
  PROVE  SwInv'
<1>1. /\ IInv' /\ QUEUE_NUMBER' = QUEUE_NUMBER
      /\ phase' = phase /\ cpu' = cpu /\ ptr' = ptr
      /\ exit_thread_list' = exit_thread_list
  BY CallEffect, SameThreads
<1>2. /\ Owner(stack) = t /\ call[stack] = "none" /\ handler[stack] = "none"
      /\ phase \in {"thread", "stalled"} /\ cpu = t /\ scheduler_running = 0
  BY OwnCode
<1>3. /\ stack' = stack /\ Owner(stack)' = Owner(stack) /\ call' = call /\ handler' = handler
      /\ section'[t] = sec /\ \A s \in Tid \ {t} : section'[s] = section[s]
  BY DEF stackVars, frameVars, Owner, SwInv, FrameTypeOK
<1>4. Feedback' /\ OthersRest' /\ ContextsOwn' /\ OthersResumable'
  BY <1>1, <1>3, SameStack
<1>5. FrameTypeOK'
  BY <1>3 DEF SwInv, FrameTypeOK, stackVars
<1>6. LocksAgree'
  BY <1>2, <1>3 DEF SwInv, LocksAgree, Local, SignalOverCall, SchedLock, QueueLock, Passing,
     Departing, Resting
<1>7. SectionIsCurrent'
  BY <1>2, <1>3 DEF SwInv, SectionIsCurrent
<1>8. OwnerExecutes' /\ LeftForGood'
  BY <1>1, <1>2, <1>3 DEF SwInv, OwnerExecutes, LeftForGood, On, Departing
<1> QED  BY <1>1, <1>4, <1>5, <1>6, <1>7, <1>8 DEF SwInv

(* Entering a critical section, what is done in it, and leaving it.           *)
LEMMA SectionsKeep ==
  ASSUME SwInv, NEW t \in Tid,
         \/ \E name \in {"join", "exit", "create"} : Enter(t, name)
         \/ JoinSection(t) \/ ExitSection(t) \/ Leave(t)
  PROVE  SwInv'
<1> USE DEF lockVars
<1>1. ASSUME NEW name \in {"join", "exit", "create"}, Enter(t, name) PROVE SwInv'
  BY <1>1, CallKeeps DEF Enter, Outside
<1>2. CASE JoinSection(t)
  BY <1>2, CallKeeps DEF JoinSection, LibraryCall, SwInv, FrameTypeOK
<1>3. CASE ExitSection(t)
  BY <1>3, CallKeeps DEF ExitSection, LibraryCall, SwInv, FrameTypeOK
<1>4. CASE Leave(t)
  BY <1>4, CallKeeps DEF Leave
<1> QED  BY <1>1, <1>2, <1>3, <1>4

LEMMA CreateSectionKeeps == ASSUME SwInv, CreateSection PROVE SwInv'
BY MainIsThread, CallKeeps DEF CreateSection, LibraryCall

(* The calls that take no lock.                                               *)
LEMMA OutsideKeeps ==
  ASSUME SwInv, NEW t \in Tid, Outside(t), LibraryCall, UNCHANGED swapVars
  PROVE  SwInv'
<1>1. /\ InThread(t) /\ section[t] = "none" /\ modifying_queue = 0
  BY OwnCode DEF Outside
<1>2. section' = [section EXCEPT ![t] = "none"]
  BY <1>1 DEF swapVars, SwInv, FrameTypeOK
<1> QED  BY <1>1, <1>2, CallKeeps DEF swapVars, lockVars

(* A thread that returns enters the shared stack, as the only one.            *)
LEMMA ReturnKeeps == ASSUME SwInv, DefaultBuild, NEW t \in Tid, Return(t) PROVE SwInv'
<1>1. /\ InThread(t) /\ section[t] = "none" /\ t \in Returning /\ stack # Shared
      /\ stack' = Shared /\ returned' = t
      /\ call' = [call EXCEPT ![Shared] = "none"]
      /\ handler' = [handler EXCEPT ![Shared] = "none"]
      /\ UNCHANGED <<allVars, lockVars, context, section>>
  BY DEF Return, Outside
<1>2. /\ Owner(stack) = t /\ call[stack] = "none" /\ handler[stack] = "none"
      /\ phase \in {"thread", "stalled"} /\ cpu = t
      /\ scheduler_running = 0 /\ modifying_queue = 0
  BY <1>1, OwnCode
<1>3. /\ IInv' /\ QUEUE_NUMBER' = QUEUE_NUMBER
      /\ phase' = phase /\ cpu' = cpu /\ ptr' = ptr
      /\ exit_thread_list' = exit_thread_list
  BY <1>1, SameThreads
<1>4. Owner(stack)' = t /\ call'[Shared] = "none" /\ handler'[Shared] = "none"
  BY <1>1 DEF Owner, SwInv, FrameTypeOK, Stacks
<1>5. FrameTypeOK'
  BY <1>1 DEF SwInv, FrameTypeOK, Stacks, lockVars, FramePC
<1>6. LocksAgree'
  BY <1>1, <1>2, <1>4 DEF LocksAgree, Local, SignalOverCall, SchedLock, QueueLock, Passing,
     Departing, Resting, lockVars
<1>7. OthersRest'
  BY <1>1, <1>2 DEF SwInv, OthersRest, InPass, FrameTypeOK, Stacks
<1>8. SectionIsCurrent'
  BY <1>1, <1>2 DEF SwInv, SectionIsCurrent
<1>9. OwnerExecutes' /\ LeftForGood'
  BY <1>1, <1>2, <1>3, <1>4 DEF SwInv, OwnerExecutes, LeftForGood, On, Departing
<1>10. ContextsOwn'
  <2>1. \A u \in Returning : u = t
    BY <1>1 DEF DefaultBuild
  <2>2. /\ context' = context /\ returned' = t
        /\ \A u \in Tid : context[u] = u \/ (context[u] = Shared /\ u \in Returning)
    BY <1>1 DEF SwInv, ContextsOwn
  <2> QED  BY <1>1, <2>1, <2>2 DEF ContextsOwn
<1>11. OthersResumable'
  <2> SUFFICES ASSUME NEW u \in Tid, u \notin exit_thread_list, u # t
               PROVE  Resumable(call'[context[u]], handler'[context[u]])
    BY <1>1, <1>3, <1>4 DEF OthersResumable
  <2>1. context[u] # Shared
    <3>1. u \notin Returning
      BY <1>1 DEF DefaultBuild
    <3> QED  BY <3>1, StackTypes DEF SwInv, ContextsOwn
  <2>2. context[u] \in Stacks
    BY StackTypes
  <2>3. Resumable(call[context[u]], handler[context[u]])
    BY <1>2 DEF SwInv, OthersResumable
  <2> QED  BY <1>1, <2>1, <2>2, <2>3 DEF SwInv, FrameTypeOK
<1> QED  BY <1>3, <1>5, <1>6, <1>7, <1>8, <1>9, <1>10, <1>11 DEF SwInv, Feedback
---------------------------------------------------------------------------
(* The switch. *)

(* The thread that is left waits behind its switch, the one that is entered   *)
(* goes on where it was left.                                                 *)
LEMMA SwitchKeeps == ASSUME SwInv, Switch PROVE SwInv'
<1>1. /\ At("switch") /\ UNCHANGED <<allVars, lockVars, section>>
  BY DEF Switch
<1>2. /\ IInv' /\ QUEUE_NUMBER' = QUEUE_NUMBER
      /\ phase' = phase /\ cpu' = cpu /\ ptr' = ptr
      /\ exit_thread_list' = exit_thread_list /\ yield_purpose' = yield_purpose
      /\ modifying_queue' = modifying_queue /\ scheduler_running' = scheduler_running
      /\ section' = section
  BY <1>1, SameThreads DEF lockVars
<1>3. /\ On(Departing) /\ Owner(stack) = ptr
      /\ phase = "thread" \/ (phase = "stalled" /\ cpu = ptr)
      /\ modifying_queue = 0 /\ scheduler_running = 0
      /\ Masked => handler[stack] = "switch" /\ call[stack] \in Resting
      /\ ~Masked => call[stack] = "switch" /\ handler[stack] = "none"
  BY <1>1 DEF SwInv, LocksAgree, Local, SignalOverCall, SchedLock, QueueLock, OwnerExecutes, On,
     At, Masked, Passing, Departing, Resting, FrameTypeOK
<1>4. \A t \in Tid : section[t] \notin {"join", "exit", "create"}
  BY <1>3 DEF SwInv, SectionIsCurrent
<1>5. /\ cpu \in Tid /\ ptr \in Tid
      /\ phase = "thread" => cpu \notin exit_thread_list
      /\ yield_purpose[ptr] = Exit => ptr \in exit_thread_list
  BY <1>3 DEF SwInv, IInv, TypeOK, ThreadTypeOK, SchedTypeOK, ExitedAreGone, LeftForGood
<1>6. CASE cpu = ptr
  <2>1. /\ Goto("end_sched") /\ UNCHANGED stackVars
    BY <1>6 DEF Switch
  <2>2. /\ stack' = stack /\ Owner(stack)' = Owner(stack)
        /\ Masked => call'[stack] = call[stack] /\ handler'[stack] = "end_sched"
        /\ ~Masked => call'[stack] = "end_sched" /\ handler'[stack] = handler[stack]
    BY <2>1, GotoMoves DEF FramePC, stackVars, Owner
  <2>3. LocksAgree'
    BY <1>2, <1>3, <2>2 DEF LocksAgree, Local, SignalOverCall, SchedLock, QueueLock, Passing,
       Departing, Resting
  <2>4. SectionIsCurrent'
    BY <1>2, <1>4 DEF SectionIsCurrent
  <2>5. OwnerExecutes' /\ (On(Departing)' => On(Departing))
    BY <1>2, <1>3, <1>6, <2>2 DEF SwInv, OwnerExecutes, On, Departing, Resting
  <2> QED  BY <1>1, <1>2, <2>1, <2>3, <2>4, <2>5, Statement DEF SwInv, FrameTypeOK, FramePC
<1>7. CASE cpu # ptr
  <2> DEFINE s == context[cpu]
  <2>1. /\ stack' = s /\ returned' = returned
        /\ \/ Freed /\ context' = context /\ call' = call /\ handler' = handler
           \/ ~Freed /\ context' = [context EXCEPT ![ptr] = stack] /\ Goto("end_sched")
    BY <1>7 DEF Switch, frameVars
  <2>2. s \in Stacks /\ Owner(s) = cpu /\ (IF s = Shared THEN returned' ELSE s) = cpu
    BY <1>5, <2>1, StackTypes DEF Owner
  <2>3. s # stack /\ Resumable(call[s], handler[s])
    BY <1>3, <1>5, <1>7, <2>2 DEF SwInv, OthersResumable
  <2> HIDE DEF s
  <2>4. Owner(stack)' = cpu
    BY <2>1, <2>2 DEF Owner
  <2>5. /\ call' \in [Stacks -> FramePC] /\ handler' \in [Stacks -> FramePC]
        /\ \A r \in Stacks \ {stack} : call'[r] = call[r] /\ handler'[r] = handler[r]
    BY <2>1, GotoMoves DEF FramePC, SwInv, FrameTypeOK
  <2>6. call'[s] = call[s] /\ handler'[s] = handler[s]
    BY <2>2, <2>3, <2>5
  <2>7. \/ Freed /\ call'[stack] = call[stack] /\ handler'[stack] = handler[stack]
        \/ ~Freed /\ Resumable(call'[stack], handler'[stack])
    BY <1>3, <2>1, GotoMoves DEF FramePC, Resumable
  <2>8. FrameTypeOK'
    BY <1>2, <2>1, <2>2, <2>5, StackTypes DEF SwInv, FrameTypeOK
  <2>9. LocksAgree'
    BY <1>2, <1>3, <2>1, <2>3, <2>6 DEF LocksAgree, Local, SignalOverCall, SchedLock,
       QueueLock, Passing, Departing, Resting, Resumable
  <2>10. OthersRest'
    <3>1. {call'[stack], handler'[stack]} \cap Passing = {}
      BY <1>3, <2>7 DEF Passing, Resting, Resumable
    <3>2. \A r \in Stacks \ {stack} : {call'[r], handler'[r]} \cap Passing = {}
      BY <2>5 DEF SwInv, OthersRest, InPass, Passing
    <3> QED  BY <3>1, <3>2, StackTypes DEF OthersRest, InPass, Passing
  <2>11. SectionIsCurrent'
    BY <1>2, <1>4 DEF SectionIsCurrent
  <2>12. OwnerExecutes' /\ LeftForGood'
    BY <1>2, <1>3, <2>1, <2>3, <2>4, <2>6 DEF SwInv, OwnerExecutes, LeftForGood, On, Departing,
       Resting, Resumable
  <2>13. ContextsOwn'
    <3>1. stack = ptr \/ (stack = Shared /\ ptr \in Returning /\ returned = ptr)
      BY <1>3, <1>5, StackTypes DEF Owner, SwInv, ContextsOwn
    <3>2. \A t \in Tid : context'[t] = IF t = ptr /\ ~Freed THEN stack ELSE context[t]
      BY <1>5, <2>1 DEF SwInv, FrameTypeOK
    <3>3. s = Shared => returned \in Returning
      BY <1>5, StackTypes DEF s, SwInv, ContextsOwn
    <3> QED  BY <2>1, <3>1, <3>2, <3>3 DEF SwInv, ContextsOwn
  <2>14. OthersResumable'
    <3> SUFFICES ASSUME NEW t \in Tid, t \notin exit_thread_list, t # cpu
                 PROVE  Resumable(call'[context'[t]], handler'[context'[t]])
      BY <1>2, <2>4 DEF OthersResumable
    <3>1. CASE t = ptr
      <4>1. ~Freed
        BY <1>5, <3>1 DEF Freed
      <4>2. context'[t] = stack
        BY <1>5, <2>1, <3>1, <4>1 DEF SwInv, FrameTypeOK
      <4> QED  BY <2>7, <4>1, <4>2
    <3>2. CASE t # ptr
      <4>1. context'[t] = context[t] /\ context[t] \in Stacks \ {stack}
        BY <1>3, <2>1, <3>2, StackTypes DEF SwInv, FrameTypeOK
      <4>2. Resumable(call[context[t]], handler[context[t]])
        BY <1>3, <3>2 DEF SwInv, OthersResumable
      <4> QED  BY <2>5, <4>1, <4>2
    <3> QED  BY <3>1, <3>2
  <2> QED  BY <1>2, <2>8, <2>9, <2>10, <2>11, <2>12, <2>13, <2>14 DEF SwInv, Feedback
<1> QED  BY <1>6, <1>7
---------------------------------------------------------------------------
(* The invariant. *)

LEMMA InitSwInv == ASSUME DefaultBuild, SwapInit PROVE SwInv
<1> USE MainIsThread
<1>1. IInv
  BY InitInv DEF SwapInit, SqInit
<1>2. Feedback
  BY DEF DefaultBuild, SwapInit, SqInit, Feedback
<1>3. Owner(stack) = Main /\ stack \in Stacks
  BY SwapAssumption DEF SwapInit, Owner, Stacks
<1>4. FrameTypeOK
  BY DEF SwapInit, FrameTypeOK, Stacks, FramePC
<1>5. LocksAgree /\ OthersRest
  BY <1>3 DEF SwapInit, LocksAgree, Local, SignalOverCall, SchedLock, QueueLock, OthersRest,
     InPass, Passing, Departing, Resting
<1>6. SectionIsCurrent
  BY DEF SwapInit, SectionIsCurrent
<1>7. OwnerExecutes /\ LeftForGood
  BY <1>3 DEF SwapInit, SqInit, Init, OwnerExecutes, LeftForGood, On, Departing
<1>8. ContextsOwn /\ OthersResumable
  BY SwapAssumption DEF SwapInit, ContextsOwn, OthersResumable, Resumable, Stacks
<1> QED  BY <1>1, <1>2, <1>4, <1>5, <1>6, <1>7, <1>8 DEF SwInv

LEMMA SwapStepKeeps ==
  ASSUME DefaultBuild, SwInv, [SwapNext]_<<allVars, swapVars>>
  PROVE  SwInv'
<1>1. CASE SwCreateFirst \/ SwCreateThread
  BY <1>1, MainIsThread, OutsideKeeps DEF SwCreateFirst, SwCreateThread, LibraryCall
<1>2. ASSUME NEW t \in Tid, SwapThreadStep(t) PROVE SwInv'
  <2>1. CASE SwJoinReturn(t)
    BY <2>1, OutsideKeeps DEF SwJoinReturn, LibraryCall
  <2>2. CASE SwExitReturn(t)
    BY <2>2, OutsideKeeps DEF SwExitReturn, LibraryCall
  <2> QED  BY <1>2, <2>1, <2>2, SectionsKeep, CallYieldKeeps, ReturnKeeps DEF SwapThreadStep
<1>3. CASE UNCHANGED <<allVars, swapVars>>
  <2>1. IInv'
    BY <1>3, SameThreads
  <2> QED
    BY <1>3, <2>1
       DEF SwInv, Feedback, FrameTypeOK, LocksAgree, OthersRest, InPass, SectionIsCurrent,
           OwnerExecutes, LeftForGood, ContextsOwn, OthersResumable, On, Owner, swapVars,
           lockVars, stackVars, frameVars, allVars, vars, sqVars, schedVars, threadVars, joinVars
<1> QED  BY <1>1, <1>2, <1>3, CreateSectionKeeps, SignalKeeps, TestQueueKeeps, TestSchedKeeps,
            TakeKeeps, PassStepKeeps, ReleaseSchedKeeps, ReleaseQueueKeeps, SwitchKeeps,
            EndSchedKeeps, EndQueueKeeps
         DEF SwapNext

(* SwInv holds in every reachable state of the default build: who holds which *)
(* lock, what each stack and each saved context are at, and where the nested  *)
(* signals may be.                                                            *)
THEOREM SwapInvariant == ASSUME DefaultBuild PROVE SwapSpec => []SwInv
<1>1. SwapInit => SwInv
  BY InitSwInv
<1>2. SwInv /\ [SwapNext]_<<allVars, swapVars>> => SwInv'
  BY SwapStepKeeps
<1> QED  BY <1>1, <1>2, PTL DEF SwapSpec
---------------------------------------------------------------------------
(* What follows from it. *)

LEMMA SwInvTypes == ASSUME SwInv PROVE SwapTypeOK
<1>1. \A s \in Stacks : InPass(s) <=> s = stack /\ On(Passing)
  <2>1. \A s \in Stacks : InPass(s) => s = stack
    BY DEF SwInv, OthersRest
  <2> QED  BY <2>1 DEF InPass, On, Passing
<1>2. scheduler_running = 1 <=> On(Passing)
  BY DEF SwInv, LocksAgree, Local, SchedLock, On
<1> QED  BY <1>1, <1>2, StackTypes DEF SwInv, FrameTypeOK, SwapTypeOK

LEMMA SwInvSections == ASSUME SwInv PROVE SectionsLocked
<1> SUFFICES ASSUME NEW t \in Tid, section[t] \in {"join", "exit", "create"}
             PROVE  /\ modifying_queue = 1 /\ OnProcessor(t)
                    /\ \A u \in Tid \ {t} : section[u] \in {"none", "leave"}
  BY DEF SectionsLocked
<1>1. /\ modifying_queue = 1 /\ Owner(stack) = t
      /\ call[stack] = "none" /\ handler[stack] \in {"none", "queue"}
  BY DEF SwInv, SectionIsCurrent
<1>2. OnProcessor(t)
  BY <1>1 DEF SwInv, OwnerExecutes, On, Departing, OnProcessor
<1>3. \A u \in Tid \ {t} : section[u] \in {"none", "leave"}
  BY <1>1 DEF SwInv, SectionIsCurrent, FrameTypeOK
<1> QED  BY <1>1, <1>2, <1>3

LEMMA SwInvStacks == ASSUME SwInv PROVE StacksOwn
<1>1. At("none") => call[stack] = "none" /\ handler[stack] = "none"
  BY DEF At, Masked
<1> QED  BY <1>1, StackTypes DEF SwInv, OwnerExecutes, On, Departing, StacksOwn

(* The types of the locks, the labels and the stacks; the scheduler lock is   *)
(* taken exactly while one stack, and no second one, is in a pass.            *)
THEOREM SwapTypesCorrect == ASSUME DefaultBuild PROVE SwapSpec => []SwapTypeOK
<1>1. SwInv => SwapTypeOK
  BY SwInvTypes
<1> QED  BY <1>1, SwapInvariant, PTL

(* Wherever the signal comes, refused or served, a thread that executes its   *)
(* own code outside of its sections finds both locks free: no loop on the     *)
(* queue lock spins and no call of swap_context() is turned away.             *)
THEOREM LocksAreFree == ASSUME DefaultBuild PROVE SwapSpec => []LocksFree
<1>1. SwInv => LocksFree
  BY OwnCode DEF Outside, LocksFree
<1> QED  BY <1>1, SwapInvariant, PTL

(* No release of the queue lock, of all those that come after a switch, at    *)
(* the end of create or in the middle of a pass, opens another's section.     *)
THEOREM SectionsAreLocked == ASSUME DefaultBuild PROVE SwapSpec => []SectionsLocked
<1>1. SwInv => SectionsLocked
  BY SwInvSections
<1> QED  BY <1>1, SwapInvariant, PTL

(* What tcb->context holds of a thread is that thread's own stack, and the    *)
(* code on a stack runs as the thread that the scheduler has chosen.          *)
THEOREM StacksAreOwn == ASSUME DefaultBuild PROVE SwapSpec => []StacksOwn
<1>1. SwInv => StacksOwn
  BY SwInvStacks
<1> QED  BY <1>1, SwapInvariant, PTL
---------------------------------------------------------------------------
(* Refinement: each statement is a step of the schedulers or leaves their     *)
(* variables alone.                                                           *)

LEMMA RefusedStutters ==
  ASSUME SwInv, TestQueue \/ TestSched
  PROVE  UNCHANGED allVars
<1>1. ASSUME Refused, Masked PROVE UNCHANGED allVars
  BY <1>1 DEF Refused, allVars, vars
<1> QED  BY <1>1, CallNotRefused DEF TestQueue, TestSched

LEMMA SwapStepIsStep ==
  ASSUME SwInv, [SwapNext]_<<allVars, swapVars>>
  PROVE  [SqNext]_allVars
<1>1. CASE SwCreateFirst \/ SwCreateThread \/ CreateSection
  BY <1>1 DEF SwCreateFirst, SwCreateThread, CreateSection, SqNext, SqCreate
<1>2. ASSUME NEW t \in Tid, SwapThreadStep(t) PROVE SqThreadStep(t) \/ UNCHANGED allVars
  BY <1>2 DEF SwapThreadStep, Enter, JoinSection, ExitSection, Leave, SwJoinReturn,
              SwExitReturn, CallYield, Return, SqThreadStep
<1>3. CASE Take
  <2>1. cpu \in Tid
    BY DEF SwInv, IInv, TypeOK, ThreadTypeOK
  <2> QED  BY <1>3, <2>1 DEF Take, SqNext, SqThreadStep
<1>4. CASE PassStep
  BY <1>4 DEF PassStep, SqNext
<1>5. CASE Signal \/ ReleaseSched \/ ReleaseQueue \/ Switch \/ EndSched \/ EndQueue
  BY <1>5 DEF Signal, ReleaseSched, ReleaseQueue, Switch, EndSched, EndQueue
<1>6. CASE UNCHANGED <<allVars, swapVars>>
  BY <1>6
<1> QED  BY <1>1, <1>2, <1>3, <1>4, <1>5, <1>6, RefusedStutters DEF SwapNext, SqNext

(* With its locks and its statements, and with the signal at any of them,     *)
(* swap_context() makes the passes of the scheduler atomic: the program takes *)
(* only the steps that Schedulers allows.                                     *)
THEOREM SwapImplementsSchedulers == ASSUME DefaultBuild PROVE SwapSpec => ImplementsSchedulers
<1>1. SwapInit => SqInit
  BY DEF SwapInit
<1>2. SwInv /\ [SwapNext]_<<allVars, swapVars>> => [SqNext]_allVars
  BY SwapStepIsStep
<1> QED  BY <1>1, <1>2, SwapInvariant, PTL DEF SwapSpec, SqSpec, ImplementsSchedulers

LEMMA FeedbackStepIsStep ==
  ASSUME Feedback, [SqNext]_allVars
  PROVE  [Next]_vars
<1>1. CASE SqCreate
  BY <1>1 DEF SqCreate, SqCreateFirst, SqCreateThread, SqCreateAdd, Create, Next
<1>2. ASSUME NEW t \in Tid, SqThreadStep(t) PROVE ThreadStep(t)
  <2>1. SqTick(t) => Tick(t)
    BY DEF Feedback, SqTick, Tick, schedule, sched_RR, sched_PSJF, sched_MLFQ, RoundRobin, Psjf
  <2>2. SqYield(t) => Yield(t)
    BY DEF Feedback, SqYield, Yield, schedule, sched_RR, sched_PSJF, sched_MLFQ, RoundRobin,
           Psjf
  <2> QED  BY <1>2, <2>1, <2>2 DEF SqThreadStep, ThreadStep, SqJoinExited, SqJoinWait,
                                   SqJoinReturn, SqExitStart, SqExitReturn
<1>3. CASE SqSchedStep
  BY <1>3 DEF Feedback, SqSchedStep, RRBlock, RRTimeout, RRExitWake, RRExitSkip, RRExitDone,
     RRSwitch, PsjfBlock, PsjfTimeout, PsjfExitWake, PsjfExitSkip, PsjfExitDone, PsjfSwitch,
     SqStall, RoundRobin, Psjf, MlfqStep, Next
<1>4. CASE UNCHANGED allVars
  BY <1>4 DEF allVars
<1>5. ~SecondPassReturns /\ ~SecondPassCrosses
  BY DEF SecondPassReturns, SecondPassCrosses, Unswitched
<1> QED  BY <1>1, <1>2, <1>3, <1>4, <1>5 DEF SqNext, Next

(* So everything proved about the actions of Mlfq, which run from one point   *)
(* where the signal is served to the next, holds of the statements too.       *)
THEOREM SwapImplementsMlfq == ASSUME DefaultBuild PROVE SwapSpec => Spec
<1>1. SwapInit => Init
  BY DEF SwapInit, SqInit
<1>2. SwInv /\ [SwapNext]_<<allVars, swapVars>> => [Next]_vars
  BY SwapStepIsStep, FeedbackStepIsStep DEF SwInv
<1> QED  BY <1>1, <1>2, SwapInvariant, PTL DEF SwapSpec, Spec

(* In particular no thread runs that is blocked or gone as long as another    *)
(* one is ready, and a join that waited returns before the exit it waits for  *)
(* is complete only if it has blocked the last ready thread.                  *)
THEOREM SwapImplementsThreads == ASSUME DefaultBuild PROVE SwapSpec => ImplementsThreads
BY SwapImplementsMlfq, MlfqImplementsThreads
=============================================================================
