---------------------------- MODULE JoinProofs ----------------------------
(***************************************************************************)
(* Proofs about Mlfq, continued: mypthread_join answers correctly, and     *)
(* Mlfq implements the abstract specification Threads, for any number of   *)
(* threads, any priorities and any program: every action is a step of      *)
(* Threads or leaves the abstract state as it was.                         *)
(***************************************************************************)
EXTENDS MlfqProofs

(* A thread is marked to block by its own join, for a thread that has not     *)
(* exited.                                                                    *)
MarkedInJoin ==
  \A t \in Tid : yield_purpose[t] = Block =>
    InJoin(t) /\ join_target[t] \notin exit_thread_list

(* A thread marked to exit is gone or executing, on its way to the scheduler  *)
(* or in it.                                                                  *)
ExitingIsCurrent ==
  \A t \in Tid : yield_purpose[t] = Exit =>
    \/ t \in exit_thread_list
    \/ cpu = t /\ phase = "handle"
    \/ cpu = t /\ phase = "thread" /\ pc[t] = "exit_yield"

(* A thread whose creation is not finished has made no join.                  *)
UnknownNotInJoin == \A t \in Tid : ~Known(t) => ~InJoin(t)

(* A node of the join list agrees with its caller's state, and it is for a    *)
(* thread that has not exited; if that thread is on its way out, it has left  *)
(* its value for the caller.                                                  *)
NodesAgree ==
  \A i \in 1 .. Len(join_waiting_queue) :
    LET w == join_waiting_queue[i]
    IN  /\ InJoin(w.tcb) /\ join_target[w.tcb] = w.tid
        /\ w.tid \notin exit_thread_list
        /\ yield_purpose[w.tid] = Exit => slot[w.tcb] \in {w.tid, NoSlot}

(* The walk of the exiting thread has left no node for it behind.             *)
WalkedOver ==
  phase = "handle" /\ yield_purpose[ptr] = Exit =>
    \A i \in 1 .. wait_ptr - 1 : join_waiting_queue[i].tid # ptr

Leaving(u) == phase = "handle" /\ yield_purpose[ptr] = Exit /\ ptr = u

Ready(t) == InRunQueue(t) \/ (phase = "handle" /\ ptr = t)

(* A thread in a join that is ready and not about to block has been woken by  *)
(* its target, which is gone or is being handled, and it has its value.       *)
JoinOver ==
  \A t \in Tid : InJoin(t) /\ Ready(t) /\ yield_purpose[t] # Block =>
    /\ slot[t] \in {join_target[t], NoSlot}
    /\ join_target[t] \in exit_thread_list \/ Leaving(join_target[t])

JoinsAnswered == \A t \in Tid : join_ret[t] = 0 => Answered(t)

JInv ==
  /\ MarkedInJoin
  /\ ExitingIsCurrent
  /\ UnknownNotInJoin
  /\ NodesAgree
  /\ WalkedOver
  /\ JoinOver
  /\ JoinsAnswered

(* All this holds until no thread is ready any more; then only the thread     *)
(* that goes on may be answered too early.                                    *)
JoinInv == (phase # "stalled" => JInv) /\ JoinCorrect
---------------------------------------------------------------------------
(* What holds where. *)

(* The nodes of the list are records of threads. *)
LEMMA NodeType ==
  ASSUME TypeOK, NEW i \in 1 .. Len(join_waiting_queue)
  PROVE  /\ join_waiting_queue[i].tcb \in Tid /\ join_waiting_queue[i].tid \in Tid
         /\ Waiting(join_waiting_queue[i].tcb)
<1>1. join_waiting_queue[i] \in Waiter
  BY DEF TypeOK, JoinTypeOK
<1> QED  BY <1>1 DEF Waiter, Waiting

(* A step that leaves the joins and the marks of the exiting threads alone    *)
(* keeps what concerns them.                                                  *)
LEMMA JoinsUntouched ==
  ASSUME TypeOK, JInv,
         join_waiting_queue' = join_waiting_queue,
         exit_thread_list' = exit_thread_list,
         join_target' = join_target, join_ret' = join_ret, slot' = slot,
         \A s \in Tid : InJoin(s) /\ Waiting(s) => InJoin(s)',
         \A s \in Tid : yield_purpose'[s] = Exit => yield_purpose[s] = Exit
  PROVE  NodesAgree' /\ JoinsAnswered'
<1>1. JoinsAnswered'
  BY DEF JInv, JoinsAnswered, Answered
<1>2. NodesAgree'
  <2> SUFFICES ASSUME NEW i \in 1 .. Len(join_waiting_queue)
               PROVE  LET w == join_waiting_queue[i]
                      IN  /\ InJoin(w.tcb)' /\ join_target[w.tcb] = w.tid
                          /\ w.tid \notin exit_thread_list
                          /\ yield_purpose'[w.tid] = Exit => slot[w.tcb] \in {w.tid, NoSlot}
    BY DEF NodesAgree, InJoin
  <2> QED  BY NodeType DEF JInv, NodesAgree
<1> QED  BY <1>1, <1>2

---------------------------------------------------------------------------
(* Each action keeps the invariant of the joins. *)

LEMMA CreateFirstJoins == ASSUME IInv, JInv, CreateFirst PROVE JInv'
<1> USE MainIsThread
<1>1. /\ phase = "thread" /\ cpu = Main /\ thread_number = 0 /\ pc[Main] = "user"
      /\ thread_number' = 1
      /\ yield_purpose' = [yield_purpose EXCEPT ![Main] = Timeout]
      /\ run_queue' = add_to_run_queue(1, Main)
      /\ pc' = [pc EXCEPT ![Main] = "create"]
      /\ join_waiting_queue' = join_waiting_queue /\ exit_thread_list' = exit_thread_list
      /\ join_target' = join_target /\ join_ret' = join_ret /\ slot' = slot
      /\ phase' = phase /\ cpu' = cpu /\ ptr' = ptr /\ wait_ptr' = wait_ptr
  BY DEF CreateFirst, Executing, joinVars, schedVars
<1>2. /\ yield_purpose \in [Tid -> {Timeout, Exit, Block}] /\ pc \in [Tid -> PC]
      /\ TypeOK /\ RunQueueType
  BY DEF IInv, TypeOK, ThreadTypeOK, QueueTypeOK, RunQueueType
<1>3. \A s \in Tid : ~Known(s) /\ ~InRunQueue(s) /\ ~Waiting(s)
  BY <1>1 DEF Known, Tid, IInv, OnlyKnown
<1>4. \A s \in Tid : InRunQueue(s)' <=> s = Main
  BY <1>1, <1>2, <1>3, AddMember
<1>5. NodesAgree' /\ JoinsAnswered'
  BY <1>1, <1>2, <1>3, JoinsUntouched DEF Timeout, Exit
<1>6. MarkedInJoin' /\ ExitingIsCurrent' /\ WalkedOver'
  BY <1>1, <1>2 DEF JInv, MarkedInJoin, ExitingIsCurrent, WalkedOver, InJoin, Timeout, Exit, Block
<1>7. UnknownNotInJoin'
  BY <1>1, <1>2, <1>3 DEF JInv, UnknownNotInJoin, InJoin
<1>8. JoinOver'
  BY <1>1, <1>2, <1>4 DEF JoinOver, Ready, InJoin
<1> QED  BY <1>5, <1>6, <1>7, <1>8 DEF JInv

LEMMA CreateThreadJoins == ASSUME IInv, JInv, CreateThread PROVE JInv'
<1> USE MainIsThread
<1>1. /\ phase = "thread" /\ cpu = Main /\ pc[Main] \in {"create", "user"}
      /\ thread_number \in 1 .. MaxThreads - 1 /\ thread_number' = thread_number + 1
      /\ yield_purpose' = [yield_purpose EXCEPT ![thread_number] = Timeout]
      /\ run_queue' = run_queue
      /\ pc' = [pc EXCEPT ![Main] = "create_add"]
      /\ join_waiting_queue' = join_waiting_queue /\ exit_thread_list' = exit_thread_list
      /\ join_target' = join_target /\ join_ret' = join_ret /\ slot' = slot
      /\ phase' = phase /\ cpu' = cpu /\ ptr' = ptr /\ wait_ptr' = wait_ptr
  BY DEF CreateThread, Executing, joinVars, schedVars
<1>2. /\ yield_purpose \in [Tid -> {Timeout, Exit, Block}] /\ pc \in [Tid -> PC] /\ TypeOK
  BY DEF IInv, TypeOK, ThreadTypeOK
<1>3. \A s \in Tid : InJoin(s)' <=> InJoin(s)
  BY <1>1, <1>2 DEF InJoin
<1>4. NodesAgree' /\ JoinsAnswered'
  BY <1>1, <1>2, <1>3, JoinsUntouched DEF Timeout, Exit
<1>5. MarkedInJoin' /\ ExitingIsCurrent' /\ WalkedOver'
  BY <1>1, <1>2, <1>3
     DEF JInv, MarkedInJoin, ExitingIsCurrent, WalkedOver, Timeout, Exit, Block
<1>6. UnknownNotInJoin'
  <2>1. \A s \in Tid : ~Known(s)' => ~Known(s)
    BY <1>1 DEF Known, Tid, IInv, TypeOK, ThreadTypeOK
  <2> QED  BY <1>3, <2>1 DEF JInv, UnknownNotInJoin
<1>7. JoinOver'
  <2>1. ~InRunQueue(thread_number)
    BY <1>1, MlfqAssumption DEF IInv, OnlyKnown, Known, Tid
  <2>2. \A s \in Tid : Ready(s)' => Ready(s) /\ s # thread_number
    BY <1>1, <2>1, SameRunQueue DEF Ready
  <2> QED  BY <1>1, <1>2, <1>3, <2>2 DEF JInv, JoinOver, Leaving
<1> QED  BY <1>4, <1>5, <1>6, <1>7 DEF JInv

LEMMA CreateAddJoins == ASSUME IInv, JInv, CreateAdd PROVE JInv'
<1> USE MainIsThread
<1> DEFINE n == thread_number - 1
<1>1. /\ phase = "thread" /\ cpu = Main /\ pc[Main] = "create_add"
      /\ thread_number' = thread_number /\ yield_purpose' = yield_purpose
      /\ run_queue' = add_to_run_queue(1, n)
      /\ pc' = [pc EXCEPT ![Main] = "user"]
      /\ join_waiting_queue' = join_waiting_queue /\ exit_thread_list' = exit_thread_list
      /\ join_target' = join_target /\ join_ret' = join_ret /\ slot' = slot
      /\ phase' = phase /\ cpu' = cpu /\ ptr' = ptr /\ wait_ptr' = wait_ptr
  BY DEF CreateAdd, Executing, joinVars, schedVars, threadVars
<1>2. /\ yield_purpose \in [Tid -> {Timeout, Exit, Block}] /\ pc \in [Tid -> PC]
      /\ TypeOK /\ RunQueueType
  BY DEF IInv, TypeOK, ThreadTypeOK, QueueTypeOK, RunQueueType
<1>3. n \in Tid /\ ~Known(n)
  <2>1. thread_number > 0 /\ thread_number \in 0 .. MaxThreads
    BY <1>1 DEF IInv, OnlyKnown, TypeOK, ThreadTypeOK
  <2> QED  BY <1>1, <2>1, MlfqAssumption DEF Tid, Known
<1> HIDE DEF n
<1>4. \A s \in Tid : InJoin(s)' <=> InJoin(s)
  BY <1>1, <1>2 DEF InJoin
<1>5. ~InJoin(n)
  BY <1>1, <1>3 DEF JInv, UnknownNotInJoin, InJoin
<1>6. NodesAgree' /\ JoinsAnswered'
  BY <1>1, <1>2, <1>4, JoinsUntouched
<1>7. MarkedInJoin' /\ ExitingIsCurrent' /\ WalkedOver'
  BY <1>1, <1>2, <1>4
     DEF JInv, MarkedInJoin, ExitingIsCurrent, WalkedOver, Timeout, Exit, Block
<1>8. UnknownNotInJoin'
  <2>1. \A s \in Tid : Known(s) => Known(s)'
    BY <1>1, <1>2 DEF Known
  <2> QED  BY <1>4, <2>1 DEF JInv, UnknownNotInJoin
<1>9. JoinOver'
  <2>1. \A s \in Tid : InRunQueue(s)' <=> InRunQueue(s) \/ s = n
    BY <1>1, <1>2, <1>3, AddMember
  <2>2. \A s \in Tid : InJoin(s)' /\ Ready(s)' => InJoin(s) /\ Ready(s)
    BY <1>1, <1>4, <1>5, <2>1 DEF Ready
  <2> QED  BY <1>1, <2>2 DEF JInv, JoinOver, Leaving
<1> QED  BY <1>6, <1>7, <1>8, <1>9 DEF JInv

(* The library calls of the executing thread. *)
LEMMA JoinExitedJoins ==
  ASSUME IInv, JInv, NEW t \in Tid, NEW u \in Tid, JoinExited(t, u)
  PROVE  JInv'
<1>1. /\ pc[t] = "user" /\ u \in exit_thread_list
      /\ join_waiting_queue' = join_waiting_queue /\ exit_thread_list' = exit_thread_list
      /\ join_target' = [join_target EXCEPT ![t] = u]
      /\ join_ret' = [join_ret EXCEPT ![t] = 1]
      /\ \E s \in {NoSlot, Unset} : slot' = [slot EXCEPT ![t] = s]
      /\ run_queue' = run_queue /\ yield_purpose' = yield_purpose
      /\ thread_number' = thread_number /\ pc' = pc
      /\ phase' = phase /\ cpu' = cpu /\ ptr' = ptr /\ wait_ptr' = wait_ptr
  BY DEF JoinExited, queueVars, threadVars, schedVars
<1>2. /\ join_target \in [Tid -> Tid] /\ join_ret \in [Tid -> {-1, 0, 1}]
      /\ slot \in [Tid -> Tid \cup {NoSlot, Unset}] /\ TypeOK
  BY DEF IInv, TypeOK, JoinTypeOK
<1>3. ~InJoin(t) /\ \A s \in Tid : InJoin(s)' <=> InJoin(s)
  BY <1>1 DEF InJoin
<1>4. \A s \in Tid : s # t =>
        join_target'[s] = join_target[s] /\ join_ret'[s] = join_ret[s] /\ slot'[s] = slot[s]
  BY <1>1, <1>2
<1>5. JoinsAnswered'
  BY <1>1, <1>2, <1>4 DEF JInv, JoinsAnswered, Answered
<1>6. NodesAgree'
  <2> SUFFICES ASSUME NEW i \in 1 .. Len(join_waiting_queue)
               PROVE  LET w == join_waiting_queue[i]
                      IN  /\ InJoin(w.tcb)' /\ join_target'[w.tcb] = w.tid
                          /\ w.tid \notin exit_thread_list
                          /\ yield_purpose[w.tid] = Exit => slot'[w.tcb] \in {w.tid, NoSlot}
    BY <1>1 DEF NodesAgree, InJoin
  <2> QED  BY <1>1, <1>2, <1>3, <1>4, NodeType DEF JInv, NodesAgree
<1>7. MarkedInJoin' /\ ExitingIsCurrent' /\ WalkedOver' /\ UnknownNotInJoin'
  BY <1>1, <1>3, <1>4
     DEF JInv, MarkedInJoin, ExitingIsCurrent, WalkedOver, UnknownNotInJoin, Known
<1>8. JoinOver'
  BY <1>1, <1>3, <1>4, SameRunQueue DEF JInv, JoinOver, Ready, Leaving
<1> QED  BY <1>5, <1>6, <1>7, <1>8 DEF JInv

LEMMA JoinWaitJoins ==
  ASSUME IInv, JInv, NEW t \in Tid, NEW u \in Tid, JoinWait(t, u) PROVE JInv'
<1>1. /\ Executing(t) /\ pc[t] = "user" /\ u \notin exit_thread_list /\ u < thread_number
      /\ exit_thread_list' = exit_thread_list
      /\ join_target' = [join_target EXCEPT ![t] = u]
      /\ join_ret' = [join_ret EXCEPT ![t] = -1]
      /\ \E s \in {NoSlot, Unset} : slot' = [slot EXCEPT ![t] = s]
      /\ run_queue' = run_queue
      /\ thread_number' = thread_number /\ pc' = [pc EXCEPT ![t] = "join_yield"]
      /\ phase' = phase /\ cpu' = cpu /\ ptr' = ptr /\ wait_ptr' = wait_ptr
  BY DEF JoinWait, queueVars, schedVars
<1>2. /\ yield_purpose \in [Tid -> {Timeout, Exit, Block}] /\ pc \in [Tid -> PC]
      /\ join_target \in [Tid -> Tid] /\ join_ret \in [Tid -> {-1, 0, 1}]
      /\ slot \in [Tid -> Tid \cup {NoSlot, Unset}] /\ TypeOK
  BY DEF IInv, TypeOK, JoinTypeOK, ThreadTypeOK
<1>3. cpu = t /\ phase = "thread" /\ get_current_thread = t /\ t \notin exit_thread_list
      /\ thread_number > 0 /\ Known(t) /\ InRunQueue(t)
  <2>1. thread_number > 0
    BY <1>1, MainIsThread DEF IInv, TypeOK, ThreadTypeOK
  <2> QED  BY <1>1, <2>1, CallerIsHead DEF IInv, OnlyKnown
<1>4. /\ yield_purpose' = [yield_purpose EXCEPT ![t] = Block]
      /\ join_waiting_queue' = Append(join_waiting_queue, [tcb |-> t, tid |-> u])
  BY <1>3 DEF JoinWait
<1>5. \A s \in Tid : s # t =>
        /\ join_target'[s] = join_target[s] /\ join_ret'[s] = join_ret[s]
        /\ slot'[s] = slot[s] /\ (InJoin(s)' <=> InJoin(s))
        /\ yield_purpose'[s] = yield_purpose[s] /\ pc'[s] = pc[s]
  BY <1>1, <1>2, <1>4 DEF InJoin
<1>6. /\ ~InJoin(t) /\ InJoin(t)' /\ join_target'[t] = u /\ join_ret'[t] = -1
      /\ yield_purpose'[t] = Block /\ slot'[t] \in {NoSlot, Unset}
  BY <1>1, <1>2, <1>4 DEF InJoin
<1>7. \A s \in Tid : yield_purpose[s] = Exit => s \in exit_thread_list
  BY <1>1, <1>3 DEF JInv, ExitingIsCurrent
<1>8. JoinsAnswered'
  BY <1>1, <1>5, <1>6 DEF JInv, JoinsAnswered, Answered
<1>9. NodesAgree'
  <2> SUFFICES ASSUME NEW i \in 1 .. Len(join_waiting_queue')
               PROVE  LET w == join_waiting_queue'[i]
                      IN  /\ pc'[w.tcb] \in {"join_yield", "join_return"}
                          /\ join_target'[w.tcb] = w.tid
                          /\ w.tid \notin exit_thread_list
                          /\ yield_purpose'[w.tid] # Exit
    BY <1>1 DEF NodesAgree, InJoin
  <2>1. /\ Len(join_waiting_queue) \in Nat
        /\ Len(join_waiting_queue') = Len(join_waiting_queue) + 1
        /\ \A k \in 1 .. Len(join_waiting_queue) :
             join_waiting_queue'[k] = join_waiting_queue[k]
        /\ join_waiting_queue'[Len(join_waiting_queue) + 1] = [tcb |-> t, tid |-> u]
    BY <1>2, <1>4 DEF TypeOK, JoinTypeOK, Waiter
  <2>2. CASE i \in 1 .. Len(join_waiting_queue)
    <3>1. LET w == join_waiting_queue[i]
          IN  /\ w.tcb \in Tid /\ w.tid \in Tid /\ InJoin(w.tcb)
              /\ join_target[w.tcb] = w.tid /\ w.tid \notin exit_thread_list
      BY <1>2, <2>2, NodeType DEF JInv, NodesAgree
    <3>2. join_waiting_queue[i].tcb # t
      BY <3>1, <1>6
    <3> QED  BY <1>5, <1>6, <1>7, <2>1, <2>2, <3>1, <3>2 DEF Block, Exit, InJoin
  <2>3. CASE i = Len(join_waiting_queue) + 1
    BY <1>1, <1>5, <1>6, <1>7, <2>1, <2>3 DEF Block, Exit, InJoin
  <2> QED  BY <2>1, <2>2, <2>3
<1>10. MarkedInJoin' /\ WalkedOver'
  BY <1>1, <1>3, <1>5, <1>6 DEF JInv, MarkedInJoin, WalkedOver
<1>11. ExitingIsCurrent' /\ UnknownNotInJoin'
  <2>1. \A s \in Tid : Known(s) => Known(s)'
    BY <1>1, <1>2 DEF Known
  <2> QED  BY <1>1, <1>3, <1>5, <1>6, <1>7, <2>1
           DEF JInv, ExitingIsCurrent, UnknownNotInJoin, Block, Exit
<1>12. JoinOver'
  <2> SUFFICES ASSUME NEW s \in Tid, InJoin(s)', Ready(s)', yield_purpose'[s] # Block
               PROVE  slot'[s] \in {join_target'[s], NoSlot} /\ join_target'[s] \in exit_thread_list'
    BY DEF JoinOver
  <2>1. s # t /\ Ready(s)
    BY <1>1, <1>6, SameRunQueue DEF Ready
  <2> QED  BY <1>1, <1>3, <1>5, <2>1 DEF JInv, JoinOver, Leaving
<1> QED  BY <1>8, <1>9, <1>10, <1>11, <1>12 DEF JInv

LEMMA JoinReturnJoins ==
  ASSUME IInv, JInv, phase # "stalled", NEW t \in Tid, JoinReturn(t)
  PROVE  JInv'
<1>1. /\ Executing(t) /\ pc[t] = "join_return" /\ pc' = [pc EXCEPT ![t] = "user"]
      /\ join_waiting_queue' = join_waiting_queue /\ exit_thread_list' = exit_thread_list
      /\ join_target' = join_target /\ slot' = slot
      /\ join_ret' = [join_ret EXCEPT ![t] = 0]
      /\ run_queue' = run_queue /\ yield_purpose' = yield_purpose
      /\ thread_number' = thread_number
      /\ phase' = phase /\ cpu' = cpu /\ ptr' = ptr /\ wait_ptr' = wait_ptr
  BY DEF JoinReturn, OnProcessor, Executing, queueVars, threadVars, schedVars
<1>2. /\ pc \in [Tid -> PC] /\ join_ret \in [Tid -> {-1, 0, 1}] /\ TypeOK
      /\ thread_number \in 0 .. MaxThreads
  BY DEF IInv, TypeOK, JoinTypeOK, ThreadTypeOK
<1>3. cpu = t /\ phase = "thread"
  BY <1>1 DEF Executing
<1>4. \A s \in Tid : s # t =>
        join_ret'[s] = join_ret[s] /\ pc'[s] = pc[s] /\ (InJoin(s)' <=> InJoin(s))
  BY <1>1, <1>2 DEF InJoin
<1>5. join_ret'[t] = 0 /\ pc'[t] = "user" /\ ~InJoin(t)' /\ InJoin(t)
  BY <1>1, <1>2 DEF InJoin
<1>6. yield_purpose[t] # Block
  BY <1>1, <1>3 DEF IInv, BlockedIsCurrent
<1>7. InRunQueue(t)
  <2>1. thread_number > 0
    BY <1>2, <1>5, MainIsThread DEF JInv, UnknownNotInJoin, Known
  <2> QED  BY <1>1, <2>1, CallerIsHead
<1>8. slot[t] \in {join_target[t], NoSlot} /\ join_target[t] \in exit_thread_list
  BY <1>3, <1>5, <1>6, <1>7 DEF JInv, JoinOver, Ready, Leaving
<1>9. JoinsAnswered'
  BY <1>1, <1>4, <1>5, <1>8 DEF JInv, JoinsAnswered, Answered
<1>10. ~Waiting(t)
  BY <1>6, <1>7, ReadyAndWaiting
<1>11. NodesAgree'
  <2> SUFFICES ASSUME NEW i \in 1 .. Len(join_waiting_queue)
               PROVE  LET w == join_waiting_queue[i]
                      IN  /\ InJoin(w.tcb)' /\ join_target[w.tcb] = w.tid
                          /\ w.tid \notin exit_thread_list
                          /\ yield_purpose[w.tid] = Exit => slot[w.tcb] \in {w.tid, NoSlot}
    BY <1>1 DEF NodesAgree, InJoin
  <2>1. join_waiting_queue[i].tcb \in Tid /\ join_waiting_queue[i].tcb # t
    BY <1>2, <1>10, NodeType
  <2> QED  BY <1>1, <1>4, <2>1 DEF JInv, NodesAgree
<1>12. MarkedInJoin' /\ ExitingIsCurrent' /\ WalkedOver'
  BY <1>1, <1>4, <1>6 DEF JInv, MarkedInJoin, ExitingIsCurrent, WalkedOver
<1>13. UnknownNotInJoin'
  <2>1. \A s \in Tid : Known(s) => Known(s)'
    BY <1>1, <1>2 DEF Known
  <2> QED  BY <1>1, <1>4, <1>5, <2>1 DEF JInv, UnknownNotInJoin
<1>14. JoinOver'
  BY <1>1, <1>4, <1>5, SameRunQueue DEF JInv, JoinOver, Ready, Leaving
<1> QED  BY <1>9, <1>11, <1>12, <1>13, <1>14 DEF JInv

LEMMA ExitStartJoins ==
  ASSUME IInv, JInv, NEW t \in Tid, ExitStart(t) PROVE JInv'
<1>1. /\ Executing(t) /\ pc[t] = "user" /\ pc' = [pc EXCEPT ![t] = "exit_yield"]
      /\ thread_number > 0
      /\ join_waiting_queue' = join_waiting_queue /\ exit_thread_list' = exit_thread_list
      /\ join_target' = join_target /\ join_ret' = join_ret
      /\ run_queue' = run_queue /\ thread_number' = thread_number
      /\ phase' = phase /\ cpu' = cpu /\ ptr' = ptr /\ wait_ptr' = wait_ptr
  BY DEF ExitStart, queueVars, schedVars
<1>2. /\ pc \in [Tid -> PC] /\ yield_purpose \in [Tid -> {Timeout, Exit, Block}] /\ TypeOK
      /\ slot \in [Tid -> Tid \cup {NoSlot, Unset}] /\ thread_number \in 0 .. MaxThreads
  BY DEF IInv, TypeOK, JoinTypeOK, ThreadTypeOK
<1>3. /\ cpu = t /\ phase = "thread" /\ get_current_thread = t /\ InRunQueue(t)
      /\ t \notin exit_thread_list
  BY <1>1, CallerIsHead
<1>4. /\ yield_purpose' = [yield_purpose EXCEPT ![t] = Exit]
      /\ slot' = [s \in Tid |-> IF WaitsFor(s, t) /\ slot[s] # NoSlot THEN t ELSE slot[s]]
  BY <1>3 DEF ExitStart
<1>5. \A s \in Tid : InJoin(s)' <=> InJoin(s)
  BY <1>1, <1>2 DEF InJoin
<1>6. \A s \in Tid : s # t => yield_purpose'[s] = yield_purpose[s] /\ pc'[s] = pc[s]
  BY <1>1, <1>2, <1>4
<1>7. yield_purpose'[t] = Exit /\ pc'[t] = "exit_yield"
  BY <1>1, <1>2, <1>4
<1>8. ASSUME NEW s \in Tid, NEW i \in 1 .. Len(join_waiting_queue),
             join_waiting_queue[i].tcb = s
      PROVE  slot'[s] = IF join_waiting_queue[i].tid = t /\ slot[s] # NoSlot
                        THEN t ELSE slot[s]
  <2>1. WaitsFor(s, t) <=> join_waiting_queue[i].tid = t
    BY <1>8 DEF WaitsFor, IInv, NoDuplicates, UniqueInJoinQueue
  <2> QED  BY <1>4, <2>1
<1>9. \A s \in Tid : ~Waiting(s) => slot'[s] = slot[s]
  BY <1>4 DEF WaitsFor, Waiting
<1>10. \A s \in Tid : WaitsFor(s, t) => join_target[s] = t /\ InJoin(s)
  BY DEF WaitsFor, JInv, NodesAgree
<1>11. JoinsAnswered'
  <2>1. \A s \in Tid : WaitsFor(s, t) => join_ret[s] # 0
    BY <1>3, <1>10 DEF JInv, JoinsAnswered, Answered
  <2> QED  BY <1>1, <1>4, <2>1 DEF JInv, JoinsAnswered, Answered
<1>12. NodesAgree'
  <2> SUFFICES ASSUME NEW i \in 1 .. Len(join_waiting_queue)
               PROVE  LET w == join_waiting_queue[i]
                      IN  /\ InJoin(w.tcb)' /\ join_target[w.tcb] = w.tid
                          /\ w.tid \notin exit_thread_list
                          /\ yield_purpose'[w.tid] = Exit => slot'[w.tcb] \in {w.tid, NoSlot}
    BY <1>1 DEF NodesAgree, InJoin
  <2>1. join_waiting_queue[i].tcb \in Tid /\ join_waiting_queue[i].tid \in Tid
    BY <1>2, NodeType
  <2>2. LET w == join_waiting_queue[i]
        IN  yield_purpose'[w.tid] = Exit => slot'[w.tcb] \in {w.tid, NoSlot}
    <3>1. CASE join_waiting_queue[i].tid = t
      BY <1>8, <2>1, <3>1
    <3>2. CASE join_waiting_queue[i].tid # t
      BY <1>6, <1>8, <2>1, <3>2 DEF JInv, NodesAgree
    <3> QED  BY <3>1, <3>2
  <2> QED  BY <1>1, <1>5, <2>1, <2>2 DEF JInv, NodesAgree
<1>13. MarkedInJoin' /\ ExitingIsCurrent' /\ WalkedOver'
  BY <1>1, <1>3, <1>5, <1>6, <1>7
     DEF JInv, MarkedInJoin, ExitingIsCurrent, WalkedOver, Exit, Block
<1>14. UnknownNotInJoin'
  <2>1. \A s \in Tid : Known(s) => Known(s)'
    BY <1>1, <1>2, MainIsThread DEF Known
  <2> QED  BY <1>5, <2>1 DEF JInv, UnknownNotInJoin
<1>15. JoinOver'
  <2> SUFFICES ASSUME NEW s \in Tid, InJoin(s)', Ready(s)', yield_purpose'[s] # Block
               PROVE  /\ slot'[s] \in {join_target'[s], NoSlot}
                      /\ join_target'[s] \in exit_thread_list'
    BY DEF JoinOver
  <2>1. InJoin(s) /\ Ready(s) /\ s # t /\ yield_purpose[s] # Block
    BY <1>1, <1>5, <1>6, SameRunQueue DEF Ready, InJoin
  <2>2. slot[s] \in {join_target[s], NoSlot} /\ join_target[s] \in exit_thread_list
    BY <1>3, <2>1 DEF JInv, JoinOver, Leaving
  <2>3. ~WaitsFor(s, t)
    BY <1>3, <1>10, <2>2
  <2> QED  BY <1>1, <1>4, <2>2, <2>3
<1> QED  BY <1>11, <1>12, <1>13, <1>14, <1>15 DEF JInv

(* Entering the scheduler. *)
LEMMA TakenOffJoins ==
  ASSUME IInv, JInv, NEW t \in Tid, Executing(t), thread_number > 0, TakenOff,
         \A s \in Tid : InJoin(s)' <=> InJoin(s),
         \A s \in Tid : Known(s)' <=> Known(s)
  PROVE  JInv'
<1>1. /\ ptr' = get_current_thread
      /\ run_queue' = [run_queue EXCEPT ![current_queue_number] = Tail(@)]
      /\ phase' = "handle" /\ wait_ptr' = 1
      /\ yield_purpose' = yield_purpose /\ cpu' = cpu
      /\ join_waiting_queue' = join_waiting_queue /\ exit_thread_list' = exit_thread_list
      /\ join_target' = join_target /\ join_ret' = join_ret /\ slot' = slot
  BY DEF TakenOff, threadVars, joinVars
<1>2. /\ run_queue[current_queue_number] # << >> /\ current_queue_number \in 1 .. 3
      /\ Head(run_queue[current_queue_number]) = t
      /\ cpu = t /\ ptr' = t /\ phase = "thread" /\ InRunQueue(t) /\ TypeOK
  BY <1>1, CallerIsHead DEF IInv, TypeOK, QueueTypeOK, get_current_thread
<1>3. \A s \in Tid : InRunQueue(s)' <=> InRunQueue(s) /\ s # t
  BY <1>1, <1>2, RemoveMember
     DEF IInv, TypeOK, QueueTypeOK, RunQueueType, NoDuplicates
<1>4. NodesAgree' /\ JoinsAnswered'
  BY <1>1, <1>2, JoinsUntouched
<1>5. MarkedInJoin' /\ ExitingIsCurrent' /\ WalkedOver' /\ UnknownNotInJoin'
  BY <1>1, <1>2 DEF JInv, MarkedInJoin, ExitingIsCurrent, WalkedOver, UnknownNotInJoin
<1>6. JoinOver'
  <2>1. \A s \in Tid : Ready(s)' => Ready(s)
    BY <1>1, <1>2, <1>3 DEF Ready
  <2> QED  BY <1>1, <1>2, <2>1 DEF JInv, JoinOver, Leaving
<1> QED  BY <1>4, <1>5, <1>6 DEF JInv

LEMMA InterruptedJoins == ASSUME IInv, JInv, NEW t \in Tid, Interrupted(t) PROVE JInv'
<1>1. Executing(t) /\ thread_number > 0 /\ TakenOff /\ pc' = pc
      /\ thread_number' = thread_number
  BY DEF Interrupted, TakenOff, threadVars
<1> QED  BY <1>1, TakenOffJoins DEF InJoin, Known

LEMMA YieldedJoins == ASSUME IInv, JInv, NEW t \in Tid, Yielded(t) PROVE JInv'
<1>1. /\ Executing(t) /\ thread_number > 0 /\ TakenOff
      /\ thread_number' = thread_number /\ pc \in [Tid -> PC]
      /\ pc[t] \in {"user", "join_yield", "exit_yield"}
      /\ pc' = [pc EXCEPT ![t] = CASE @ = "user" -> "user"
                                   [] @ = "join_yield" -> "join_return"
                                   [] @ = "exit_yield" -> "exited"]
  BY DEF Yielded, TakenOff, threadVars, IInv, TypeOK, ThreadTypeOK
<1>2. \A s \in Tid : InJoin(s)' <=> InJoin(s)
  BY <1>1 DEF InJoin
<1>3. pc'[Main] = "create_add" <=> pc[Main] = "create_add"
  BY <1>1, MainIsThread
<1> QED  BY <1>1, <1>2, <1>3, TakenOffJoins DEF Known

(* The scheduler. *)
LEMMA RequeuedJoins == ASSUME IInv, JInv, Requeued PROVE JInv'
<1>1. /\ phase = "handle" /\ phase' = "dispatch" /\ yield_purpose[ptr] = Timeout
      /\ QueueGains(ptr)
      /\ UNCHANGED <<threadVars, joinVars, pc, ptr, wait_ptr>>
  BY DEF Requeued
<1>2. TypeOK
  BY DEF IInv
<1>3. \A s \in Tid : InRunQueue(s)' <=> InRunQueue(s) \/ s = ptr
  BY <1>1 DEF QueueGains
<1>4. NodesAgree' /\ JoinsAnswered'
  BY <1>1, <1>2, JoinsUntouched DEF InJoin, joinVars, threadVars
<1>5. MarkedInJoin' /\ ExitingIsCurrent' /\ WalkedOver' /\ UnknownNotInJoin'
  BY <1>1, InHandle
     DEF JInv, MarkedInJoin, ExitingIsCurrent, WalkedOver, UnknownNotInJoin, InJoin,
         Known, joinVars, threadVars, Exit, Timeout
<1>6. JoinOver'
  <2>1. \A s \in Tid : Ready(s)' => Ready(s)
    BY <1>1, <1>3 DEF Ready
  <2> QED  BY <1>1, <2>1
           DEF JInv, JoinOver, Leaving, InJoin, joinVars, threadVars, Exit, Timeout
<1> QED  BY <1>4, <1>5, <1>6 DEF JInv

LEMMA HandleBlockJoins == ASSUME IInv, JInv, HandleBlock PROVE JInv'
<1>1. /\ phase = "handle" /\ phase' = "dispatch" /\ yield_purpose[ptr] = Block
      /\ yield_purpose' = [yield_purpose EXCEPT ![ptr] = Timeout]
      /\ run_queue' = run_queue /\ cpu' = cpu /\ thread_number' = thread_number
      /\ UNCHANGED <<joinVars, pc, ptr, wait_ptr>>
  BY DEF HandleBlock, queueVars
<1>2. TypeOK /\ yield_purpose \in [Tid -> {Timeout, Exit, Block}] /\ ptr \in Tid
  BY DEF IInv, TypeOK, ThreadTypeOK, SchedTypeOK
<1>3. \A s \in Tid : s # ptr => yield_purpose'[s] = yield_purpose[s]
  BY <1>1, <1>2
<1>4. yield_purpose'[ptr] = Timeout
  BY <1>1, <1>2
<1>5. NodesAgree' /\ JoinsAnswered'
  BY <1>1, <1>2, <1>3, <1>4, JoinsUntouched DEF InJoin, joinVars, Exit, Timeout
<1>6. MarkedInJoin' /\ ExitingIsCurrent' /\ WalkedOver' /\ UnknownNotInJoin'
  BY <1>1, <1>3, <1>4, InHandle
     DEF JInv, MarkedInJoin, ExitingIsCurrent, WalkedOver, UnknownNotInJoin, InJoin,
         Known, joinVars, Exit, Timeout, Block
<1>7. JoinOver'
  <2>1. \A s \in Tid : Ready(s)' => Ready(s) /\ s # ptr
    BY <1>1, InHandle, SameRunQueue DEF Ready
  <2> QED  BY <1>1, <1>3, <2>1
           DEF JInv, JoinOver, Leaving, InJoin, joinVars, Exit, Block
<1> QED  BY <1>5, <1>6, <1>7 DEF JInv

LEMMA WokenJoins == ASSUME IInv, JInv, Woken PROVE JInv'
<1> DEFINE j == join_waiting_queue[wait_ptr].tcb
<1>1. /\ phase = "handle" /\ phase' = "handle" /\ yield_purpose[ptr] = Exit
      /\ wait_ptr <= Len(join_waiting_queue)
      /\ join_waiting_queue[wait_ptr].tid = ptr
      /\ ListLoses(wait_ptr) /\ QueueGains(j)
      /\ exit_thread_list' = exit_thread_list
      /\ yield_purpose' = yield_purpose /\ thread_number' = thread_number
      /\ pc' = pc /\ cpu' = cpu /\ ptr' = ptr
      /\ join_target' = join_target /\ join_ret' = join_ret /\ slot' = slot
  BY DEF Woken, Exits, threadVars
<1>2. wait_ptr \in 1 .. Len(join_waiting_queue) /\ TypeOK
  BY <1>1 DEF IInv, TypeOK, SchedTypeOK, JoinTypeOK
<1>3. /\ j \in Tid /\ join_target[j] = ptr
      /\ slot[j] \in {ptr, NoSlot}
  BY <1>1, <1>2, NodeType DEF JInv, NodesAgree
<1> HIDE DEF j
<1>4. \A s \in Tid : InRunQueue(s)' <=> InRunQueue(s) \/ s = j
  BY <1>1 DEF QueueGains
<1>5. \A i \in 1 .. Len(join_waiting_queue') :
        \E k \in 1 .. Len(join_waiting_queue) :
          join_waiting_queue'[i] = join_waiting_queue[k]
  BY <1>1 DEF ListLoses
<1>6. NodesAgree'
  BY <1>1, <1>5 DEF JInv, NodesAgree, InJoin
<1>7. MarkedInJoin' /\ ExitingIsCurrent' /\ UnknownNotInJoin' /\ JoinsAnswered'
  BY <1>1 DEF JInv, MarkedInJoin, ExitingIsCurrent, UnknownNotInJoin,
              JoinsAnswered, Answered, InJoin, Known
<1>9. WalkedOver'
  <2> SUFFICES ASSUME NEW i \in 1 .. wait_ptr' - 1
               PROVE  join_waiting_queue'[i].tid # ptr
    BY <1>1 DEF WalkedOver
  <2>1. i < wait_ptr /\ join_waiting_queue'[i] = join_waiting_queue[i]
    BY <1>1 DEF ListLoses
  <2>2. i \in 1 .. wait_ptr - 1
    BY <2>1, <1>1, <1>2 DEF ListLoses
  <2> QED  BY <2>1, <2>2, <1>1 DEF JInv, WalkedOver
<1>8. JoinOver'
  <2>1. \A s \in Tid : Ready(s)' => Ready(s) \/ s = j
    BY <1>1, <1>4 DEF Ready
  <2> QED  BY <1>1, <1>3, <2>1 DEF JInv, JoinOver, Leaving, InJoin
<1> QED  BY <1>6, <1>7, <1>8, <1>9 DEF JInv

LEMMA HandleExitSkipJoins == ASSUME IInv, JInv, HandleExitSkip PROVE JInv'
<1>1. /\ UNCHANGED <<queueVars, threadVars, joinVars, pc, phase, ptr>>
      /\ wait_ptr' = wait_ptr + 1 /\ wait_ptr <= Len(join_waiting_queue)
      /\ join_waiting_queue[wait_ptr].tid # ptr
  BY DEF HandleExitSkip
<1>2. TypeOK /\ wait_ptr \in 1 .. Len(join_waiting_queue) + 1
      /\ Len(join_waiting_queue) \in Nat
  BY DEF IInv, TypeOK, SchedTypeOK, JoinTypeOK
<1>3. NodesAgree' /\ JoinsAnswered'
  BY <1>1, <1>2, JoinsUntouched DEF InJoin, joinVars, threadVars
<1>4. MarkedInJoin' /\ ExitingIsCurrent' /\ UnknownNotInJoin' /\ JoinOver'
  BY <1>1, SameRunQueue
     DEF JInv, MarkedInJoin, ExitingIsCurrent, UnknownNotInJoin, JoinOver, Ready,
         Leaving, InJoin, Known, joinVars, threadVars, queueVars
<1>5. WalkedOver'
  BY <1>1, <1>2 DEF JInv, WalkedOver, joinVars, threadVars
<1> QED  BY <1>3, <1>4, <1>5 DEF JInv

LEMMA HandleExitDoneJoins == ASSUME IInv, JInv, HandleExitDone PROVE JInv'
<1>1. /\ phase = "handle" /\ phase' = "dispatch" /\ yield_purpose[ptr] = Exit
      /\ wait_ptr > Len(join_waiting_queue)
      /\ exit_thread_list' = exit_thread_list \cup {ptr} /\ wait_ptr' = 1
      /\ join_waiting_queue' = join_waiting_queue
      /\ join_target' = join_target /\ join_ret' = join_ret /\ slot' = slot
      /\ run_queue' = run_queue
      /\ yield_purpose' = yield_purpose /\ thread_number' = thread_number
      /\ pc' = pc /\ cpu' = cpu /\ ptr' = ptr
  BY DEF HandleExitDone, Exits, queueVars, threadVars
<1>2. wait_ptr = Len(join_waiting_queue) + 1 /\ Len(join_waiting_queue) \in Nat
  BY <1>1 DEF IInv, TypeOK, SchedTypeOK, JoinTypeOK
<1>3. \A i \in 1 .. Len(join_waiting_queue) : join_waiting_queue[i].tid # ptr
  BY <1>1, <1>2 DEF JInv, WalkedOver
<1>4. NodesAgree' /\ JoinsAnswered'
  BY <1>1, <1>3 DEF JInv, NodesAgree, JoinsAnswered, Answered, InJoin
<1>5. MarkedInJoin' /\ ExitingIsCurrent' /\ WalkedOver' /\ UnknownNotInJoin'
  BY <1>1, InHandle
     DEF JInv, MarkedInJoin, ExitingIsCurrent, WalkedOver, UnknownNotInJoin, InJoin,
         Known, Exit, Block
<1>6. JoinOver'
  <2>1. \A s \in Tid : Ready(s)' => Ready(s)
    BY <1>1, SameRunQueue DEF Ready
  <2> QED  BY <1>1, <2>1 DEF JInv, JoinOver, Leaving, InJoin
<1> QED  BY <1>4, <1>5, <1>6 DEF JInv

LEMMA DispatchJoins == ASSUME IInv, JInv, Dispatch PROVE JInv'
<1>1. /\ phase = "dispatch" /\ phase' = "thread"
      /\ UNCHANGED <<joinVars, pc, run_queue, yield_purpose, thread_number, ptr>>
  BY DEF Dispatch
<1>2. NodesAgree' /\ JoinsAnswered'
  BY <1>1, JoinsUntouched DEF InJoin, joinVars, IInv
<1>3. MarkedInJoin' /\ ExitingIsCurrent' /\ WalkedOver' /\ UnknownNotInJoin'
  BY <1>1 DEF JInv, MarkedInJoin, ExitingIsCurrent, WalkedOver, UnknownNotInJoin, InJoin,
              Known, joinVars
<1>4. JoinOver'
  BY <1>1, SameRunQueue DEF JInv, JoinOver, Ready, Leaving, InJoin, joinVars
<1> QED  BY <1>2, <1>3, <1>4 DEF JInv

LEMMA EndsJoins == ASSUME IInv, JInv, Stall \/ Ends PROVE JInv'
<1>1. /\ UNCHANGED <<queueVars, threadVars, joinVars, pc, ptr, wait_ptr>>
      /\ phase = "dispatch" /\ phase' \in {"stalled", "sentinel", "crossed"}
  BY DEF Stall, Ends
<1>2. NodesAgree' /\ JoinsAnswered'
  BY <1>1, JoinsUntouched DEF InJoin, joinVars, threadVars, IInv
<1>3. /\ MarkedInJoin' /\ ExitingIsCurrent' /\ WalkedOver' /\ UnknownNotInJoin'
      /\ JoinOver'
  BY <1>1, SameRunQueue
     DEF JInv, MarkedInJoin, ExitingIsCurrent, WalkedOver, UnknownNotInJoin, InJoin,
         JoinOver, Ready, Leaving, Known, joinVars, threadVars, queueVars
<1> QED  BY <1>2, <1>3 DEF JInv

LEMMA StutterJoins == ASSUME IInv, JInv, UNCHANGED vars PROVE JInv'
<1>1. /\ UNCHANGED <<run_queue, phase, ptr, wait_ptr, pc, cpu, yield_purpose,
                     thread_number, joinVars>>
  BY DEF vars, queueVars, threadVars, schedVars
<1>2. NodesAgree' /\ JoinsAnswered'
  BY <1>1, JoinsUntouched DEF InJoin, joinVars, IInv
<1>3. /\ MarkedInJoin' /\ ExitingIsCurrent' /\ WalkedOver' /\ UnknownNotInJoin'
      /\ JoinOver'
  BY <1>1, SameRunQueue
     DEF JInv, MarkedInJoin, ExitingIsCurrent, WalkedOver, UnknownNotInJoin, InJoin,
         JoinOver, Ready, Leaving, Known, joinVars
<1> QED  BY <1>2, <1>3 DEF JInv

LEMMA InitJoins == ASSUME Init PROVE JInv
BY MainIsThread
   DEF Init, JInv, MarkedInJoin, ExitingIsCurrent, UnknownNotInJoin, NodesAgree,
       WalkedOver, JoinOver, JoinsAnswered, InJoin, Timeout, Exit, Block

(* Every step of any of the schedulers keeps it, ...                          *)
LEMMA AnyStepKeepsParts ==
  ASSUME IInv, JInv, phase # "stalled", [AnyNext]_vars PROVE JInv'
<1>1. CASE Create
  BY <1>1, CreateFirstJoins, CreateThreadJoins, CreateAddJoins DEF Create
<1>2. ASSUME NEW t \in Tid, AnyThreadStep(t) PROVE JInv'
  <2>1. ~ExitReturn(t)
    BY DEF ExitReturn
  <2> QED  BY <1>2, <2>1, JoinExitedJoins, JoinWaitJoins, JoinReturnJoins,
              ExitStartJoins, YieldedJoins, InterruptedJoins DEF AnyThreadStep
<1>3. CASE AnySchedStep
  BY <1>3, RequeuedJoins, HandleBlockJoins, WokenJoins,
     HandleExitSkipJoins, HandleExitDoneJoins, DispatchJoins, EndsJoins
     DEF AnySchedStep
<1>4. CASE UNCHANGED vars
  BY <1>4, StutterJoins
<1> QED  BY <1>1, <1>2, <1>3, <1>4 DEF AnyNext

(* ... and when no thread is ready, only cpu makes steps.                     *)
LEMMA StalledStep ==
  ASSUME phase = "stalled", [AnyNext]_vars
  PROVE  /\ UNCHANGED <<queueVars, threadVars, schedVars, exit_thread_list>>
         /\ \/ \E u \in Tid : JoinExited(cpu, u)
            \/ JoinReturn(cpu)
            \/ ExitReturn(cpu)
            \/ UNCHANGED vars
<1>1. ~Create
  BY DEF Create, CreateFirst, CreateThread, CreateAdd, Executing
<1>2. ~AnySchedStep
  BY DEF AnySchedStep, Requeued, HandleBlock, Woken, Exits, HandleExitSkip,
         HandleExitDone, Dispatch, Stall, Ends
<1>3. ASSUME NEW t \in Tid, AnyThreadStep(t)
      PROVE  \/ \E u \in Tid : JoinExited(cpu, u)
             \/ JoinReturn(cpu) \/ ExitReturn(cpu)
  BY <1>3 DEF AnyThreadStep, JoinExited, JoinReturn, ExitReturn, OnProcessor,
              JoinWait, ExitStart, Yielded, Interrupted, Executing
<1>4. \/ \E u \in Tid : JoinExited(cpu, u)
      \/ JoinReturn(cpu) \/ ExitReturn(cpu)
      \/ UNCHANGED vars
  BY <1>1, <1>2, <1>3 DEF AnyNext
<1> QED  BY <1>4 DEF JoinExited, JoinReturn, ExitReturn, vars, joinVars

LEMMA StalledKeepsJoins ==
  ASSUME IInv, JoinCorrect, phase = "stalled", [AnyNext]_vars PROVE JoinCorrect'
<1>1. /\ UNCHANGED <<queueVars, threadVars, schedVars, exit_thread_list>>
      /\ \/ \E u \in Tid : JoinExited(cpu, u)
         \/ JoinReturn(cpu) \/ ExitReturn(cpu) \/ UNCHANGED vars
  BY StalledStep
<1>2. \A s \in Tid : s # cpu =>
        join_target'[s] = join_target[s] /\ join_ret'[s] = join_ret[s] /\ slot'[s] = slot[s]
  BY <1>1 DEF JoinExited, JoinReturn, ExitReturn, vars, joinVars, IInv, TypeOK, JoinTypeOK
<1> QED  BY <1>1, <1>2 DEF JoinCorrect, Answered, threadVars, schedVars

LEMMA AnyStepKeepsJoins == ASSUME IInv, JoinInv, [AnyNext]_vars PROVE JoinInv'
<1>1. CASE phase = "stalled"
  <2>1. JoinCorrect'
    BY <1>1, StalledKeepsJoins DEF JoinInv
  <2>2. phase' = "stalled"
    BY <1>1, StalledStep DEF schedVars
  <2> QED  BY <2>1, <2>2 DEF JoinInv
<1>2. CASE phase # "stalled"
  <2>1. JInv'
    BY <1>2, AnyStepKeepsParts DEF JoinInv
  <2> QED  BY <2>1 DEF JoinInv, JInv, JoinsAnswered, JoinCorrect
<1> QED  BY <1>1, <1>2

LEMMA StepKeepsJoins == ASSUME IInv, JoinInv, [Next]_vars PROVE JoinInv'
BY StepIsAny, AnyStepKeepsJoins

(* As long as a thread is ready, a node of the join list agrees with the      *)
(* state of its caller, and a thread that is ready in a join, and not about   *)
(* to block, was woken by its target and has its value.                       *)
THEOREM JoinInvariant == Spec => [](IInv /\ JoinInv)
<1>1. Init => IInv /\ JoinInv
  BY InitInv, InitJoins DEF JoinInv, JInv, JoinsAnswered, JoinCorrect
<1>2. IInv /\ JoinInv /\ [Next]_vars => IInv' /\ JoinInv'
  BY StepKeepsInv, StepKeepsJoins
<1> QED  BY <1>1, <1>2, PTL DEF Spec

(* A join that waited returns 0 only when its target has exited, and the      *)
(* value of that exit is where the caller asked for it, whatever other joins, *)
(* exits, ticks and switches came between; the one exception is the thread    *)
(* that goes on because the scheduler found no thread ready.                  *)
THEOREM JoinsCorrect == Spec => []JoinCorrect
BY JoinInvariant, PTL DEF JoinInv

---------------------------------------------------------------------------
(* The refinement. *)

AStep == [Abstract!Next]_(Abstract!vars)

LEMMA QueuedIsKnown == \A t : Queued(t) <=> Known(t)
BY DEF Queued, Known

LEMMA NoTargetIsNoThread == \A t \in Tid : t # -1
BY MainIsThread

(* The state of a thread depends on four facts about it. *)
LEMMA SameState ==
  ASSUME NEW s \in Tid,
         Known(s)' <=> Known(s),
         s \in exit_thread_list' <=> s \in exit_thread_list,
         yield_purpose'[s] = Exit <=> yield_purpose[s] = Exit,
         Ready(s)' <=> Ready(s)
  PROVE  ThreadState(s)' = ThreadState(s)
BY DEF ThreadState, Ready, Queued, Known

(* A step that changes no thread's state, and one that changes that of t.     *)
LEMMA StatesKept ==
  ASSUME \A s \in Tid : ThreadState(s)' = ThreadState(s)
  PROVE  StateOfThreads' = StateOfThreads
BY DEF StateOfThreads

LEMMA StateChanged ==
  ASSUME NEW t \in Tid, NEW x, ThreadState(t)' = x,
         \A s \in Tid : s # t => ThreadState(s)' = ThreadState(s)
  PROVE  StateOfThreads' = [StateOfThreads EXCEPT ![t] = x]
BY DEF StateOfThreads

LEMMA TargetsKept ==
  ASSUME \A s \in Tid : InJoin(s)' <=> InJoin(s),
         \A s \in Tid : InJoin(s) => join_target'[s] = join_target[s]
  PROVE  TargetOfThreads' = TargetOfThreads
BY DEF TargetOfThreads

LEMMA StateIs == \A s \in Tid : StateOfThreads[s] = ThreadState(s)
BY DEF StateOfThreads

LEMMA TargetIs ==
  \A s \in Tid : TargetOfThreads[s] = IF InJoin(s) THEN join_target[s] ELSE -1
BY DEF TargetOfThreads

LEMMA Stutters ==
  ASSUME StateOfThreads' = StateOfThreads, TargetOfThreads' = TargetOfThreads,
         cpu' = cpu
  PROVE  AStep
BY DEF AStep, Abstract!vars

(* The states of the threads that the actions are about. *)
LEMMA ExecutingState ==
  ASSUME IInv, JInv, NEW t \in Tid, Executing(t), thread_number > 0
  PROVE  /\ cpu = t /\ phase = "thread" /\ Known(t) /\ InRunQueue(t)
         /\ t \notin exit_thread_list
         /\ yield_purpose[t] # Exit => ThreadState(t) = "ready"
         /\ pc[t] # "exit_yield" => yield_purpose[t] # Exit
<1>1. /\ cpu = t /\ phase = "thread" /\ InRunQueue(t) /\ t \notin exit_thread_list
  BY CallerIsHead
<1>2. Known(t)
  BY <1>1 DEF IInv, OnlyKnown
<1>3. pc[t] # "exit_yield" => yield_purpose[t] # Exit
  BY <1>1 DEF JInv, ExitingIsCurrent
<1> QED  BY <1>1, <1>2, <1>3, QueuedIsKnown DEF ThreadState

LEMMA PtrState ==
  ASSUME IInv, JInv, phase = "handle"
  PROVE  /\ ptr \in Tid /\ ptr = cpu
         /\ ThreadState(ptr) = IF yield_purpose[ptr] = Exit THEN "exiting" ELSE "ready"
BY InHandle, QueuedIsKnown DEF ThreadState
---------------------------------------------------------------------------
(* Each action is a step of Threads, or none. *)

LEMMA CreateFirstStep == ASSUME IInv, JInv, CreateFirst PROVE AStep
<1> USE MainIsThread
<1>1. /\ phase = "thread" /\ cpu = Main /\ thread_number = 0 /\ pc[Main] = "user"
      /\ thread_number' = 1
      /\ yield_purpose' = [yield_purpose EXCEPT ![Main] = Timeout]
      /\ run_queue' = add_to_run_queue(1, Main)
      /\ pc' = [pc EXCEPT ![Main] = "create"]
      /\ exit_thread_list' = exit_thread_list /\ join_target' = join_target
      /\ phase' = phase /\ cpu' = cpu /\ ptr' = ptr
  BY DEF CreateFirst, Executing, joinVars, schedVars
<1>2. /\ yield_purpose \in [Tid -> {Timeout, Exit, Block}] /\ pc \in [Tid -> PC]
      /\ RunQueueType
  BY DEF IInv, TypeOK, ThreadTypeOK, QueueTypeOK, RunQueueType
<1>3. \A s \in Tid : ~Known(s) /\ s \notin exit_thread_list
  BY <1>1 DEF Known, Tid, IInv, OnlyKnown
<1>4. InRunQueue(Main)'
  BY <1>1, <1>2, AddMember
<1>5. /\ Known(Main)'
      /\ \A s \in Tid : s # Main => ~Known(s)'
  BY <1>1, <1>2 DEF Known, Tid, Main
<1>6. /\ ThreadState(Main) = "none" /\ ThreadState(Main)' = "ready"
      /\ \A s \in Tid : s # Main => ThreadState(s)' = ThreadState(s)
  BY <1>1, <1>2, <1>3, <1>4, <1>5 DEF ThreadState, Queued, Known, Timeout, Exit
<1>7. StateOfThreads' = [StateOfThreads EXCEPT ![Main] = "ready"]
  BY <1>6, StateChanged
<1>8. TargetOfThreads' = TargetOfThreads
  <2>1. \A s \in Tid : InJoin(s)' <=> InJoin(s)
    BY <1>1, <1>2 DEF InJoin
  <2> QED  BY <1>1, <2>1, TargetsKept
<1>9. Abstract!Begin
  BY <1>1, <1>6, <1>7, <1>8, StateIs DEF Abstract!Begin, Abstract!Becomes
<1> QED  BY <1>9 DEF AStep, Abstract!Next

(* A thread that is not in the run queue yet does not exist yet. *)
LEMMA CreateThreadStep == ASSUME IInv, JInv, CreateThread PROVE AStep
<1> USE MainIsThread
<1>1. /\ phase = "thread" /\ cpu = Main /\ pc[Main] \in {"create", "user"}
      /\ thread_number \in 1 .. MaxThreads - 1 /\ thread_number' = thread_number + 1
      /\ yield_purpose' = [yield_purpose EXCEPT ![thread_number] = Timeout]
      /\ run_queue' = run_queue /\ pc' = [pc EXCEPT ![Main] = "create_add"]
      /\ exit_thread_list' = exit_thread_list /\ join_target' = join_target
      /\ phase' = phase /\ cpu' = cpu /\ ptr' = ptr
  BY DEF CreateThread, Executing, joinVars, schedVars
<1>2. /\ yield_purpose \in [Tid -> {Timeout, Exit, Block}] /\ pc \in [Tid -> PC]
  BY DEF IInv, TypeOK, ThreadTypeOK
<1>3. \A s \in Tid : Known(s)' <=> Known(s)
  BY <1>1, <1>2 DEF Known, Tid
<1>4. \A s \in Tid : Ready(s)' <=> Ready(s)
  BY <1>1, SameRunQueue DEF Ready
<1>5. \A s \in Tid : ThreadState(s)' = ThreadState(s)
  <2> SUFFICES ASSUME NEW s \in Tid PROVE ThreadState(s)' = ThreadState(s)
    OBVIOUS
  <2>1. CASE s = thread_number
    <3>1. ~Known(s)
      BY <1>1, <2>1 DEF Known
    <3> QED  BY <1>1, <1>3, <3>1 DEF ThreadState, Queued, Known
  <2>2. CASE s # thread_number
    <3>1. yield_purpose'[s] = yield_purpose[s]
      BY <1>1, <1>2, <2>2
    <3> QED  BY <1>1, <1>3, <1>4, <3>1, SameState
  <2> QED  BY <2>1, <2>2
<1>6. TargetOfThreads' = TargetOfThreads
  <2>1. \A s \in Tid : InJoin(s)' <=> InJoin(s)
    BY <1>1, <1>2 DEF InJoin
  <2> QED  BY <1>1, <2>1, TargetsKept
<1> QED  BY <1>1, <1>5, <1>6, StatesKept, Stutters

LEMMA CreateAddStep == ASSUME IInv, JInv, CreateAdd PROVE AStep
<1> USE MainIsThread
<1>1. /\ phase = "thread" /\ cpu = Main /\ pc[Main] = "create_add"
      /\ thread_number' = thread_number /\ yield_purpose' = yield_purpose
      /\ run_queue' = add_to_run_queue(1, thread_number - 1)
      /\ pc' = [pc EXCEPT ![Main] = "user"]
      /\ exit_thread_list' = exit_thread_list /\ join_target' = join_target
      /\ phase' = phase /\ cpu' = cpu /\ ptr' = ptr
  BY DEF CreateAdd, Executing, joinVars, schedVars, threadVars
<1>2. /\ pc \in [Tid -> PC] /\ RunQueueType
      /\ thread_number > 0 /\ thread_number \in 0 .. MaxThreads
  BY <1>1 DEF IInv, TypeOK, ThreadTypeOK, QueueTypeOK, RunQueueType, OnlyKnown
<1>3. thread_number - 1 \in Tid
  BY <1>2, MlfqAssumption DEF Tid
<1>4. PICK n \in Tid : n = thread_number - 1
  BY <1>3
<1>5. /\ \A s \in Tid : s # n => (Known(s)' <=> Known(s))
      /\ Known(n)' /\ ~Known(n)
  BY <1>1, <1>2, <1>4 DEF Known
<1>6. ThreadState(Main) = "ready" /\ Known(Main) /\ yield_purpose[Main] # Exit
  BY <1>1, <1>2, ExecutingState DEF Executing
<1>7. n \notin exit_thread_list /\ n # Main
  BY <1>5, <1>6 DEF IInv, OnlyKnown
<1>8. yield_purpose[n] # Exit
  BY <1>1, <1>7 DEF JInv, ExitingIsCurrent
<1>9. \A s \in Tid : InRunQueue(s)' <=> InRunQueue(s) \/ s = n
  <2>1. run_queue' = add_to_run_queue(1, n)
    BY <1>1, <1>4
  <2> QED  BY <1>2, <2>1, AddMember
<1>10. ThreadState(n) = "none"
  BY <1>5, <1>7, QueuedIsKnown DEF ThreadState
<1>11. ThreadState(n)' = "ready"
  BY <1>1, <1>5, <1>7, <1>8, <1>9 DEF ThreadState, Queued, Known
<1>12. \A s \in Tid : s # n => ThreadState(s)' = ThreadState(s)
  BY <1>1, <1>5, <1>9, SameState DEF Ready
<1>13. StateOfThreads' = [StateOfThreads EXCEPT ![n] = "ready"]
  BY <1>11, <1>12, StateChanged
<1>14. TargetOfThreads' = TargetOfThreads
  <2>1. \A s \in Tid : InJoin(s)' <=> InJoin(s)
    BY <1>1, <1>2 DEF InJoin
  <2> QED  BY <1>1, <2>1, TargetsKept
<1>15. Abstract!Create(n)
  BY <1>1, <1>6, <1>10, <1>13, <1>14, StateIs DEF Abstract!Create, Abstract!Becomes
<1> QED  BY <1>15 DEF AStep, Abstract!Next

(* The library calls of the executing thread. *)
LEMMA JoinExitedStep ==
  ASSUME IInv, NEW t \in Tid, NEW u \in Tid, JoinExited(t, u) PROVE AStep
<1>1. /\ pc[t] = "user" /\ join_target' = [join_target EXCEPT ![t] = u]
      /\ exit_thread_list' = exit_thread_list /\ pc' = pc
      /\ run_queue' = run_queue /\ yield_purpose' = yield_purpose
      /\ thread_number' = thread_number
      /\ phase' = phase /\ cpu' = cpu /\ ptr' = ptr
  BY DEF JoinExited, queueVars, threadVars, schedVars
<1>2. \A s \in Tid : ThreadState(s)' = ThreadState(s)
  BY <1>1, SameRunQueue, SameState DEF Ready, Known
<1>3. TargetOfThreads' = TargetOfThreads
  <2>1. \A s \in Tid : InJoin(s) => join_target'[s] = join_target[s]
    BY <1>1 DEF InJoin, IInv, TypeOK, JoinTypeOK
  <2> QED  BY <1>1, <2>1, TargetsKept DEF InJoin
<1> QED  BY <1>1, <1>2, <1>3, StatesKept, Stutters

LEMMA JoinWaitStep ==
  ASSUME IInv, JInv, NEW t \in Tid, NEW u \in Tid, JoinWait(t, u) PROVE AStep
<1>1. /\ Executing(t) /\ pc[t] = "user" /\ u \notin exit_thread_list /\ u < thread_number
      /\ join_target' = [join_target EXCEPT ![t] = u]
      /\ yield_purpose' = [yield_purpose EXCEPT ![get_current_thread] = Block]
      /\ exit_thread_list' = exit_thread_list
      /\ pc' = [pc EXCEPT ![t] = "join_yield"] /\ run_queue' = run_queue
      /\ thread_number' = thread_number
      /\ phase' = phase /\ cpu' = cpu /\ ptr' = ptr
  BY DEF JoinWait, queueVars, schedVars
<1>2. /\ yield_purpose \in [Tid -> {Timeout, Exit, Block}] /\ pc \in [Tid -> PC]
      /\ join_target \in [Tid -> Tid] /\ thread_number > 0
  <2>1. /\ yield_purpose \in [Tid -> {Timeout, Exit, Block}] /\ pc \in [Tid -> PC]
        /\ join_target \in [Tid -> Tid] /\ thread_number \in Nat
    BY DEF IInv, TypeOK, JoinTypeOK, ThreadTypeOK
  <2> QED  BY <1>1, <2>1, MainIsThread
<1>3. /\ cpu = t /\ ThreadState(t) = "ready" /\ get_current_thread = t
      /\ yield_purpose[t] # Exit
  BY <1>1, <1>2, ExecutingState, CallerIsHead
<1>4. \A s \in Tid : ThreadState(s)' = ThreadState(s)
  <2>1. \A s \in Tid : yield_purpose'[s] = Exit <=> yield_purpose[s] = Exit
    BY <1>1, <1>2, <1>3 DEF Block, Exit
  <2>2. \A s \in Tid : (Known(s)' <=> Known(s)) /\ (Ready(s)' <=> Ready(s))
    BY <1>1, <1>2, SameRunQueue DEF Known, Ready
  <2> QED  BY <1>1, <2>1, <2>2, SameState
<1>5. TargetOfThreads' = [TargetOfThreads EXCEPT ![t] = u]
  <2>1. \A s \in Tid : s # t =>
          (InJoin(s)' <=> InJoin(s)) /\ join_target'[s] = join_target[s]
    BY <1>1, <1>2 DEF InJoin
  <2>2. InJoin(t)' /\ join_target'[t] = u
    BY <1>1, <1>2 DEF InJoin
  <2> QED  BY <2>1, <2>2 DEF TargetOfThreads
<1>6. TargetOfThreads[t] = -1 /\ ThreadState(u) # "exited"
  BY <1>1, TargetIs DEF InJoin, ThreadState
<1>7. Abstract!Await(u)
  BY <1>1, <1>3, <1>4, <1>5, <1>6, StatesKept, StateIs DEF Abstract!Await
<1> QED  BY <1>7 DEF AStep, Abstract!Next

(* The join returns: its target has exited, since the caller is ready again.  *)
LEMMA JoinReturnStep ==
  ASSUME IInv, JInv, phase # "stalled", NEW t \in Tid, JoinReturn(t) PROVE AStep
<1>1. /\ Executing(t) /\ pc[t] = "join_return" /\ pc' = [pc EXCEPT ![t] = "user"]
      /\ exit_thread_list' = exit_thread_list /\ join_target' = join_target
      /\ run_queue' = run_queue /\ yield_purpose' = yield_purpose
      /\ thread_number' = thread_number
      /\ phase' = phase /\ cpu' = cpu /\ ptr' = ptr
  BY DEF JoinReturn, OnProcessor, Executing, queueVars, threadVars, schedVars
<1>2. /\ pc \in [Tid -> PC] /\ join_target \in [Tid -> Tid] /\ InJoin(t)
      /\ thread_number \in Nat
  BY <1>1 DEF IInv, TypeOK, JoinTypeOK, ThreadTypeOK, InJoin
<1>3. thread_number > 0
  BY <1>2, MainIsThread DEF JInv, UnknownNotInJoin, Known
<1>4. /\ cpu = t /\ phase = "thread" /\ ThreadState(t) = "ready" /\ InRunQueue(t)
  BY <1>1, <1>3, ExecutingState
<1>5. yield_purpose[t] # Block
  BY <1>1, <1>4 DEF IInv, BlockedIsCurrent
<1>6. join_target[t] \in exit_thread_list
  BY <1>2, <1>4, <1>5 DEF JInv, JoinOver, Ready, Leaving
<1>7. \A s \in Tid : ThreadState(s)' = ThreadState(s)
  <2>1. \A s \in Tid : (Known(s)' <=> Known(s)) /\ (Ready(s)' <=> Ready(s))
    BY <1>1, <1>2, SameRunQueue DEF Known, Ready
  <2> QED  BY <1>1, <2>1, SameState
<1>8. TargetOfThreads' = [TargetOfThreads EXCEPT ![t] = -1]
  <2>1. \A s \in Tid : s # t => (InJoin(s)' <=> InJoin(s))
    BY <1>1, <1>2 DEF InJoin
  <2>2. ~InJoin(t)'
    BY <1>1, <1>2 DEF InJoin
  <2> QED  BY <1>1, <2>1, <2>2 DEF TargetOfThreads
<1>9. /\ TargetOfThreads[t] = join_target[t] /\ TargetOfThreads[t] # -1
      /\ ThreadState(join_target[t]) = "exited" /\ join_target[t] \in Tid
  BY <1>2, <1>6, TargetIs, NoTargetIsNoThread DEF ThreadState
<1>10. Abstract!Return
  BY <1>1, <1>4, <1>7, <1>8, <1>9, StatesKept, StateIs DEF Abstract!Return
<1> QED  BY <1>10 DEF AStep, Abstract!Next

LEMMA ExitStartStep == ASSUME IInv, JInv, NEW t \in Tid, ExitStart(t) PROVE AStep
<1>1. /\ Executing(t) /\ pc[t] = "user" /\ thread_number > 0
      /\ yield_purpose' = [yield_purpose EXCEPT ![get_current_thread] = Exit]
      /\ pc' = [pc EXCEPT ![t] = "exit_yield"] /\ run_queue' = run_queue
      /\ exit_thread_list' = exit_thread_list /\ join_target' = join_target
      /\ thread_number' = thread_number
      /\ phase' = phase /\ cpu' = cpu /\ ptr' = ptr
  BY DEF ExitStart, queueVars, schedVars
<1>2. /\ yield_purpose \in [Tid -> {Timeout, Exit, Block}] /\ pc \in [Tid -> PC]
  BY DEF IInv, TypeOK, ThreadTypeOK
<1>3. /\ cpu = t /\ ThreadState(t) = "ready" /\ get_current_thread = t
      /\ t \notin exit_thread_list /\ Known(t)
  BY <1>1, ExecutingState, CallerIsHead
<1>4. \A s \in Tid : (Known(s)' <=> Known(s)) /\ (Ready(s)' <=> Ready(s))
  BY <1>1, <1>2, SameRunQueue DEF Known, Ready
<1>5. \A s \in Tid : s # t => ThreadState(s)' = ThreadState(s)
  BY <1>1, <1>2, <1>3, <1>4, SameState
<1>6. ThreadState(t)' = "exiting"
  BY <1>1, <1>2, <1>3, <1>4 DEF ThreadState, Queued, Known
<1>7. StateOfThreads' = [StateOfThreads EXCEPT ![t] = "exiting"]
  BY <1>5, <1>6, StateChanged
<1>8. TargetOfThreads' = TargetOfThreads /\ TargetOfThreads[t] = -1
  <2>1. ~InJoin(t) /\ \A s \in Tid : InJoin(s)' <=> InJoin(s)
    BY <1>1, <1>2 DEF InJoin
  <2> QED  BY <1>1, <2>1, TargetsKept, TargetIs
<1>9. Abstract!Leave
  BY <1>1, <1>3, <1>7, <1>8, StateIs DEF Abstract!Leave, Abstract!Becomes
<1> QED  BY <1>9 DEF AStep, Abstract!Next

(* Entering the scheduler: the thread it takes off its queue is still ready.  *)
LEMMA TakenOffStep ==
  ASSUME IInv, JInv, NEW t \in Tid, Executing(t), thread_number > 0, TakenOff,
         \A s \in Tid : InJoin(s)' <=> InJoin(s),
         \A s \in Tid : Known(s)' <=> Known(s)
  PROVE  AStep
<1>1. /\ ptr' = get_current_thread
      /\ run_queue' = [run_queue EXCEPT ![current_queue_number] = Tail(@)]
      /\ phase' = "handle" /\ yield_purpose' = yield_purpose /\ cpu' = cpu
      /\ exit_thread_list' = exit_thread_list /\ join_target' = join_target
  BY DEF TakenOff, threadVars, joinVars
<1>2. /\ run_queue[current_queue_number] # << >> /\ current_queue_number \in 1 .. 3
      /\ Head(run_queue[current_queue_number]) = t
      /\ ptr' = t /\ phase = "thread" /\ InRunQueue(t)
  BY <1>1, CallerIsHead DEF IInv, TypeOK, QueueTypeOK, get_current_thread
<1>3. \A s \in Tid : InRunQueue(s)' <=> InRunQueue(s) /\ s # t
  BY <1>1, <1>2, RemoveMember
     DEF IInv, TypeOK, QueueTypeOK, RunQueueType, NoDuplicates
<1>4. \A s \in Tid : Ready(s)' <=> Ready(s)
  BY <1>1, <1>2, <1>3 DEF Ready
<1>5. \A s \in Tid : ThreadState(s)' = ThreadState(s)
  BY <1>1, <1>4, SameState
<1> QED  BY <1>1, <1>5, StatesKept, TargetsKept, Stutters

LEMMA InterruptedStep == ASSUME IInv, JInv, NEW t \in Tid, Interrupted(t) PROVE AStep
<1>1. Executing(t) /\ thread_number > 0 /\ TakenOff /\ pc' = pc
      /\ thread_number' = thread_number
  BY DEF Interrupted, TakenOff, threadVars
<1> QED  BY <1>1, TakenOffStep DEF InJoin, Known

LEMMA YieldedStep == ASSUME IInv, JInv, NEW t \in Tid, Yielded(t) PROVE AStep
<1>1. /\ Executing(t) /\ thread_number > 0 /\ TakenOff
      /\ thread_number' = thread_number /\ pc \in [Tid -> PC]
      /\ pc[t] \in {"user", "join_yield", "exit_yield"}
      /\ pc' = [pc EXCEPT ![t] = CASE @ = "user" -> "user"
                                   [] @ = "join_yield" -> "join_return"
                                   [] @ = "exit_yield" -> "exited"]
  BY DEF Yielded, TakenOff, threadVars, IInv, TypeOK, ThreadTypeOK
<1>2. \A s \in Tid : InJoin(s)' <=> InJoin(s)
  BY <1>1 DEF InJoin
<1>3. pc'[Main] = "create_add" <=> pc[Main] = "create_add"
  BY <1>1, MainIsThread
<1> QED  BY <1>1, <1>2, <1>3, TakenOffStep DEF Known

(* The scheduler. *)
LEMMA RequeuedStep == ASSUME IInv, JInv, Requeued PROVE AStep
<1>1. /\ phase = "handle" /\ phase' = "dispatch" /\ yield_purpose[ptr] = Timeout
      /\ exit_thread_list' = exit_thread_list /\ join_target' = join_target
      /\ yield_purpose' = yield_purpose /\ thread_number' = thread_number
      /\ pc' = pc /\ cpu' = cpu /\ ptr' = ptr
  BY DEF Requeued, threadVars, joinVars
<1>3. \A s \in Tid : InRunQueue(s)' <=> InRunQueue(s) \/ s = ptr
  BY DEF Requeued, QueueGains
<1>4. \A s \in Tid : Ready(s)' <=> Ready(s)
  BY <1>1, <1>3 DEF Ready
<1>5. \A s \in Tid : ThreadState(s)' = ThreadState(s)
  BY <1>1, <1>4, SameState DEF Known
<1>6. TargetOfThreads' = TargetOfThreads
  BY <1>1, TargetsKept DEF InJoin
<1> QED  BY <1>1, <1>5, <1>6, StatesKept, Stutters

LEMMA HandleBlockStep == ASSUME IInv, JInv, HandleBlock PROVE AStep
<1>1. /\ phase = "handle" /\ phase' = "dispatch" /\ yield_purpose[ptr] = Block
      /\ exit_thread_list' = exit_thread_list /\ join_target' = join_target
      /\ yield_purpose' = [yield_purpose EXCEPT ![ptr] = Timeout]
      /\ thread_number' = thread_number /\ run_queue' = run_queue
      /\ pc' = pc /\ cpu' = cpu /\ ptr' = ptr
  BY DEF HandleBlock, queueVars, joinVars
<1>2. PICK p \in Tid : /\ p = ptr /\ p = cpu /\ ThreadState(p) = "ready"
                       /\ ~InRunQueue(p) /\ p \notin exit_thread_list /\ Known(p)
  BY <1>1, PtrState, InHandle DEF Block, Exit
<1>3. /\ yield_purpose'[p] = Timeout
      /\ \A s \in Tid : s # p => yield_purpose'[s] = yield_purpose[s]
  BY <1>1, <1>2 DEF IInv, TypeOK, ThreadTypeOK
<1>4. /\ \A s \in Tid : Known(s)' <=> Known(s)
      /\ \A s \in Tid : InRunQueue(s)' <=> InRunQueue(s)
  BY <1>1, SameRunQueue DEF Known
<1>5. ThreadState(p)' = "blocked"
  BY <1>1, <1>2, <1>3, <1>4 DEF ThreadState, Queued, Known, Timeout, Exit
<1>6. \A s \in Tid : s # p => ThreadState(s)' = ThreadState(s)
  BY <1>1, <1>2, <1>3, <1>4, SameState DEF Ready
<1>7. StateOfThreads' = [StateOfThreads EXCEPT ![p] = "blocked"]
  BY <1>2, <1>5, <1>6, StateChanged
<1>8. TargetOfThreads' = TargetOfThreads
  BY <1>1, TargetsKept DEF InJoin
<1>9. /\ TargetOfThreads[p] = join_target[p] /\ join_target[p] \in Tid
      /\ ThreadState(join_target[p]) # "exited"
  BY <1>1, <1>2, TargetIs
     DEF JInv, MarkedInJoin, IInv, TypeOK, JoinTypeOK, ThreadState
<1>10. Abstract!Block
  BY <1>1, <1>2, <1>7, <1>8, <1>9, StateIs, NoTargetIsNoThread
     DEF Abstract!Block, Abstract!Becomes
<1> QED  BY <1>10 DEF AStep, Abstract!Next

LEMMA WokenStep == ASSUME IInv, JInv, Woken PROVE AStep
<1>1. PICK j : j = join_waiting_queue[wait_ptr].tcb
  OBVIOUS
<1>2. /\ phase = "handle" /\ phase' = "handle" /\ yield_purpose[ptr] = Exit
      /\ wait_ptr <= Len(join_waiting_queue)
      /\ join_waiting_queue[wait_ptr].tid = ptr
      /\ QueueGains(j)
      /\ exit_thread_list' = exit_thread_list
      /\ yield_purpose' = yield_purpose /\ thread_number' = thread_number
      /\ pc' = pc /\ cpu' = cpu /\ ptr' = ptr /\ join_target' = join_target
  BY <1>1 DEF Woken, Exits, threadVars
<1>3. wait_ptr \in 1 .. Len(join_waiting_queue) /\ TypeOK
  BY <1>2 DEF IInv, TypeOK, SchedTypeOK, JoinTypeOK
<1>4. j \in Tid /\ Waiting(j) /\ InJoin(j) /\ join_target[j] = ptr
  BY <1>1, <1>2, <1>3, NodeType DEF JInv, NodesAgree
<1>5. /\ ptr \in Tid /\ ptr = cpu /\ ThreadState(ptr) = "exiting"
      /\ j # ptr /\ ~InRunQueue(j)
  BY <1>2, <1>4, PtrState, InHandle DEF Block, Exit
<1>6. /\ j \notin exit_thread_list /\ Known(j) /\ yield_purpose[j] # Exit
  BY <1>4, <1>5 DEF IInv, ExitedNotWaiting, OnlyKnown, JInv, ExitingIsCurrent
<1>7. \A s \in Tid : InRunQueue(s)' <=> InRunQueue(s) \/ s = j
  BY <1>2 DEF QueueGains
<1>8. ThreadState(j) = "blocked"
  BY <1>5, <1>6, QueuedIsKnown DEF ThreadState
<1>9. ThreadState(j)' = "ready"
  BY <1>2, <1>4, <1>6, <1>7 DEF ThreadState, Queued, Known
<1>10. \A s \in Tid : s # j => ThreadState(s)' = ThreadState(s)
  BY <1>2, <1>7, SameState DEF Ready, Known
<1>11. StateOfThreads' = [StateOfThreads EXCEPT ![j] = "ready"]
  BY <1>4, <1>9, <1>10, StateChanged
<1>12. TargetOfThreads' = TargetOfThreads
  BY <1>2, TargetsKept DEF InJoin
<1>13. Abstract!Wake(j)
  BY <1>2, <1>4, <1>5, <1>8, <1>11, <1>12, StateIs, TargetIs
     DEF Abstract!Wake, Abstract!Becomes
<1> QED  BY <1>4, <1>13 DEF AStep, Abstract!Next

LEMMA HandleExitSkipStep == ASSUME IInv, JInv, HandleExitSkip PROVE AStep
<1>1. /\ run_queue' = run_queue /\ phase' = phase /\ ptr' = ptr /\ pc' = pc
      /\ UNCHANGED <<threadVars, joinVars>>
  BY DEF HandleExitSkip, queueVars
<1>2. \A s \in Tid : ThreadState(s)' = ThreadState(s)
  BY <1>1, SameRunQueue, SameState DEF Ready, Known, threadVars, joinVars
<1>3. TargetOfThreads' = TargetOfThreads
  BY <1>1, TargetsKept DEF InJoin, joinVars
<1> QED  BY <1>1, <1>2, <1>3, StatesKept, Stutters DEF threadVars

LEMMA HandleExitDoneStep == ASSUME IInv, JInv, HandleExitDone PROVE AStep
<1>1. /\ phase = "handle" /\ phase' = "dispatch" /\ yield_purpose[ptr] = Exit
      /\ exit_thread_list' = exit_thread_list \cup {ptr}
      /\ run_queue' = run_queue /\ yield_purpose' = yield_purpose
      /\ thread_number' = thread_number
      /\ pc' = pc /\ cpu' = cpu /\ ptr' = ptr /\ join_target' = join_target
  BY DEF HandleExitDone, Exits, queueVars, threadVars
<1>2. PICK p \in Tid : p = ptr /\ p = cpu /\ ThreadState(p) = "exiting"
  BY <1>1, PtrState
<1>3. ThreadState(p)' = "exited"
  BY <1>1, <1>2 DEF ThreadState
<1>4. \A s \in Tid : s # p => ThreadState(s)' = ThreadState(s)
  BY <1>1, <1>2, SameRunQueue, SameState DEF Ready, Known
<1>5. StateOfThreads' = [StateOfThreads EXCEPT ![p] = "exited"]
  BY <1>2, <1>3, <1>4, StateChanged
<1>6. TargetOfThreads' = TargetOfThreads
  BY <1>1, TargetsKept DEF InJoin
<1>7. Abstract!Gone
  BY <1>1, <1>2, <1>5, <1>6, StateIs DEF Abstract!Gone, Abstract!Becomes
<1> QED  BY <1>7 DEF AStep, Abstract!Next

(* The switch: the thread left is not in the middle of its exit, and the one  *)
(* that gets the processor was in a run queue.                                *)
LEMMA DispatchStep == ASSUME IInv, JInv, Dispatch PROVE AStep
<1>1. /\ phase = "dispatch" /\ phase' = "thread"
      /\ UNCHANGED <<joinVars, pc, run_queue, yield_purpose, thread_number, ptr>>
  BY DEF Dispatch
<1>2. \A s \in Tid : ThreadState(s)' = ThreadState(s)
  BY <1>1, SameRunQueue, SameState DEF Ready, Known, joinVars
<1>3. TargetOfThreads' = TargetOfThreads
  BY <1>1, TargetsKept DEF InJoin, joinVars
<1>4. CASE cpu' = cpu
  BY <1>2, <1>3, <1>4, StatesKept, Stutters
<1>5. CASE cpu' # cpu
  <2>1. PICK n : n = Head(run_queue[get_highest_priority])
    OBVIOUS
  <2>2. cpu' = n /\ get_highest_priority # 0
    BY <1>5, <2>1 DEF Dispatch
  <2>3. n \in Tid /\ InRunQueue(n)
    <3>1. /\ get_highest_priority \in 1 .. 3
          /\ run_queue[get_highest_priority] # << >>
          /\ run_queue[get_highest_priority] \in Seq(Tid)
      BY <2>2, HighestIsReady DEF IInv, TypeOK, QueueTypeOK
    <3> HIDE DEF get_highest_priority
    <3>2. /\ 1 \in 1 .. Len(run_queue[get_highest_priority])
          /\ run_queue[get_highest_priority][1] = n /\ n \in Tid
      BY <2>1, <3>1
    <3> QED  BY <3>1, <3>2 DEF InRunQueue, InQueue
  <2>4. ThreadState(n) = "ready"
    <3>1. n \notin exit_thread_list /\ Known(n)
      BY <2>3 DEF IInv, ExitedAreGone, OnlyKnown
    <3>2. yield_purpose[n] # Exit
      BY <1>1, <2>3, <3>1 DEF JInv, ExitingIsCurrent
    <3> QED  BY <2>3, <3>1, <3>2, QueuedIsKnown DEF ThreadState
  <2>5. cpu \in Tid /\ ThreadState(cpu) # "exiting"
    BY <1>1 DEF JInv, ExitingIsCurrent, ThreadState, IInv, TypeOK, ThreadTypeOK
  <2>6. Abstract!Switch(n)
    BY <1>2, <1>3, <2>2, <2>3, <2>4, <2>5, StatesKept, StateIs DEF Abstract!Switch
  <2> QED  BY <2>3, <2>6 DEF AStep, Abstract!Next
<1> QED  BY <1>4, <1>5

LEMMA EndsStep == ASSUME Stall \/ Ends PROVE AStep
<1>1. /\ UNCHANGED <<run_queue, threadVars, joinVars, pc, ptr>>
      /\ phase = "dispatch" /\ phase' \in {"stalled", "sentinel", "crossed"}
  BY DEF Stall, Ends, queueVars
<1>2. \A s \in Tid : ThreadState(s)' = ThreadState(s)
  BY <1>1, SameRunQueue, SameState DEF Ready, Known, threadVars, joinVars
<1>3. TargetOfThreads' = TargetOfThreads
  BY <1>1, TargetsKept DEF InJoin, joinVars
<1> QED  BY <1>1, <1>2, <1>3, StatesKept, Stutters DEF threadVars

LEMMA StutterStep == ASSUME UNCHANGED vars PROVE AStep
<1>1. UNCHANGED <<run_queue, phase, ptr, pc, threadVars, joinVars>>
  BY DEF vars, queueVars, schedVars
<1>2. \A s \in Tid : ThreadState(s)' = ThreadState(s)
  BY <1>1, SameRunQueue, SameState DEF Ready, Known, threadVars, joinVars
<1>3. TargetOfThreads' = TargetOfThreads
  BY <1>1, TargetsKept DEF InJoin, joinVars
<1> QED  BY <1>1, <1>2, <1>3, StatesKept, Stutters DEF threadVars

LEMMA InitIsInit == ASSUME Init PROVE Abstract!Init
<1>1. \A s \in Tid : ~Queued(s) /\ s \notin exit_thread_list /\ ~InJoin(s)
  BY DEF Init, Queued, Tid, InJoin
<1>2. \A s \in Tid : ThreadState(s) = "none"
  BY <1>1 DEF ThreadState
<1> QED  BY <1>1, <1>2 DEF Abstract!Init, StateOfThreads, TargetOfThreads, Init

(* When no thread is ready, none is in a queue.                               *)
StalledAlone == phase = "stalled" => \A t \in Tid : ~InRunQueue(t)

LEMMA StallIsAlone ==
  ASSUME IInv, get_highest_priority = 0
  PROVE  \A t \in Tid : ~InRunQueue(t)
<1>1. /\ run_queue[1] \in Seq(Tid) /\ run_queue[2] \in Seq(Tid)
      /\ run_queue[3] = << >> /\ priority \in [Tid -> Nat \ {0}]
  BY DEF IInv, TypeOK, QueueTypeOK
<1>2. run_queue[2] # << >> => HeadPriority(2) > 0
  BY <1>1 DEF HeadPriority
<1>3. run_queue[1] = << >> /\ run_queue[2] = << >>
  <2> HIDE DEF HeadPriority
  <2> QED  BY <1>1, <1>2 DEF get_highest_priority
<1> QED  BY <1>1, <1>3 DEF InRunQueue, InQueue

LEMMA AnyStepKeepsAlone ==
  ASSUME IInv, StalledAlone, [AnyNext]_vars PROVE StalledAlone'
<1>1. CASE phase = "stalled"
  BY <1>1, StalledStep, SameRunQueue DEF StalledAlone, queueVars
<1>2. CASE phase # "stalled" /\ phase' = "stalled"
  <2>1. Stall
    <3>1. ~Create
      BY <1>2 DEF Create, CreateFirst, CreateThread, CreateAdd, schedVars
    <3>2. ~(\E t \in Tid : AnyThreadStep(t))
      BY <1>2 DEF AnyThreadStep, JoinExited, JoinReturn, ExitReturn, JoinWait, ExitStart,
                  Yielded, Interrupted, TakenOff, schedVars
    <3>3. phase' # phase
      BY <1>2
    <3> QED  BY <1>2, <3>1, <3>2, <3>3
             DEF AnyNext, AnySchedStep, Requeued, HandleBlock, Woken, HandleExitSkip,
                 HandleExitDone, Dispatch, Ends, vars, schedVars
  <2>2. \A t \in Tid : ~InRunQueue(t)
    BY <2>1, StallIsAlone DEF Stall
  <2> QED  BY <2>1, <2>2, SameRunQueue DEF StalledAlone, Stall, queueVars
<1> QED  BY <1>1, <1>2 DEF StalledAlone

(* The join of the thread that goes on returns though nothing has woken it.   *)
LEMMA StalledReturnStep ==
  ASSUME IInv, StalledAlone, phase = "stalled", JoinReturn(cpu) PROVE AStep
<1>1. PICK t \in Tid : t = cpu
  BY DEF IInv, TypeOK, ThreadTypeOK
<1>2. /\ pc[t] = "join_return" /\ pc' = [pc EXCEPT ![t] = "user"]
      /\ exit_thread_list' = exit_thread_list /\ join_target' = join_target
      /\ run_queue' = run_queue /\ yield_purpose' = yield_purpose
      /\ thread_number' = thread_number
      /\ phase' = phase /\ cpu' = cpu /\ ptr' = ptr
  BY <1>1 DEF JoinReturn, queueVars, threadVars, schedVars
<1>3. pc \in [Tid -> PC] /\ join_target \in [Tid -> Tid]
  BY DEF IInv, TypeOK, JoinTypeOK, ThreadTypeOK
<1>4. \A s \in Tid : ThreadState(s) # "ready"
  BY DEF StalledAlone, ThreadState
<1>5. \A s \in Tid : ThreadState(s)' = ThreadState(s)
  <2>1. \A s \in Tid : (Known(s)' <=> Known(s)) /\ (Ready(s)' <=> Ready(s))
    BY <1>2, <1>3, MainIsThread, SameRunQueue DEF Known, Ready
  <2> QED  BY <1>2, <2>1, SameState
<1>6. TargetOfThreads' = [TargetOfThreads EXCEPT ![t] = -1]
  <2>1. \A s \in Tid : s # t => (InJoin(s)' <=> InJoin(s))
    BY <1>2, <1>3 DEF InJoin
  <2>2. ~InJoin(t)'
    BY <1>2, <1>3 DEF InJoin
  <2> QED  BY <1>2, <2>1, <2>2 DEF TargetOfThreads
<1>7. TargetOfThreads[t] # -1
  BY <1>2, <1>3, TargetIs, NoTargetIsNoThread DEF InJoin
<1>8. Abstract!Return
  BY <1>1, <1>2, <1>4, <1>5, <1>6, <1>7, StatesKept, StateIs
     DEF Abstract!Return, Abstract!NoneReady
<1> QED  BY <1>8 DEF AStep, Abstract!Next

LEMMA ExitReturnStep == ASSUME IInv, ExitReturn(cpu) PROVE AStep
<1>1. /\ pc[cpu] = "exited" /\ pc' = [pc EXCEPT ![cpu] = "user"]
      /\ UNCHANGED <<run_queue, threadVars, joinVars, phase, ptr>>
  BY DEF ExitReturn, queueVars, schedVars
<1>2. pc \in [Tid -> PC] /\ cpu \in Tid
  BY DEF IInv, TypeOK, ThreadTypeOK
<1>3. \A s \in Tid : InJoin(s)' <=> InJoin(s)
  BY <1>1, <1>2 DEF InJoin
<1>4. \A s \in Tid : ThreadState(s)' = ThreadState(s)
  <2>1. pc'[Main] = "create_add" <=> pc[Main] = "create_add"
    BY <1>1, <1>2, MainIsThread
  <2> QED  BY <1>1, <2>1, SameRunQueue, SameState DEF Ready, Known, threadVars, joinVars
<1> QED  BY <1>1, <1>3, <1>4, StatesKept, TargetsKept, Stutters DEF threadVars, joinVars

(* So is every step of any of the schedulers.                                 *)
LEMMA AnyStepIsStep ==
  ASSUME IInv, JoinInv, StalledAlone, [AnyNext]_vars PROVE AStep
<1>1. CASE phase = "stalled"
  <2>1. cpu \in Tid
    BY DEF IInv, TypeOK, ThreadTypeOK
  <2> QED  BY <1>1, <2>1, StalledStep, JoinExitedStep, StalledReturnStep, ExitReturnStep,
              StutterStep
<1>2. CASE phase # "stalled"
  <2>1. JInv
    BY <1>2 DEF JoinInv
  <2>2. CASE Create
    BY <2>1, <2>2, CreateFirstStep, CreateThreadStep, CreateAddStep DEF Create
  <2>3. ASSUME NEW t \in Tid, AnyThreadStep(t) PROVE AStep
    <3>1. ~ExitReturn(t)
      BY <1>2 DEF ExitReturn
    <3> QED  BY <1>2, <2>1, <2>3, <3>1, JoinExitedStep, JoinWaitStep, JoinReturnStep,
                ExitStartStep, YieldedStep, InterruptedStep DEF AnyThreadStep
  <2>4. CASE AnySchedStep
    BY <2>1, <2>4, RequeuedStep, HandleBlockStep, WokenStep,
       HandleExitSkipStep, HandleExitDoneStep, DispatchStep, EndsStep
       DEF AnySchedStep
  <2>5. CASE UNCHANGED vars
    BY <2>5, StutterStep
  <2> QED  BY <2>2, <2>3, <2>4, <2>5 DEF AnyNext
<1> QED  BY <1>1, <1>2

(* The library of mypthread.c, with its queues, its priorities, its timer and *)
(* its list of joins, behaves like Threads: whoever has the processor was     *)
(* ready for it, only a thread's own join blocks it, only the exit it waits   *)
(* for wakes it, and a join that waited returns after that exit, unless it    *)
(* has blocked the last thread that was ready.                                *)
THEOREM MlfqImplementsThreads == Spec => ImplementsThreads
<1>1. Init => Abstract!Init
  BY InitIsInit
<1>2. Init => StalledAlone
  BY DEF Init, StalledAlone
<1>3. IInv /\ StalledAlone /\ [Next]_vars => StalledAlone'
  BY StepIsAny, AnyStepKeepsAlone
<1>4. IInv /\ JoinInv /\ StalledAlone /\ [Next]_vars
        => [Abstract!Next]_(Abstract!vars)
  BY StepIsAny, AnyStepIsStep DEF AStep
<1> QED  BY <1>1, <1>2, <1>3, <1>4, JoinInvariant, PTL
         DEF Spec, ImplementsThreads, Abstract!Spec
=============================================================================
