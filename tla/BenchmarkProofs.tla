-------------------------- MODULE BenchmarkProofs --------------------------
(***************************************************************************)
(* Proofs about Benchmarks: the programs use the library as Mutex allows,  *)
(* and main has joined every worker when it reads the sum, whatever the    *)
(* mutex does to the workers, unless the scheduler has stalled in a join   *)
(* and the workers that are left are lost in a call of lock.  Main itself  *)
(* never locks, so the mutex never wakes it, and MainSingle of MutexProofs *)
(* is invariant until such a stall.                                        *)
(***************************************************************************)
EXTENDS Benchmarks, MutexProofs

(* A worker that is between two calls and has nothing left to add.            *)
Finished(t) ==
  t # Main /\ mpc[t] = "none" /\ wpc[t] = "lock" /\ added[t] = Len(Amounts(t))

(* A thread in lock or unlock is in no other call.                            *)
CallsApart == \A t \in Tid : mpc[t] # "none" => pc[t] = "user"

(* Main does not lock the mutex, and no node waits for it there.              *)
MainAloof ==
  /\ mpc[Main] \in Setup \cup {"none"}
  /\ mpc[Main] # "none" => stage \in {"init", "destroy"}
  /\ \A n \in allocated : node[n].thread # Main

(* The library takes for exited only a worker with nothing left to add.       *)
LeaversDone ==
  /\ \A t \in Tid : yield_purpose[t] = Exit => Finished(t)
  /\ \A t \in exit_thread_list : Finished(t)

(* The only waiting join is that of main for the next worker; when it is gone *)
(* from the list, that worker has finished.                                   *)
JoinsInTurn ==
  /\ joined \in 0 .. thread_num
  /\ stage \in {"destroy", "end"} => joined = thread_num
  /\ Live =>
       /\ \A i \in 1 .. Len(join_waiting_queue) :
            join_waiting_queue[i] = [tcb |-> Main, tid |-> joined + 1]
       /\ InJoin(Main) /\ ~Waiting(Main) => joined < thread_num /\ Finished(joined + 1)
       /\ \A t \in 1 .. joined : Finished(t)

(* Main joins when it has created all of them.                                *)
AllCreated ==
  stage \in {"join", "destroy", "end"} =>
    thread_number = MaxThreads /\ pc[Main] # "create_add"

(* A worker that is not ready has finished or is in lock, which is where it   *)
(* is marked as blocked and where the mark is taken from it.                  *)
PlacedAt(t) ==
  /\ Queued(t) =>
       Finished(t) \/ InLock(t) \/ InRunQueue(t) \/ (phase = "handle" /\ ptr = t)
  /\ yield_purpose[t] = Block => InLock(t)
  /\ yield_purpose[t] = Block /\ mpc[t] = "lock_return" => phase = "handle" /\ ptr = t

Placed == Live => \A t \in Workers : PlacedAt(t)

(* So it is when main goes on after a stall; then main may read the sum.      *)
LeftBehind ==
  /\ phase = "stalled" /\ cpu = Main =>
       \A t \in Workers : Queued(t) => Finished(t) \/ InLock(t)
  /\ stage \in {"destroy", "end"} =>
       \A t \in Workers : Finished(t) \/ (phase = "stalled" /\ cpu = Main /\ InLock(t))

(* write_file only appends, and the file has one byte for each addition: f[k] *)
(* is the number of those of the first k workers.                             *)
TallyOf(f) ==
  /\ f \in [0 .. thread_num -> Nat] /\ f[0] = 0
  /\ \A k \in Workers : f[k] = f[k - 1] + added[k]
  /\ sum = f[thread_num]

FileCounted ==
  Appends =>
    /\ \A t \in Tid : wpc[t] # "store"
    /\ \E f : TallyOf(f)
    /\ stage \in {"destroy", "end"} => printed = verify \/ (phase = "stalled" /\ cpu = Main)

BInv ==
  /\ added \in [Tid -> Nat] /\ wpc \in [Tid -> {"lock", "load", "store", "unlock"}]
  /\ CallsApart /\ MainAloof /\ (Live => MainSingle) /\ LeaversDone /\ JoinsInTurn
  /\ AllCreated /\ Placed /\ LeftBehind /\ FileCounted
---------------------------------------------------------------------------
LEMMA SameAmounts ==
  ASSUME program' = program
  PROVE  (Appends' <=> Appends) /\ \A t : Amounts(t)' = Amounts(t)
BY DEF Amounts, Appends

LEMMA WorkerNumbers ==
  /\ thread_num \in Nat /\ thread_num > 0
  /\ Workers = 1 .. thread_num /\ Workers \subseteq Tid /\ Main \notin Workers
  /\ Main \in Tid
BY MlfqAssumption DEF thread_num, Workers, Tid, Main

WorkerStep(t) ==
  \/ WorkerLock(t) \/ Skip(t) \/ Load(t) \/ Store(t) \/ AppendByte(t)
  \/ WorkerUnlock(t) \/ WorkerExit(t)

(* Each step of a program is a step of the library, or none.                  *)
LEMMA StepOfLibrary ==
  ASSUME CallsApart, MainAloof, [BenchNext]_<<allVars, progVars>> PROVE [MutexNext]_allVars
<1>1. ASSUME MainInit \/ MainDestroy PROVE MutexNext
  BY <1>1, BenchmarksAssumption DEF MainInit, MainDestroy, MutexNext
<1>2. ASSUME MainCreate PROVE MutexNext
  BY <1>2 DEF MainCreate, MutexNext
<1>3. ASSUME MainJoin PROVE MutexNext
  <2>1. mpc[Main] = "none" /\ UNCHANGED mutexVars
    BY <1>3 DEF MainJoin, MainAt, MainAloof
  <2>2. CASE JoinReturn(Main)
    BY <2>1, <2>2, WorkerNumbers DEF ThreadStep, OtherCall, MutexNext
  <2>3. CASE JoinWait(Main, joined + 1) \/ JoinExited(Main, joined + 1)
    <3>1. joined + 1 \in Tid
      BY <2>3, MlfqAssumption DEF JoinWait, JoinExited
    <3>2. PICK u \in Tid : JoinWait(Main, u) \/ JoinExited(Main, u)
      BY <2>3, <3>1
    <3>3. ThreadStep(Main)
      BY <3>2 DEF ThreadStep
    <3> QED  BY <2>1, <3>3, WorkerNumbers DEF OtherCall, MutexNext
  <2> QED  BY <1>3, <2>2, <2>3 DEF MainJoin
<1>4. ASSUME MainPrint PROVE UNCHANGED allVars
  BY <1>4 DEF MainPrint
<1>5. ASSUME NEW t \in Workers, WorkerStep(t) PROVE MutexNext \/ UNCHANGED allVars
  <2>1. t \in Tid
    BY WorkerNumbers
  <2>2. CASE WorkerLock(t) \/ WorkerUnlock(t)
    <3>1. MutexStep(t)
      BY <2>2, BenchmarksAssumption DEF WorkerLock, WorkerUnlock, MutexStep
    <3> QED  BY <2>1, <3>1 DEF MutexNext
  <2>3. CASE Skip(t) \/ Load(t) \/ Store(t) \/ AppendByte(t)
    BY <2>3 DEF Skip, Load, Store, AppendByte
  <2>4. CASE WorkerExit(t)
    <3>1. ThreadStep(t) /\ mpc[t] = "none" /\ UNCHANGED mutexVars
      BY <2>4 DEF WorkerExit, ThreadStep
    <3> QED  BY <2>1, <3>1 DEF OtherCall, MutexNext
  <2> QED  BY <1>5, <2>2, <2>3, <2>4 DEF WorkerStep
<1>6. ASSUME NEW t \in Tid, InLibrary(t) PROVE MutexNext
  <2>1. CASE pc[t] \in {"join_yield", "exit_yield"} /\ Yield(t) /\ UNCHANGED mutexVars
    <3>1. mpc[t] = "none" /\ ThreadStep(t)
      BY <2>1 DEF CallsApart, ThreadStep
    <3> QED  BY <2>1, <3>1 DEF OtherCall, MutexNext
  <2>2. CASE Tick(t) /\ UNCHANGED mutexVars
    <3>1. ThreadStep(t)
      BY <2>2 DEF ThreadStep
    <3>2. OtherCall(t) \/ MutexTick(t)
      BY <2>2, <3>1 DEF OtherCall, MutexTick
    <3> QED  BY <3>2 DEF MutexNext
  <2>3. CASE ExitReturn(t) /\ UNCHANGED mutexVars
    <3>1. mpc[t] = "none" /\ ThreadStep(t)
      BY <2>3 DEF CallsApart, ThreadStep, ExitReturn
    <3> QED  BY <2>3, <3>1 DEF OtherCall, MutexNext
  <2>4. MutexStep(t) => MutexNext
    BY DEF MutexNext
  <2> QED  BY <1>6, <2>1, <2>2, <2>3, <2>4 DEF InLibrary, MutexStep
<1>7. ASSUME SchedulerStep PROVE MutexNext
  BY <1>7 DEF MutexNext
<1> QED  BY <1>1, <1>2, <1>3, <1>4, <1>5, <1>6, <1>7 DEF BenchNext, WorkerStep

(* What a step of main, of a worker or of the library leaves alone.           *)
LEMMA CalledBy ==
  ASSUME XInv, NEW t \in Tid, Executing(t), thread_number > 0
  PROVE  get_current_thread = t /\ phase = "thread" /\ cpu = t /\ InRunQueue(t)
BY CallerFirst, CallerQueued DEF XInv

(* Only the thread on the processor moves in the mutex calls.                 *)
MovesAlone(t) == OnProcessor(t) /\ \E label : Goto(t, label)

LEMMA StepMoves ==
  ASSUME [BenchNext]_<<allVars, progVars>>
  PROVE  UNCHANGED mpc \/ \E t \in Tid : MovesAlone(t)
<1>1. ASSUME MainInit \/ MainDestroy PROVE MovesAlone(Main)
  BY <1>1 DEF MainInit, MainDestroy, InitFlag, InitWord, InitMid, DestroyTas, DestroyFlag, At,
              MovesAlone
<1>2. ASSUME MainCreate \/ MainJoin \/ MainPrint PROVE UNCHANGED mpc
  BY <1>2 DEF MainCreate, MutexCreateFirst, OtherCreate, MainJoin, MainPrint, allVars, mutexVars
<1>3. ASSUME NEW t \in Workers, WorkerStep(t) PROVE MovesAlone(t) \/ UNCHANGED mpc
  <2>1. CASE WorkerLock(t) \/ WorkerUnlock(t)
    BY <2>1 DEF WorkerLock, WorkerUnlock, LockCheck, UnlockCheck, At, MovesAlone
  <2>2. CASE Skip(t) \/ Load(t) \/ Store(t) \/ AppendByte(t) \/ WorkerExit(t)
    BY <2>2 DEF Skip, Load, Store, AppendByte, WorkerExit, allVars, mutexVars
  <2> QED  BY <1>3, <2>1, <2>2 DEF WorkerStep
<1>4. ASSUME NEW t \in Tid, InLibrary(t) PROVE MovesAlone(t) \/ UNCHANGED mpc
  <2>1. CASE WalkSkip(t) \/ Dangling(t)
    BY <2>1 DEF WalkSkip, Dangling, mutexVars
  <2>2. CASE \/ pc[t] \in {"join_yield", "exit_yield"} /\ Yield(t) /\ UNCHANGED mutexVars
             \/ ExitReturn(t) /\ UNCHANGED mutexVars
             \/ Tick(t) /\ UNCHANGED mutexVars
    BY <2>2 DEF mutexVars
  <2>3. CASE \/ LockTas(t) \/ LockOwn(t) \/ LockMark(t) \/ LockLast(t) \/ LockAdd(t)
             \/ LockYield(t) \/ LockReturn(t)
    BY <2>3 DEF LockTas, LockOwn, LockMark, LockLast, LockAdd, LockYield, LockReturn, At, MovesAlone
  <2>4. CASE \/ UnlockRelease(t) \/ UnlockTid(t) \/ UnlockList(t) \/ WalkUnlink(t) \/ WalkWake(t)
             \/ WalkFree(t) \/ WalkDone(t)
    BY <2>4 DEF UnlockRelease, UnlockTid, UnlockList, WalkUnlink, WalkWake, WalkFree, WalkDone, At,
                MovesAlone
  <2> QED  BY <1>4, <2>1, <2>2, <2>3, <2>4 DEF InLibrary
<1>5. ASSUME SchedulerStep \/ UNCHANGED <<allVars, progVars>> PROVE UNCHANGED mpc
  BY <1>5 DEF SchedulerStep, allVars, mutexVars
<1> QED  BY <1>1, <1>2, <1>3, <1>4, <1>5, WorkerNumbers DEF BenchNext, WorkerStep

LEMMA OthersMoveNot ==
  ASSUME XInv, [BenchNext]_<<allVars, progVars>>, NEW s \in Tid, ~OnProcessor(s)
  PROVE  mpc'[s] = mpc[s]
<1>1. LocalTypes
  BY TypeParts DEF XInv
<1>2. CASE UNCHANGED mpc
  BY <1>2
<1>3. ASSUME NEW t \in Tid, MovesAlone(t) PROVE mpc'[s] = mpc[s]
  BY <1>1, <1>3, OthersStay DEF MovesAlone
<1> QED  BY <1>2, <1>3, StepMoves

(* A worker that has finished stays so.                                       *)
LEMMA StaysFinished ==
  ASSUME XInv, BInv, [BenchNext]_<<allVars, progVars>>, NEW s \in Tid, Finished(s)
  PROVE  Finished(s)'
<1>1. /\ added \in [Tid -> Nat] /\ wpc \in [Tid -> {"lock", "load", "store", "unlock"}]
      /\ LocalTypes
  BY TypeParts DEF XInv, BInv
<1>2. /\ s # Main /\ mpc[s] = "none" /\ wpc[s] = "lock" /\ added[s] = Len(Amounts(s))
  BY DEF Finished
<1>3. program' = program
  BY DEF BenchNext, MainInit, MainCreate, MainJoin, MainPrint, MainDestroy, WorkerLock, Skip, Load,
         Store, AppendByte, WorkerUnlock, WorkerExit, InLibrary, progVars
<1>4. ASSUME mpc'[s] = mpc[s], added'[s] = added[s], wpc'[s] = wpc[s] PROVE Finished(s)'
  BY <1>2, <1>3, <1>4, SameAmounts DEF Finished
<1>5. ASSUME UNCHANGED <<added, wpc>>, ~\E label : Goto(s, label) PROVE Finished(s)'
  <2>1. UNCHANGED mpc \/ \E t \in Tid : t # s /\ \E label : Goto(t, label)
    BY <1>5, StepMoves DEF MovesAlone
  <2>2. mpc'[s] = mpc[s]
    BY <1>1, <2>1, OthersStay
  <2> QED  BY <1>4, <1>5, <2>2
<1>6. ASSUME NEW t \in Tid, t # s, UNCHANGED mpc \/ \E label : Goto(t, label),
             UNCHANGED added \/ \E x : added' = [added EXCEPT ![t] = x],
             UNCHANGED wpc \/ \E x : wpc' = [wpc EXCEPT ![t] = x]
      PROVE  Finished(s)'
  <2>1. mpc'[s] = mpc[s]
    BY <1>1, <1>6, OthersStay
  <2>2. added'[s] = added[s] /\ wpc'[s] = wpc[s]
    BY <1>1, <1>6
  <2> QED  BY <1>4, <2>1, <2>2
<1>7. ASSUME MainInit \/ MainCreate \/ MainJoin \/ MainPrint \/ MainDestroy PROVE Finished(s)'
  <2>1. UNCHANGED <<added, wpc>>
    BY <1>7 DEF MainInit, MainCreate, MainJoin, MainPrint, MainDestroy
  <2>2. UNCHANGED mpc \/ \E label : Goto(Main, label)
    BY <1>7 DEF MainInit, MainDestroy, InitFlag, InitWord, InitMid, DestroyTas, DestroyFlag,
                MainCreate, MutexCreateFirst, OtherCreate, MainJoin, MainPrint, allVars, mutexVars
  <2> QED  BY <1>2, <1>6, <2>1, <2>2, WorkerNumbers
<1>8. ASSUME NEW t \in Workers, WorkerStep(t) PROVE Finished(s)'
  <2>1. t \in Tid
    BY WorkerNumbers
  <2>2. CASE t = s
    <3>1. WorkerExit(t)
      BY <1>2, <1>8, <2>2 DEF WorkerStep, WorkerLock, Skip, Load, Store, AppendByte, WorkerUnlock,
                              Holding, At
    <3> QED  BY <1>4, <3>1 DEF WorkerExit, mutexVars, progVars
  <2>3. CASE t # s
    <3>1. UNCHANGED mpc \/ \E label : Goto(t, label)
      BY <1>8 DEF WorkerStep, WorkerLock, Skip, Load, Store, AppendByte, WorkerUnlock, WorkerExit,
                  LockCheck, UnlockCheck, allVars, mutexVars
    <3>2. /\ UNCHANGED added \/ \E x : added' = [added EXCEPT ![t] = x]
          /\ UNCHANGED wpc \/ \E x : wpc' = [wpc EXCEPT ![t] = x]
      BY <1>8 DEF WorkerStep, WorkerLock, Skip, Load, Store, AppendByte, WorkerUnlock, WorkerExit,
                  progVars
    <3> QED  BY <1>6, <2>1, <2>3, <3>1, <3>2
  <2> QED  BY <2>2, <2>3
<1>9. ASSUME NEW t \in Tid, InLibrary(t) PROVE Finished(s)'
  <2>1. UNCHANGED <<added, wpc>>
    BY <1>9 DEF InLibrary, progVars
  <2>2. mpc[t] # "none" \/ UNCHANGED mpc
    BY <1>9 DEF InLibrary, LockTas, LockOwn, LockMark, LockLast, LockAdd, LockYield, LockReturn,
         UnlockRelease, UnlockTid, UnlockList, WalkSkip, WalkUnlink, WalkWake, WalkFree, WalkDone,
         Dangling, At, mutexVars
  <2>3. UNCHANGED mpc \/ \E label : Goto(t, label)
    BY <1>9 DEF InLibrary, LockTas, LockOwn, LockMark, LockLast, LockAdd, LockYield, LockReturn,
         UnlockRelease, UnlockTid, UnlockList, WalkSkip, WalkUnlink, WalkWake, WalkFree, WalkDone,
         Dangling, mutexVars
  <2>4. CASE UNCHANGED mpc
    BY <1>4, <2>1, <2>4
  <2>5. CASE ~UNCHANGED mpc
    BY <1>2, <1>6, <2>1, <2>2, <2>3, <2>5
  <2> QED  BY <2>4, <2>5
<1>10. ASSUME (SchedulerStep /\ UNCHANGED progVars) \/ UNCHANGED <<allVars, progVars>>
       PROVE  Finished(s)'
  BY <1>4, <1>10 DEF SchedulerStep, allVars, mutexVars, progVars
<1> QED  BY <1>7, <1>8, <1>9, <1>10 DEF BenchNext, WorkerStep

(* A thread is in one call at a time.                                         *)
LEMMA StepApart ==
  ASSUME XInv, BInv, [BenchNext]_<<allVars, progVars>> PROVE CallsApart'
<1>1. CallsApart /\ LocalTypes /\ pc \in [Tid -> PC] /\ Main \in Tid
  BY TypeParts, MainIsThread DEF XInv, SchedulerFacts, ThreadTypeOK, BInv
<1>2. ASSUME UNCHANGED <<mpc, pc>> PROVE CallsApart'
  BY <1>1, <1>2 DEF CallsApart
<1>3. ASSUME NEW t \in Tid, UNCHANGED pc, \E label : Goto(t, label),
             mpc[t] # "none" \/ pc[t] = "user"
      PROVE  CallsApart'
  <2>1. \A s \in Tid : s # t => mpc'[s] = mpc[s]
    BY <1>1, <1>3, OthersStay
  <2> QED  BY <1>1, <1>3, <2>1 DEF CallsApart
<1>4. ASSUME NEW t \in Tid, UNCHANGED mpc, mpc[t] = "none",
             \E label : pc' = [pc EXCEPT ![t] = label]
      PROVE  CallsApart'
  BY <1>1, <1>4 DEF CallsApart
<1>5. ASSUME MainInit \/ MainDestroy PROVE CallsApart'
  <2>1. UNCHANGED pc /\ (\E label : Goto(Main, label)) /\ (mpc[Main] # "none" \/ pc[Main] = "user")
    BY <1>5 DEF MainInit, MainDestroy, InitFlag, InitWord, InitMid, DestroyTas, DestroyFlag, At,
                mlfqVars
  <2> QED  BY <1>1, <1>3, <2>1
<1>6. ASSUME MainCreate PROVE CallsApart'
  <2>1. UNCHANGED mpc /\ mpc[Main] = "none" /\ \E label : pc' = [pc EXCEPT ![Main] = label]
    BY <1>6 DEF MainCreate, MutexCreateFirst, OtherCreate, mutexVars, CreateFirst, CreateThread,
                CreateAdd
  <2> QED  BY <1>1, <1>4, <2>1
<1>7. ASSUME MainJoin PROVE CallsApart'
  <2>1. UNCHANGED mpc /\ mpc[Main] = "none"
    BY <1>7 DEF MainJoin, MainAt, mutexVars, BInv, MainAloof
  <2>2. UNCHANGED pc \/ \E label : pc' = [pc EXCEPT ![Main] = label]
    BY <1>7 DEF MainJoin, JoinWait, JoinReturn, JoinExited
  <2> QED  BY <1>1, <1>2, <1>4, <2>1, <2>2
<1>8. ASSUME NEW t \in Workers, WorkerStep(t) PROVE CallsApart'
  <2>1. t \in Tid
    BY WorkerNumbers
  <2>2. CASE WorkerLock(t) \/ WorkerUnlock(t)
    <3>1. UNCHANGED pc /\ (\E label : Goto(t, label)) /\ (mpc[t] # "none" \/ pc[t] = "user")
      BY <2>2 DEF WorkerLock, WorkerUnlock, LockCheck, UnlockCheck, At, mlfqVars
    <3> QED  BY <1>3, <2>1, <3>1
  <2>3. CASE Skip(t) \/ Load(t) \/ Store(t) \/ AppendByte(t)
    BY <1>2, <2>3 DEF Skip, Load, Store, AppendByte, allVars, vars, mutexVars
  <2>4. CASE WorkerExit(t)
    <3>1. UNCHANGED mpc /\ mpc[t] = "none" /\ \E label : pc' = [pc EXCEPT ![t] = label]
      BY <2>4 DEF WorkerExit, ExitStart, mutexVars
    <3> QED  BY <1>4, <2>1, <3>1
  <2> QED  BY <1>8, <2>2, <2>3, <2>4 DEF WorkerStep
<1>9. ASSUME NEW t \in Tid, InLibrary(t) PROVE CallsApart'
  <2>1. CASE \/ pc[t] \in {"join_yield", "exit_yield"} /\ Yield(t) /\ UNCHANGED mutexVars
             \/ ExitReturn(t) /\ UNCHANGED mutexVars
    <3>1. UNCHANGED mpc /\ mpc[t] = "none" /\ \E label : pc' = [pc EXCEPT ![t] = label]
      BY <1>1, <2>1 DEF Yield, ExitReturn, mutexVars, CallsApart
    <3> QED  BY <1>4, <3>1
  <2>2. CASE (Tick(t) /\ UNCHANGED mutexVars) \/ WalkSkip(t) \/ Dangling(t)
    BY <1>2, <2>2 DEF Tick, WalkSkip, Dangling, mlfqVars, mutexVars
  <2>3. CASE \/ LockTas(t) \/ LockOwn(t) \/ LockMark(t) \/ LockLast(t) \/ LockAdd(t)
             \/ LockYield(t) \/ LockReturn(t)
             \/ UnlockRelease(t) \/ UnlockTid(t) \/ UnlockList(t) \/ WalkUnlink(t) \/ WalkWake(t)
             \/ WalkFree(t) \/ WalkDone(t)
    <3>1. UNCHANGED pc /\ (\E label : Goto(t, label)) /\ mpc[t] # "none"
      BY <2>3 DEF LockTas, LockOwn, LockMark, LockLast, LockAdd, LockYield, LockReturn,
                  UnlockRelease, UnlockTid, UnlockList, WalkUnlink, WalkWake, WalkFree, WalkDone,
                  At, mlfqVars
    <3> QED  BY <1>3, <3>1
  <2> QED  BY <1>9, <2>1, <2>2, <2>3 DEF InLibrary
<1>10. ASSUME SchedulerStep \/ UNCHANGED <<allVars, progVars>> PROVE CallsApart'
  BY <1>2, <1>10 DEF SchedulerStep, SchedStep, HandleTimeout, HandleBlock, HandleExitWake,
       HandleExitSkip, HandleExitDone, Dispatch, Stall, allVars, vars, mutexVars
<1>11. ASSUME BenchNext PROVE CallsApart'
  <2>1. \/ MainInit \/ MainDestroy \/ MainCreate \/ MainJoin \/ MainPrint
        \/ \E t \in Workers : WorkerStep(t)
        \/ \E t \in Tid : InLibrary(t)
        \/ SchedulerStep
    BY <1>11 DEF BenchNext, WorkerStep
  <2>2. CASE MainPrint
    BY <1>2, <2>2 DEF MainPrint, allVars, vars, mutexVars
  <2> QED  BY <1>5, <1>6, <1>7, <1>8, <1>9, <1>10, <2>1, <2>2
<1> QED  BY <1>10, <1>11

(* What the scheduler takes for exited.                                       *)
LEMMA StepLeavers ==
  ASSUME XInv, BInv, [BenchNext]_<<allVars, progVars>> PROVE LeaversDone'
<1>1. /\ yield_purpose \in [Tid -> {Timeout, Exit, Block}] /\ exit_thread_list \subseteq Tid
      /\ ptr \in Tid
  BY Facts DEF XInv, SchedulerFacts, ThreadTypeOK, JoinTypeOK
<1>2. LeaversDone /\ \A s \in Tid : Finished(s) => Finished(s)'
  BY StaysFinished DEF BInv
<1>3. ASSUME UNCHANGED <<yield_purpose, exit_thread_list>> PROVE LeaversDone'
  BY <1>1, <1>2, <1>3 DEF LeaversDone
<1>4. ASSUME NEW u, NEW purpose \in {Timeout, Block}, exit_thread_list' = exit_thread_list,
             yield_purpose' = [yield_purpose EXCEPT ![u] = purpose]
      PROVE  LeaversDone'
  BY <1>1, <1>2, <1>4 DEF LeaversDone, Timeout, Block, Exit
<1>5. ASSUME MainInit \/ MainPrint \/ MainDestroy PROVE LeaversDone'
  BY <1>3, <1>5 DEF MainInit, MainPrint, MainDestroy, InitFlag, InitWord, InitMid, DestroyTas,
                    DestroyFlag, allVars, vars, mlfqVars, threadVars, joinVars
<1>6. ASSUME MainCreate PROVE LeaversDone'
  <2>1. exit_thread_list' = exit_thread_list
    BY <1>6 DEF MainCreate, MutexCreateFirst, OtherCreate, CreateFirst, CreateThread, CreateAdd,
                joinVars
  <2>2. \/ \E u : yield_purpose' = [yield_purpose EXCEPT ![u] = Timeout]
        \/ yield_purpose' = yield_purpose
    BY <1>6 DEF MainCreate, MutexCreateFirst, OtherCreate, CreateFirst, CreateThread, CreateAdd,
                threadVars
  <2> QED  BY <1>3, <1>4, <2>1, <2>2
<1>7. ASSUME MainJoin PROVE LeaversDone'
  <2>1. exit_thread_list' = exit_thread_list
    BY <1>7 DEF MainJoin, JoinWait, JoinReturn, JoinExited
  <2>2. \/ \E u : yield_purpose' = [yield_purpose EXCEPT ![u] = Block]
        \/ yield_purpose' = yield_purpose
    BY <1>7 DEF MainJoin, JoinWait, JoinReturn, JoinExited, threadVars
  <2> QED  BY <1>3, <1>4, <2>1, <2>2
<1>8. ASSUME NEW t \in Workers, WorkerStep(t), ~WorkerExit(t) PROVE LeaversDone'
  BY <1>3, <1>8 DEF WorkerStep, WorkerLock, Skip, Load, Store, AppendByte, WorkerUnlock, LockCheck,
                    UnlockCheck, allVars, vars, mlfqVars, threadVars, joinVars
<1>9. ASSUME NEW t \in Workers, WorkerExit(t) PROVE LeaversDone'
  <2>1. Executing(t) /\ thread_number > 0 /\ t \in Tid
    BY <1>9, WorkerNumbers DEF WorkerExit, ExitStart
  <2>2. /\ yield_purpose' = [yield_purpose EXCEPT ![t] = Exit]
        /\ exit_thread_list' = exit_thread_list
    BY <1>9, <2>1, CalledBy DEF WorkerExit, ExitStart
  <2>3. Finished(t)
    BY <1>9 DEF WorkerExit, Finished
  <2>4. \A s \in Tid : yield_purpose'[s] = Exit => s = t \/ yield_purpose[s] = Exit
    BY <1>1, <2>2
  <2> QED  BY <1>1, <1>2, <2>1, <2>2, <2>3, <2>4 DEF LeaversDone
<1>10. ASSUME NEW t \in Tid, InLibrary(t) PROVE LeaversDone'
  <2>1. CASE LockMark(t)
    BY <1>4, <2>1 DEF LockMark, joinVars
  <2>2. CASE ~LockMark(t)
    <3>1. UNCHANGED threadVars /\ UNCHANGED joinVars
      BY <1>10, <2>2 DEF InLibrary, LockTas, LockOwn, LockLast, LockAdd, LockYield, LockReturn,
           UnlockRelease, UnlockTid, UnlockList, WalkSkip, WalkUnlink, WalkWake, WalkFree, WalkDone,
           Dangling, Yield, ExitReturn, Tick, Deschedule, mlfqVars
    <3> QED  BY <1>3, <3>1 DEF threadVars, joinVars
  <2> QED  BY <2>1, <2>2
<1>11. ASSUME SchedulerStep PROVE LeaversDone'
  <2>1. CASE HandleBlock
    BY <1>4, <2>1 DEF HandleBlock, joinVars
  <2>2. CASE HandleTimeout \/ HandleExitWake \/ HandleExitSkip
    BY <1>3, <2>2 DEF HandleTimeout, HandleExitWake, HandleExitSkip, threadVars, joinVars
  <2>3. CASE HandleExitDone
    <3>1. /\ exit_thread_list' = exit_thread_list \cup {ptr} /\ yield_purpose' = yield_purpose
          /\ yield_purpose[ptr] = Exit
      BY <2>3 DEF HandleExitDone, Exits, threadVars
    <3> QED  BY <1>1, <1>2, <3>1 DEF LeaversDone
  <2>4. CASE Dispatch \/ Stall
    BY <1>3, <2>4 DEF Dispatch, Stall, threadVars, joinVars
  <2> QED  BY <1>11, <2>1, <2>2, <2>3, <2>4 DEF SchedulerStep, SchedStep
<1>12. ASSUME UNCHANGED <<allVars, progVars>> PROVE LeaversDone'
  BY <1>3, <1>12 DEF allVars, vars, threadVars, joinVars
<1> QED  BY <1>5, <1>6, <1>7, <1>8, <1>9, <1>10, <1>11, <1>12 DEF BenchNext, WorkerStep

(* A node is made by a worker, and keeps its thread.                          *)
LEMMA StepNodes ==
  ASSUME XInv, BInv, [BenchNext]_<<allVars, progVars>>
  PROVE  \A n \in allocated' : node'[n].thread # Main
<1>1. /\ node \in [NodeId -> [thread : Tid, mutex_lock : 0 .. MaxMid, next : NodeId \cup {Null}]]
      /\ allocated \subseteq NodeId
      /\ \A n \in allocated : node[n].thread # Main
      /\ mpc[Main] \in Setup \cup {"none"}
  BY DEF XInv, MutexTypeOK, BInv, MainAloof
<1> DEFINE Goal == \A n \in allocated' : node'[n].thread # Main
<1>2. ASSUME UNCHANGED <<node, allocated>> PROVE Goal
  BY <1>1, <1>2
<1>3. ASSUME NEW n, NEW x, node' = [node EXCEPT ![n].next = x], allocated' = allocated PROVE Goal
  <2>1. \A i \in NodeId : node'[i].thread = node[i].thread
    BY <1>1, <1>3
  <2> QED  BY <1>1, <1>3, <2>1
<1>4. ASSUME NEW t \in Tid, LockMark(t) PROVE Goal
  <2>1. mpc[t] = "lock_mark" /\ Executing(t)
    BY <1>4 DEF LockMark, At
  <2>2. t # Main /\ thread_number > 0
    BY <1>1, <2>1 DEF XInv, CallsAfterCreate, Setup
  <2>3. get_current_thread = t
    BY <2>1, <2>2, CalledBy
  <2>4. PICK n \in NodeId :
          /\ \E x : node' = [node EXCEPT ![n] = [thread |-> t, mutex_lock |-> x, next |-> Null]]
          /\ allocated' = allocated \cup {n}
    BY <1>4, <2>3 DEF LockMark
  <2> QED  BY <1>1, <2>2, <2>4
<1>5. ASSUME NEW t \in Tid, LockAdd(t) \/ WalkUnlink(t) PROVE Goal
  <2>1. /\ node' = node \/ \E n, x : node' = [node EXCEPT ![n].next = x]
        /\ allocated' = allocated
    BY <1>5 DEF LockAdd, WalkUnlink
  <2> QED  BY <1>2, <1>3, <2>1
<1>6. ASSUME NEW t \in Tid, WalkFree(t) PROVE Goal
  BY <1>1, <1>6 DEF WalkFree
<1>7. ASSUME NEW t \in Tid, MutexStep(t),
             ~(LockMark(t) \/ LockAdd(t) \/ WalkUnlink(t) \/ WalkFree(t))
      PROVE  Goal
  <2>1. UNCHANGED listVars
    BY <1>7 DEF MutexStep, LockCheck, LockTas, LockOwn, LockLast, LockYield, LockReturn,
         UnlockCheck, UnlockRelease, UnlockTid, UnlockList, WalkSkip, WalkWake, WalkDone, Dangling,
         mutexVars
  <2> QED  BY <1>2, <2>1 DEF listVars
<1>8. [MutexNext]_allVars
  BY StepOfLibrary DEF BInv
<1>9. ASSUME \/ \E m \in Mutexes : InitFlag(m) \/ DestroyTas(m)
             \/ InitWord \/ InitMid \/ DestroyFlag
             \/ \E t \in Tid : MutexTick(t) \/ OtherCall(t)
             \/ OtherCreate \/ MutexCreateFirst \/ SchedulerStep \/ UNCHANGED allVars
      PROVE  Goal
  <2>1. UNCHANGED listVars
    BY <1>9 DEF InitFlag, InitWord, InitMid, DestroyTas, DestroyFlag, MutexTick, OtherCall,
         OtherCreate, MutexCreateFirst, SchedulerStep, mutexVars, allVars
  <2> QED  BY <1>2, <2>1 DEF listVars
<1>10. Goal
  <2> HIDE DEF Goal
  <2>1. ASSUME NEW t \in Tid, MutexStep(t) PROVE Goal
    BY <1>4, <1>5, <1>6, <1>7, <2>1
  <2> QED  BY <1>8, <1>9, <2>1 DEF MutexNext
<1> QED  BY <1>10

LEMMA StepAloof ==
  ASSUME XInv, BInv, [BenchNext]_<<allVars, progVars>> PROVE MainAloof'
<1>1. /\ mpc[Main] \in Setup \cup {"none"} /\ LocalTypes /\ Main \in Tid
      /\ mpc[Main] # "none" => stage \in {"init", "destroy"}
  BY TypeParts, MainIsThread DEF XInv, BInv, MainAloof
<1> DEFINE Goal == /\ mpc'[Main] \in Setup \cup {"none"}
                   /\ mpc'[Main] # "none" => stage' \in {"init", "destroy"}
<1>2. ASSUME mpc'[Main] = mpc[Main], mpc[Main] # "none" => stage' = stage PROVE Goal
  BY <1>1, <1>2
<1>3. ASSUME MainInit \/ MainDestroy PROVE Goal
  <2>1. \E label \in Setup \cup {"none"} : Goto(Main, label)
    BY <1>3 DEF MainInit, MainDestroy, InitFlag, InitWord, InitMid, DestroyTas, DestroyFlag, Setup
  <2>2. mpc'[Main] \in Setup \cup {"none"}
    BY <1>1, <2>1, OthersStay
  <2> QED  BY <1>3, <2>2 DEF MainInit, MainDestroy
<1>4. ASSUME MainCreate PROVE Goal
  BY <1>2, <1>4 DEF MainCreate, MutexCreateFirst, OtherCreate, mutexVars
<1>5. ASSUME MainJoin \/ MainPrint PROVE Goal
  <2>1. mpc[Main] = "none" /\ UNCHANGED mpc
    BY <1>1, <1>5 DEF MainJoin, MainPrint, MainAt, allVars, mutexVars
  <2> QED  BY <1>2, <2>1
<1>6. ASSUME NEW t \in Workers, WorkerStep(t) PROVE Goal
  <2>1. t \in Tid /\ t # Main
    BY WorkerNumbers
  <2>2. stage' = stage
    BY <1>6 DEF WorkerStep, WorkerLock, Skip, Load, Store, AppendByte, WorkerUnlock, WorkerExit,
                progVars
  <2>3. UNCHANGED mpc \/ \E label : Goto(t, label)
    BY <1>6 DEF WorkerStep, WorkerLock, Skip, Load, Store, AppendByte, WorkerUnlock, WorkerExit,
                LockCheck, UnlockCheck, allVars, mutexVars
  <2> QED  BY <1>1, <1>2, <2>1, <2>2, <2>3, OthersStay
<1>7. ASSUME NEW t \in Tid, InLibrary(t) PROVE Goal
  <2>1. stage' = stage
    BY <1>7 DEF InLibrary, progVars
  <2>2. UNCHANGED mpc \/ (mpc[t] \notin Setup \cup {"none"} /\ \E label : Goto(t, label))
    BY <1>7 DEF InLibrary, LockTas, LockOwn, LockMark, LockLast, LockAdd, LockYield, LockReturn,
         UnlockRelease, UnlockTid, UnlockList, WalkSkip, WalkUnlink, WalkWake, WalkFree, WalkDone,
         Dangling, At, Setup, mutexVars
  <2> QED  BY <1>1, <1>2, <2>1, <2>2, OthersStay
<1>8. ASSUME (SchedulerStep /\ UNCHANGED progVars) \/ UNCHANGED <<allVars, progVars>> PROVE Goal
  BY <1>2, <1>8 DEF SchedulerStep, allVars, mutexVars, progVars
<1>9. Goal
  <2> HIDE DEF Goal
  <2> QED  BY <1>3, <1>4, <1>5, <1>6, <1>7, <1>8 DEF BenchNext, WorkerStep
<1> QED  BY <1>9, StepNodes DEF MainAloof

(* The mutex wakes main no more than it keeps it.                             *)
LEMMA StepMainSingle ==
  ASSUME XInv, BInv, [BenchNext]_<<allVars, progVars>> PROVE Live' => MainSingle'
<1>1. [MutexNext]_allVars
  BY StepOfLibrary DEF BInv
<1>2. ~LockOwn(Main)
  BY DEF LockOwn, At, BInv, MainAloof, Setup
<1>3. ~Releases(Main)'
  BY StepAloof DEF MainAloof, Releases, Setup
<1>4. \A t \in Tid : WalkWake(t) => node[mptr[t]].thread # Main
  BY DEF WalkWake, BInv, MainAloof
<1> QED  BY <1>1, <1>2, <1>3, <1>4, StepSingle, StaysLive DEF BInv

---------------------------------------------------------------------------
(* The joins. *)

(* When main does not wait for a join there is none in the list.              *)
LEMMA NoJoins ==
  ASSUME XInv, JoinsInTurn, Live, ~Waiting(Main) PROVE Len(join_waiting_queue) = 0
<1>1. Len(join_waiting_queue) \in Nat
  BY Facts DEF XInv
<1>2. \A i \in 1 .. Len(join_waiting_queue) : join_waiting_queue[i].tcb = Main
  BY DEF JoinsInTurn
<1> QED  BY <1>1, <1>2 DEF Waiting

LEMMA StepFinished ==
  ASSUME XInv, BInv, [BenchNext]_<<allVars, progVars>>
  PROVE  \A u \in 1 .. thread_num : Finished(u) => Finished(u)'
BY StaysFinished, WorkerNumbers

(* Main calls join for the next worker, or returns from it.                   *)
LEMMA JoinKeepsTurn ==
  ASSUME XInv, BInv, [BenchNext]_<<allVars, progVars>>, MainJoin, Live PROVE JoinsInTurn'
<1>1. /\ JoinsInTurn /\ MainOnce /\ LeaversDone
      /\ Executing(Main) /\ stage = "join" /\ stage' = "join" /\ joined < thread_num
  BY DEF MainJoin, MainAt, BInv, MainSingle, OnProcessor, Executing, Live
<1>2. joined \in 0 .. thread_num /\ joined + 1 \in 1 .. thread_num /\ thread_num \in Nat
  BY <1>1, WorkerNumbers DEF JoinsInTurn
<1>3. joined + 1 \in Tid /\ Main \in Tid
  BY <1>2, WorkerNumbers
<1>4. pc \in [Tid -> PC] /\ join_waiting_queue \in Seq(Waiter)
  BY Facts DEF XInv, SchedulerFacts, ThreadTypeOK
<1>5. \A t \in 1 .. joined : Finished(t) /\ Finished(t)'
  <2>1. \A t \in 1 .. joined : t \in 1 .. thread_num
    BY <1>2
  <2> QED  BY <1>1, <2>1, StepFinished DEF JoinsInTurn
<1>6. pc[Main] = "user" => Len(join_waiting_queue) = 0
  BY <1>1, NoJoins DEF MainOnce
<1>7. ASSUME Finished(joined + 1), joined' = joined + 1, join_waiting_queue' = join_waiting_queue,
             Len(join_waiting_queue) = 0, ~InJoin(Main)'
      PROVE  JoinsInTurn'
  <2>1. PICK u \in 1 .. thread_num : u = joined + 1
    BY <1>2
  <2>2. Finished(u)'
    BY <1>7, <2>1, StepFinished
  <2>3. /\ joined' = u /\ joined' \in 0 .. thread_num
        /\ \A t \in 1 .. joined' : t \in 1 .. joined \/ t = joined'
    BY <1>2, <1>7, <2>1
  <2>4. \A t \in 1 .. joined' : Finished(t)'
    <3> SUFFICES ASSUME NEW t \in 1 .. joined' PROVE Finished(t)'
      OBVIOUS
    <3>1. t \in 1 .. joined \/ t = u
      BY <2>3
    <3> QED  BY <1>5, <2>2, <3>1
  <2> QED  BY <1>1, <1>7, <2>3, <2>4 DEF JoinsInTurn
<1>8. CASE JoinExited(Main, joined + 1) /\ joined' = joined + 1
  <2>1. /\ pc[Main] = "user" /\ pc' = pc /\ join_waiting_queue' = join_waiting_queue
        /\ joined + 1 \in exit_thread_list
    BY <1>8 DEF JoinExited
  <2> QED  BY <1>1, <1>6, <1>7, <1>8, <2>1 DEF LeaversDone, InJoin
<1>9. CASE JoinReturn(Main) /\ joined' = joined + 1
  <2>1. /\ pc[Main] = "join_return" /\ pc' = [pc EXCEPT ![Main] = "user"]
        /\ join_waiting_queue' = join_waiting_queue
    BY <1>9 DEF JoinReturn
  <2>2. ~Waiting(Main)
    <3>1. Waiting(Main) => thread_number > 0
      BY <1>1 DEF MainOnce
    <3>2. Waiting(Main) => InRunQueue(Main)
      BY <1>1, <1>3, <3>1, CalledBy
    <3> QED  BY <1>1, <2>1, <3>2 DEF MainOnce
  <2>3. Finished(joined + 1) /\ Len(join_waiting_queue) = 0
    BY <1>1, <2>1, <2>2, NoJoins DEF JoinsInTurn, InJoin
  <2>4. ~InJoin(Main)'
    BY <1>3, <1>4, <2>1 DEF InJoin
  <2> QED  BY <1>7, <1>9, <2>1, <2>3, <2>4
<1>10. CASE JoinWait(Main, joined + 1) /\ joined' = joined
  <2>1. /\ pc[Main] = "user" /\ joined + 1 < thread_number
        /\ join_waiting_queue' =
             Append(join_waiting_queue, [tcb |-> get_current_thread, tid |-> joined + 1])
    BY <1>10 DEF JoinWait
  <2>2. thread_number > 0
    BY <1>2, <2>1, Facts DEF XInv
  <2>3. get_current_thread = Main
    BY <1>1, <1>3, <2>2, CalledBy
  <2>4. PICK w \in Waiter : w = [tcb |-> Main, tid |-> joined + 1]
    BY <1>3 DEF Waiter
  <2>5. join_waiting_queue' = Append(join_waiting_queue, w)
    BY <2>1, <2>3, <2>4
  <2>6. Len(join_waiting_queue') = 1 /\ join_waiting_queue'[1] = w
    BY <1>4, <1>6, <2>1, <2>5
  <2>7. /\ \A i \in 1 .. Len(join_waiting_queue') :
             join_waiting_queue'[i] = [tcb |-> Main, tid |-> joined' + 1]
        /\ Waiting(Main)'
    BY <1>10, <2>4, <2>6 DEF Waiting
  <2> QED  BY <1>1, <1>2, <1>5, <1>10, <2>7 DEF JoinsInTurn
<1> QED  BY <1>8, <1>9, <1>10 DEF MainJoin

(* The exit of a worker takes main's join from the list.                      *)
LEMMA WakeKeepsTurn ==
  ASSUME XInv, BInv, [BenchNext]_<<allVars, progVars>>, HandleExitWake, UNCHANGED progVars
  PROVE  JoinsInTurn'
<1> Live
  BY DEF HandleExitWake, Exits, Live
<1>1. JoinsInTurn /\ LeaversDone /\ joined \in 0 .. thread_num /\ thread_num \in Nat
  BY WorkerNumbers DEF BInv, JoinsInTurn
<1>2. PICK n \in 1 .. Len(join_waiting_queue) : n = wait_ptr
  BY Facts DEF HandleExitWake, XInv, SchedulerFacts
<1>3. /\ join_waiting_queue[n].tid = ptr /\ yield_purpose[ptr] = Exit /\ pc' = pc
      /\ join_waiting_queue' = SubSeq(join_waiting_queue, n + 1, Len(join_waiting_queue))
      /\ UNCHANGED <<joined, stage>>
  BY <1>2 DEF HandleExitWake, Exits, UnlinkJoin, progVars
<1>4. join_waiting_queue[n] = [tcb |-> Main, tid |-> joined + 1] /\ ptr \in Tid
  BY <1>1, Facts DEF JoinsInTurn, XInv
<1>5. PICK u \in 1 .. thread_num : u = joined + 1 /\ Finished(u) /\ Finished(u)'
  <2>1. Finished(ptr) /\ ptr = joined + 1 /\ ptr \in 1 .. thread_num
    BY <1>1, <1>3, <1>4, WorkerNumbers DEF LeaversDone, Tid, thread_num, Finished
  <2>2. PICK u \in 1 .. thread_num : u = ptr
    BY <2>1
  <2>3. Finished(u)
    BY <2>1, <2>2
  <2> QED  BY <2>1, <2>2, <2>3, StepFinished
<1>6. join_waiting_queue \in Seq(Waiter) /\ Len(join_waiting_queue) \in Nat
  BY Facts DEF XInv
<1>7. \A i \in 1 .. Len(join_waiting_queue') :
        /\ i + n \in 1 .. Len(join_waiting_queue)
        /\ join_waiting_queue'[i] = join_waiting_queue[i + n]
  <2>1. /\ Len(join_waiting_queue') = Len(join_waiting_queue) - n
        /\ \A i \in 1 .. Len(join_waiting_queue') :
             join_waiting_queue'[i] = join_waiting_queue[i + n]
    BY <1>3, <1>6
  <2> QED  BY <1>6, <2>1
<1>8. \A t \in 1 .. joined' : Finished(t)'
  <2>1. \A t \in 1 .. joined : t \in 1 .. thread_num /\ Finished(t)
    BY <1>1 DEF JoinsInTurn
  <2> QED  BY <1>3, <2>1, StepFinished
<1>9. joined' < thread_num /\ joined' + 1 = u
  BY <1>1, <1>3, <1>5
<1>10. \A i \in 1 .. Len(join_waiting_queue') :
         join_waiting_queue'[i] = [tcb |-> Main, tid |-> joined' + 1]
  BY <1>1, <1>3, <1>7 DEF JoinsInTurn
<1> QED  BY <1>1, <1>3, <1>5, <1>8, <1>9, <1>10 DEF JoinsInTurn

(* No other step changes the list, or what main has joined.                   *)
LEMMA QuietKeepsTurn ==
  ASSUME XInv, BInv, [BenchNext]_<<allVars, progVars>>, Live' => Live,
         UNCHANGED <<join_waiting_queue, joined>>, InJoin(Main)' => InJoin(Main),
         stage' \in {"destroy", "end"} => stage \in {"destroy", "end"} \/ joined = thread_num
  PROVE  JoinsInTurn'
<1>1. JoinsInTurn /\ joined \in 0 .. thread_num /\ thread_num \in Nat
  BY WorkerNumbers DEF BInv, JoinsInTurn
<1>2. Waiting(Main)' <=> Waiting(Main)
  BY DEF Waiting
<1>3. Live => \A u \in 1 .. joined : Finished(u)'
  <2>1. \A u \in 1 .. joined : u \in 1 .. thread_num
    BY <1>1
  <2> QED  BY <1>1, <2>1, StepFinished DEF JoinsInTurn
<1>4. ASSUME Live, InJoin(Main)', ~Waiting(Main)' PROVE joined < thread_num /\ Finished(joined + 1)'
  <2>1. joined < thread_num /\ Finished(joined + 1)
    BY <1>1, <1>2, <1>4 DEF JoinsInTurn
  <2>2. PICK u \in 1 .. thread_num : u = joined + 1
    BY <1>1, <2>1
  <2>3. Finished(u)' /\ joined' + 1 = u
    BY <2>1, <2>2, StepFinished
  <2> QED  BY <2>1, <2>3
<1>5. Live' => \A i \in 1 .. Len(join_waiting_queue') :
                 join_waiting_queue'[i] = [tcb |-> Main, tid |-> joined' + 1]
  BY <1>1 DEF JoinsInTurn
<1> QED  BY <1>1, <1>3, <1>4, <1>5 DEF JoinsInTurn

LEMMA StepTurn ==
  ASSUME XInv, BInv, [BenchNext]_<<allVars, progVars>> PROVE JoinsInTurn'
<1> DEFINE Quiet == /\ UNCHANGED <<join_waiting_queue, joined>>
                    /\ InJoin(Main)' => InJoin(Main)
                    /\ stage' \in {"destroy", "end"} =>
                         stage \in {"destroy", "end"} \/ joined = thread_num
<1>1. (Live' => Live) /\ (Quiet => JoinsInTurn')
  <2>1. Live' => Live
    BY StepOfLibrary, StaysLive DEF BInv
  <2> QED  BY <2>1, QuietKeepsTurn
<1>2. pc \in [Tid -> PC] /\ Main \in Tid
  BY MainIsThread DEF XInv, SchedulerFacts, ThreadTypeOK
<1>3. ASSUME MainInit \/ MainPrint \/ MainDestroy PROVE Quiet
  <2>1. UNCHANGED <<join_waiting_queue, joined, pc>>
    BY <1>3 DEF MainInit, MainPrint, MainDestroy, InitFlag, InitWord, InitMid, DestroyTas,
                DestroyFlag, allVars, vars, mlfqVars, joinVars
  <2> QED  BY <1>3, <2>1 DEF MainInit, MainPrint, MainDestroy, MainAt, InJoin
<1>4. ASSUME MainCreate PROVE Quiet
  <2>1. /\ UNCHANGED <<join_waiting_queue, joined>>
        /\ \E label \in {"create", "create_add", "user"} : pc' = [pc EXCEPT ![Main] = label]
    BY <1>4 DEF MainCreate, MutexCreateFirst, OtherCreate, CreateFirst, CreateThread, CreateAdd,
                joinVars
  <2>2. ~InJoin(Main)' /\ stage' \notin {"destroy", "end"}
    BY <1>2, <1>4, <2>1 DEF MainCreate, InJoin
  <2> QED  BY <2>1, <2>2
<1>5. ASSUME NEW t \in Workers, WorkerStep(t), ~WorkerExit(t) PROVE Quiet
  <2>1. UNCHANGED <<join_waiting_queue, joined, pc, stage>>
    BY <1>5 DEF WorkerStep, WorkerLock, Skip, Load, Store, AppendByte, WorkerUnlock, LockCheck,
                UnlockCheck, allVars, vars, mlfqVars, joinVars
  <2> QED  BY <2>1 DEF InJoin
<1>6. ASSUME NEW t \in Workers, WorkerExit(t) PROVE Quiet
  <2>1. /\ UNCHANGED <<join_waiting_queue, joined, stage>>
        /\ pc' = [pc EXCEPT ![t] = "exit_yield"] /\ t # Main
    BY <1>6, WorkerNumbers DEF WorkerExit, ExitStart, progVars
  <2>2. pc'[Main] = pc[Main]
    BY <1>2, <2>1
  <2> QED  BY <2>1, <2>2 DEF InJoin
<1>7. ASSUME NEW t \in Tid, InLibrary(t) PROVE Quiet
  <2>1. UNCHANGED <<joined, stage>>
    BY <1>7 DEF InLibrary, progVars
  <2>2. UNCHANGED join_waiting_queue
    BY <1>7 DEF InLibrary, LockTas, LockOwn, LockMark, LockLast, LockAdd, LockYield, LockReturn,
         UnlockRelease, UnlockTid, UnlockList, WalkSkip, WalkUnlink, WalkWake, WalkFree, WalkDone,
         Dangling, Yield, ExitReturn, Tick, Deschedule, mlfqVars, joinVars
  <2>3. InJoin(Main)' => InJoin(Main)
    <3>1. CASE Yield(t)
      <4>1. pc' = [pc EXCEPT ![t] = CASE @ = "user" -> "user"
                                      [] @ = "join_yield" -> "join_return"
                                      [] @ = "exit_yield" -> "exited"]
            /\ pc[t] \in {"user", "join_yield", "exit_yield"}
        BY <3>1 DEF Yield
      <4>2. pc'[Main] = pc[Main] \/ pc[Main] = "join_yield" \/ pc'[Main] = "exited"
        BY <1>2, <4>1
      <4> QED  BY <4>2 DEF InJoin
    <3>2. CASE ExitReturn(t)
      <4>1. pc' = [pc EXCEPT ![t] = "user"]
        BY <3>2 DEF ExitReturn
      <4> QED  BY <1>2, <4>1 DEF InJoin
    <3>3. CASE ~Yield(t) /\ ~ExitReturn(t)
      <4>1. UNCHANGED pc
        BY <1>7, <3>3 DEF InLibrary, LockTas, LockOwn, LockMark, LockLast, LockAdd, LockYield,
             LockReturn, UnlockRelease, UnlockTid, UnlockList, WalkSkip, WalkUnlink, WalkWake,
             WalkFree, WalkDone, Dangling, Tick, mlfqVars
      <4> QED  BY <4>1 DEF InJoin
    <3> QED  BY <3>1, <3>2, <3>3
  <2> QED  BY <2>1, <2>2, <2>3
<1>8. ASSUME SchedulerStep, UNCHANGED progVars PROVE JoinsInTurn'
  <2>1. CASE HandleExitWake
    BY <1>8, <2>1, WakeKeepsTurn
  <2>2. CASE ~HandleExitWake
    <3>1. UNCHANGED <<join_waiting_queue, pc>>
      BY <1>8, <2>2 DEF SchedulerStep, SchedStep, HandleTimeout, HandleBlock, HandleExitSkip,
           HandleExitDone, Dispatch, Stall, joinVars
    <3> QED  BY <1>1, <1>8, <3>1 DEF InJoin, progVars
  <2> QED  BY <2>1, <2>2
<1>9. ASSUME UNCHANGED <<allVars, progVars>> PROVE Quiet
  BY <1>9 DEF allVars, vars, joinVars, progVars, InJoin
<1>10. ASSUME MainJoin PROVE JoinsInTurn'
  <2>1. CASE Live
    BY <1>10, <2>1, JoinKeepsTurn
  <2>2. CASE ~Live
    <3>1. /\ joined < thread_num /\ stage' = "join" /\ (joined' = joined \/ joined' = joined + 1)
          /\ joined \in 0 .. thread_num
      BY <1>10 DEF MainJoin, MainAt, BInv, JoinsInTurn
    <3>2. joined' \in 0 .. thread_num /\ stage' \notin {"destroy", "end"}
      BY <3>1, WorkerNumbers
    <3> QED  BY <1>1, <2>2, <3>2 DEF JoinsInTurn
  <2> QED  BY <2>1, <2>2
<1>11. ASSUME BenchNext PROVE JoinsInTurn'
  <2> HIDE DEF Quiet
  <2> QED  BY <1>1, <1>3, <1>4, <1>5, <1>6, <1>7, <1>8, <1>10, <1>11 DEF BenchNext, WorkerStep
<1> HIDE DEF Quiet
<1> QED  BY <1>1, <1>9, <1>11

---------------------------------------------------------------------------
(* Where the workers are. *)

(* What a step that creates no thread does not change.                        *)
LEMMA CreatedKept ==
  ASSUME XInv, BInv, [BenchNext]_<<allVars, progVars>>, ~MainCreate
  PROVE  thread_number' = thread_number /\ (pc'[Main] = "create_add" <=> pc[Main] = "create_add")
<1>1. pc \in [Tid -> PC] /\ Main \in Tid
  BY MainIsThread DEF XInv, SchedulerFacts, ThreadTypeOK
<1> DEFINE Goal == /\ thread_number' = thread_number
                   /\ pc'[Main] = "create_add" <=> pc[Main] = "create_add"
<1>2. ASSUME thread_number' = thread_number, pc' = pc PROVE Goal
  BY <1>2
<1>3. ASSUME thread_number' = thread_number, NEW t \in Tid, pc[t] # "create_add",
             NEW label, label # "create_add", pc' = [pc EXCEPT ![t] = label]
      PROVE  Goal
  BY <1>1, <1>3
<1>4. ASSUME MainInit \/ MainPrint \/ MainDestroy PROVE Goal
  BY <1>2, <1>4 DEF MainInit, MainPrint, MainDestroy, InitFlag, InitWord, InitMid, DestroyTas,
                    DestroyFlag, allVars, vars, mlfqVars, threadVars
<1>5. ASSUME MainJoin PROVE Goal
  <2>1. thread_number' = thread_number
    BY <1>5 DEF MainJoin, JoinWait, JoinReturn, JoinExited, threadVars
  <2>2. CASE JoinExited(Main, joined + 1)
    BY <1>2, <2>1, <2>2 DEF JoinExited
  <2>3. CASE JoinReturn(Main)
    <3>1. pc[Main] = "join_return" /\ pc' = [pc EXCEPT ![Main] = "user"]
      BY <2>3 DEF JoinReturn
    <3> QED  BY <1>1, <1>3, <2>1, <3>1
  <2>4. CASE JoinWait(Main, joined + 1)
    <3>1. pc[Main] = "user" /\ pc' = [pc EXCEPT ![Main] = "join_yield"]
      BY <2>4 DEF JoinWait
    <3> QED  BY <1>1, <1>3, <2>1, <3>1
  <2> QED  BY <1>5, <2>2, <2>3, <2>4 DEF MainJoin
<1>6. ASSUME NEW t \in Workers, WorkerStep(t) PROVE Goal
  <2>1. CASE WorkerExit(t)
    <3>1. /\ thread_number' = thread_number /\ pc[t] = "user" /\ t \in Tid
          /\ pc' = [pc EXCEPT ![t] = "exit_yield"]
      BY <2>1, WorkerNumbers DEF WorkerExit, ExitStart
    <3> QED  BY <1>3, <3>1
  <2>2. CASE ~WorkerExit(t)
    BY <1>2, <1>6, <2>2 DEF WorkerStep, WorkerLock, Skip, Load, Store, AppendByte, WorkerUnlock,
         LockCheck, UnlockCheck, allVars, vars, mlfqVars, threadVars
  <2> QED  BY <2>1, <2>2
<1>7. ASSUME NEW t \in Tid, InLibrary(t) PROVE Goal
  <2>1. CASE Yield(t)
    <3>1. /\ pc[t] \in {"user", "join_yield", "exit_yield"} /\ thread_number' = thread_number
          /\ pc' = [pc EXCEPT ![t] = CASE @ = "user" -> "user"
                                       [] @ = "join_yield" -> "join_return"
                                       [] @ = "exit_yield" -> "exited"]
      BY <2>1 DEF Yield, Deschedule, threadVars
    <3>2. PICK label \in {"user", "join_return", "exited"} : pc' = [pc EXCEPT ![t] = label]
      BY <1>1, <3>1
    <3> QED  BY <1>3, <3>1, <3>2
  <2>2. CASE ExitReturn(t)
    <3>1. /\ pc[t] = "exited" /\ thread_number' = thread_number
          /\ pc' = [pc EXCEPT ![t] = "user"]
      BY <2>2 DEF ExitReturn, threadVars
    <3> QED  BY <1>3, <3>1
  <2>3. CASE ~Yield(t) /\ ~ExitReturn(t)
    <3>1. thread_number' = thread_number /\ pc' = pc
      BY <1>7, <2>3 DEF InLibrary, LockTas, LockOwn, LockMark, LockLast, LockAdd, LockYield,
         LockReturn, UnlockRelease, UnlockTid, UnlockList, WalkSkip, WalkUnlink, WalkWake, WalkFree,
         WalkDone, Dangling, Tick, Deschedule, mlfqVars, threadVars
    <3> QED  BY <1>2, <3>1
  <2> QED  BY <2>1, <2>2, <2>3
<1>8. ASSUME SchedulerStep \/ UNCHANGED <<allVars, progVars>> PROVE Goal
  BY <1>2, <1>8 DEF SchedulerStep, SchedStep, HandleTimeout, HandleBlock, HandleExitWake,
       HandleExitSkip, HandleExitDone, Dispatch, Stall, threadVars, allVars, vars
<1>9. Goal
  <2> HIDE DEF Goal
  <2> QED  BY <1>4, <1>5, <1>6, <1>7, <1>8 DEF BenchNext, WorkerStep
<1> QED  BY <1>9

LEMMA StepCreated ==
  ASSUME XInv, BInv, [BenchNext]_<<allVars, progVars>> PROVE AllCreated'
<1>1. MaxThreads \in Nat /\ MaxThreads >= 2 /\ thread_number \in Nat
  BY MlfqAssumption, Facts DEF XInv
<1>2. CASE MainCreate
  <2> SUFFICES ASSUME stage' \in {"join", "destroy", "end"}
               PROVE  thread_number' = MaxThreads /\ pc'[Main] # "create_add"
    BY DEF AllCreated
  <2>1. thread_number = MaxThreads /\ pc'[Main] = "user"
    BY <1>2 DEF MainCreate
  <2>2. CreateAdd
    BY <1>1, <1>2, <2>1 DEF MainCreate, MutexCreateFirst, OtherCreate, CreateFirst, CreateThread
  <2> QED  BY <2>1, <2>2 DEF CreateAdd, threadVars
<1>3. CASE ~MainCreate
  <2>1. stage' \in {"join", "destroy", "end"} => stage \in {"join", "destroy", "end"}
    BY <1>3 DEF BenchNext, MainInit, MainJoin, MainPrint, MainDestroy, MainAt, WorkerLock, Skip,
         Load, Store, AppendByte, WorkerUnlock, WorkerExit, InLibrary, progVars
  <2> QED  BY <1>3, <2>1, CreatedKept DEF BInv, AllCreated
<1> QED  BY <1>2, <1>3

(* The others stay ready when the current thread is taken off.                *)
LEMMA OthersReady ==
  ASSUME XInv, NEW t \in Tid, Executing(t), thread_number > 0, Deschedule
  PROVE  /\ phase' = "handle" /\ ptr' = t /\ yield_purpose' = yield_purpose
         /\ \A s \in Tid : InRunQueue(s) => InRunQueue(s)' \/ s = t
<1>1. get_current_thread = t
  BY CalledBy
<1>2. PICK c \in 1 .. 3 : c = current_queue_number
  BY Facts DEF XInv
<1>3. /\ \A k \in 1 .. 3 : run_queue[k] \in Seq(Tid)
      /\ run_queue \in [1 .. 3 -> Seq(Tid)]
      /\ run_queue[c] # << >> /\ t = Head(run_queue[c])
      /\ run_queue' = [run_queue EXCEPT ![c] = Tail(@)]
  BY <1>1, <1>2, CallerFirst, Facts DEF XInv, Deschedule, get_current_thread, RunQueueType
<1>4. ASSUME NEW s \in Tid, InRunQueue(s), s # t PROVE InRunQueue(s)'
  <2>1. PICK k \in 1 .. 3 : \E i \in 1 .. Len(run_queue[k]) : run_queue[k][i] = s
    BY <1>4 DEF InRunQueue, InQueue
  <2>2. PICK i \in 1 .. Len(run_queue[k]) : run_queue[k][i] = s
    BY <2>1
  <2>3. CASE k # c
    <3>1. run_queue'[k] = run_queue[k]
      BY <1>3, <2>3
    <3> QED  BY <2>2, <3>1 DEF InRunQueue, InQueue
  <2>4. CASE k = c
    <3>1. PICK q \in Seq(Tid) : q = run_queue[c]
      BY <1>3
    <3>2. run_queue'[c] = Tail(q)
      BY <1>3, <3>1
    <3>3. i \in 1 .. Len(q) /\ q[i] = s /\ q # << >> /\ s # Head(q)
      BY <1>3, <1>4, <2>2, <2>4, <3>1
    <3>4. i - 1 \in 1 .. Len(Tail(q)) /\ Tail(q)[i - 1] = s
      BY <3>3
    <3>5. i - 1 \in 1 .. Len(run_queue'[c]) /\ run_queue'[c][i - 1] = s
      BY <3>2, <3>4
    <3> QED  BY <3>5 DEF InRunQueue, InQueue
  <2> QED  BY <2>3, <2>4
<1>5. phase' = "handle" /\ ptr' = t /\ yield_purpose' = yield_purpose
  BY <1>1 DEF Deschedule, threadVars
<1> QED  BY <1>4, <1>5

(* A worker on whose place the step has no say.                               *)
LEMMA CalmPlaced ==
  ASSUME XInv, BInv, [BenchNext]_<<allVars, progVars>>, Live, NEW s \in Workers,
         UNCHANGED <<run_queue, phase, ptr>>, ~MainCreate, yield_purpose'[s] = yield_purpose[s],
         InLock(s) => InLock(s)', mpc'[s] = "lock_return" => mpc[s] = "lock_return"
  PROVE  PlacedAt(s)'
<1>1. s \in Tid /\ PlacedAt(s)
  BY WorkerNumbers DEF BInv, Placed
<1>2. (Finished(s) => Finished(s)') /\ (Queued(s)' <=> Queued(s))
  BY <1>1, StaysFinished, CreatedKept DEF Queued
<1>3. InRunQueue(s)' <=> InRunQueue(s)
  BY <1>1, SameRunQueue
<1> QED  BY <1>1, <1>2, <1>3 DEF PlacedAt

(* The thread t is taken off.                                                 *)
LEMMA TakenPlaced ==
  ASSUME XInv, BInv, [BenchNext]_<<allVars, progVars>>, NEW s \in Workers, NEW t \in Tid,
         Executing(t), thread_number > 0, Deschedule, ~MainCreate,
         InLock(s) => InLock(s)', s # t => mpc'[s] = mpc[s]
  PROVE  PlacedAt(s)'
<1>1. s \in Tid /\ PlacedAt(s) /\ phase = "thread"
  BY WorkerNumbers DEF BInv, Placed, Live, Executing
<1>2. (Finished(s) => Finished(s)') /\ (Queued(s)' <=> Queued(s))
  BY <1>1, StaysFinished, CreatedKept DEF Queued
<1>3. /\ phase' = "handle" /\ ptr' = t /\ yield_purpose' = yield_purpose
      /\ InRunQueue(s) => InRunQueue(s)' \/ s = t
  BY <1>1, OthersReady
<1> QED  BY <1>1, <1>2, <1>3 DEF PlacedAt

(* A thread is put into a queue.                                              *)
LEMMA AddedPlaced ==
  ASSUME XInv, BInv, [BenchNext]_<<allVars, progVars>>, Live, NEW s \in Workers,
         NEW num \in 1 .. 3, NEW u \in Tid, run_queue' = add_to_run_queue(num, u),
         yield_purpose'[s] = yield_purpose[s], Queued(s)' => Queued(s) \/ s = u,
         InLock(s) => InLock(s)', mpc'[s] = "lock_return" => mpc[s] = "lock_return",
         UNCHANGED <<phase, ptr>> \/ (phase = "handle" /\ ptr = u /\ yield_purpose[u] # Block)
  PROVE  PlacedAt(s)'
<1>1. s \in Tid /\ PlacedAt(s)
  BY WorkerNumbers DEF BInv, Placed
<1>2. Finished(s) => Finished(s)'
  BY <1>1, StaysFinished
<1>3. InRunQueue(s)' <=> InRunQueue(s) \/ s = u
  BY <1>1, AddMember, Facts DEF XInv
<1> QED  BY <1>1, <1>2, <1>3 DEF PlacedAt

LEMMA CreatePlaced ==
  ASSUME XInv, BInv, [BenchNext]_<<allVars, progVars>>, MainCreate, NEW s \in Workers
  PROVE  PlacedAt(s)'
<1>1. /\ s \in Tid /\ s # Main /\ s \in Nat /\ s >= 1 /\ thread_number \in Nat
      /\ MaxThreads \in Nat /\ Main \in Tid
      /\ yield_purpose \in [Tid -> {Timeout, Exit, Block}] /\ pc \in [Tid -> PC]
  <2>1. thread_number \in Nat /\ yield_purpose \in [Tid -> {Timeout, Exit, Block}]
        /\ pc \in [Tid -> PC]
    BY Facts DEF XInv, SchedulerFacts, ThreadTypeOK
  <2>2. s \in Tid /\ s # Main /\ s \in Nat /\ s >= 1
    BY WorkerNumbers
  <2> QED  BY <2>1, <2>2, MlfqAssumption, WorkerNumbers
<1>2. CreateFirst \/ CreateThread \/ CreateAdd
  BY DEF MainCreate, MutexCreateFirst, OtherCreate
<1>3. Executing(Main) /\ phase' = phase /\ ptr' = ptr
  BY <1>2 DEF CreateFirst, CreateThread, CreateAdd, schedVars
<1>4. mpc' = mpc /\ Live /\ PlacedAt(s)
  BY <1>3 DEF MainCreate, MutexCreateFirst, OtherCreate, mutexVars, Executing, Live, BInv, Placed
<1>5. InLock(s)' <=> InLock(s)
  BY <1>4 DEF InLock
<1>6. CASE CreateFirst
  <2>1. /\ run_queue' = add_to_run_queue(1, Main) /\ yield_purpose'[s] = yield_purpose[s]
        /\ thread_number' = 1
    <3>1. yield_purpose' = [yield_purpose EXCEPT ![Main] = Timeout]
      BY <1>6 DEF CreateFirst
    <3>2. yield_purpose'[s] = yield_purpose[s]
      BY <1>1, <3>1
    <3> QED  BY <1>6, <3>2 DEF CreateFirst
  <2>2. ~Queued(s)'
    BY <1>1, <2>1 DEF Queued
  <2> QED  BY <1>1, <1>3, <1>4, <1>5, <2>1, <2>2, AddedPlaced
<1>7. CASE CreateThread
  <2>1. /\ thread_number' = thread_number + 1 /\ pc' = [pc EXCEPT ![Main] = "create_add"]
        /\ run_queue' = run_queue /\ pc[Main] \in {"create", "user"}
        /\ yield_purpose'[s] = yield_purpose[s] \/ yield_purpose'[s] # Block
    <3>1. yield_purpose' = [yield_purpose EXCEPT ![thread_number] = Timeout]
      BY <1>7 DEF CreateThread
    <3>2. yield_purpose'[s] = yield_purpose[s] \/ yield_purpose'[s] # Block
      BY <1>1, <3>1 DEF Timeout, Block
    <3> QED  BY <1>7, <3>2 DEF CreateThread
  <2>2. Queued(s)' => Queued(s)
    BY <1>1, <2>1 DEF Queued
  <2>3. (InRunQueue(s)' <=> InRunQueue(s)) /\ (Finished(s) => Finished(s)')
    BY <1>1, <2>1, SameRunQueue, StaysFinished
  <2> QED  BY <1>3, <1>4, <1>5, <2>1, <2>2, <2>3 DEF PlacedAt
<1>8. CASE CreateAdd
  <2>1. /\ run_queue' = add_to_run_queue(1, thread_number - 1) /\ UNCHANGED threadVars
        /\ pc[Main] = "create_add"
    BY <1>8 DEF CreateAdd
  <2>2. thread_number > 1 /\ thread_number <= MaxThreads
    BY <2>1 DEF XInv, SchedulerFacts, ThreadTypeOK
  <2>3. PICK u \in Tid : u = thread_number - 1
    BY <1>1, <2>2 DEF Tid
  <2>4. Queued(s)' => Queued(s) \/ s = u
    BY <2>1, <2>3 DEF Queued, threadVars
  <2>5. run_queue' = add_to_run_queue(1, u) /\ yield_purpose'[s] = yield_purpose[s]
    BY <2>1, <2>3 DEF threadVars
  <2> QED  BY <1>3, <1>4, <1>5, <2>4, <2>5, AddedPlaced
<1> QED  BY <1>2, <1>6, <1>7, <1>8

LEMMA SchedulerPlaced ==
  ASSUME XInv, BInv, [BenchNext]_<<allVars, progVars>>, SchedulerStep, ~MainCreate,
         NEW s \in Workers, Live'
  PROVE  PlacedAt(s)'
<1>1. /\ s \in Tid /\ ptr \in Tid /\ yield_purpose \in [Tid -> {Timeout, Exit, Block}]
      /\ mpc' = mpc /\ (InLock(s)' <=> InLock(s))
      /\ wait_ptr \in 1 .. Len(join_waiting_queue) + 1 /\ join_waiting_queue \in Seq(Waiter)
  <2>1. ptr \in Tid /\ join_waiting_queue \in Seq(Waiter)
    BY Facts DEF XInv
  <2>2. /\ yield_purpose \in [Tid -> {Timeout, Exit, Block}]
        /\ wait_ptr \in 1 .. Len(join_waiting_queue) + 1
    BY DEF XInv, SchedulerFacts, ThreadTypeOK
  <2> QED  BY <2>1, <2>2, WorkerNumbers DEF SchedulerStep, mutexVars, InLock
<1>2. Live /\ PlacedAt(s)
  BY StepOfLibrary, StaysLive DEF BInv, Placed
<1>3. (Finished(s) => Finished(s)') /\ (Queued(s)' <=> Queued(s))
  BY <1>1, StaysFinished, CreatedKept DEF Queued
<1>4. CASE HandleTimeout
  <2>1. /\ phase = "handle" /\ yield_purpose' = yield_purpose /\ yield_purpose[ptr] # Block
        /\ \E num \in 1 .. 3 : run_queue' = add_to_run_queue(num, ptr)
    BY <1>4 DEF HandleTimeout, threadVars, Timeout, Block
  <2> QED  BY <1>1, <1>2, <1>3, <2>1, AddedPlaced
<1>5. CASE HandleBlock
  <2>1. /\ run_queue' = run_queue /\ yield_purpose[ptr] = Block /\ phase' = "dispatch"
        /\ yield_purpose' = [yield_purpose EXCEPT ![ptr] = Timeout]
    BY <1>5 DEF HandleBlock, queueVars
  <2>2. /\ yield_purpose'[s] = Block => yield_purpose[s] = Block /\ s # ptr
        /\ InRunQueue(s)' <=> InRunQueue(s)
    BY <1>1, <2>1, SameRunQueue DEF Timeout, Block
  <2> QED  BY <1>1, <1>2, <1>3, <2>1, <2>2 DEF PlacedAt
<1>6. CASE HandleExitWake
  <2>1. PICK n \in 1 .. Len(join_waiting_queue) : n = wait_ptr
    <3>1. wait_ptr <= Len(join_waiting_queue)
      BY <1>6 DEF HandleExitWake
    <3> QED  BY <1>1, <3>1
  <2>2. PICK u \in Tid : u = join_waiting_queue[n].tcb
    <3>1. join_waiting_queue[n] \in Waiter
      BY <1>1
    <3> QED  BY <3>1 DEF Waiter
  <2>3. /\ run_queue' = add_to_run_queue(1, u) /\ yield_purpose' = yield_purpose
        /\ UNCHANGED <<phase, ptr>>
    BY <1>6, <2>1, <2>2 DEF HandleExitWake, Exits, threadVars
  <2> QED  BY <1>1, <1>2, <1>3, <2>3, AddedPlaced
<1>7. CASE HandleExitSkip
  BY <1>1, <1>2, <1>7, CalmPlaced DEF HandleExitSkip, queueVars, threadVars
<1>8. CASE HandleExitDone
  <2>1. /\ run_queue' = run_queue /\ yield_purpose[ptr] = Exit /\ phase' = "dispatch"
        /\ yield_purpose' = yield_purpose
    BY <1>8 DEF HandleExitDone, Exits, queueVars, threadVars
  <2>2. Finished(ptr)
    BY <1>1, <2>1 DEF BInv, LeaversDone
  <2>3. InRunQueue(s)' <=> InRunQueue(s)
    BY <1>1, <2>1, SameRunQueue
  <2> QED  BY <1>1, <1>2, <1>3, <2>1, <2>2, <2>3 DEF PlacedAt, Exit, Block
<1>9. CASE Dispatch
  <2>1. run_queue' = run_queue /\ yield_purpose' = yield_purpose /\ phase = "dispatch"
    BY <1>9 DEF Dispatch
  <2>2. InRunQueue(s)' <=> InRunQueue(s)
    BY <1>1, <2>1, SameRunQueue
  <2> QED  BY <1>1, <1>2, <1>3, <2>1, <2>2 DEF PlacedAt
<1>10. ~Stall
  BY DEF Stall, Live
<1> QED  BY <1>4, <1>5, <1>6, <1>7, <1>8, <1>9, <1>10 DEF SchedulerStep, SchedStep

LEMMA InLibraryPlaced ==
  ASSUME XInv, BInv, [BenchNext]_<<allVars, progVars>>, ~MainCreate, Live,
         NEW s \in Workers, NEW t \in Tid, InLibrary(t)
  PROVE  PlacedAt(s)' \/ ~Live'
<1>1. /\ s \in Tid /\ LocalTypes /\ yield_purpose \in [Tid -> {Timeout, Exit, Block}]
      /\ PlacedAt(s)
  BY WorkerNumbers, TypeParts DEF XInv, SchedulerFacts, ThreadTypeOK, BInv, Placed
<1>2. ASSUME NEW label, Goto(t, label)
      PROVE  /\ s # t => mpc'[s] = mpc[s]
             /\ s = t => mpc'[s] = label
  BY <1>1, <1>2, OthersStay
<1>3. CASE LockMark(t)
  <2>1. mpc[t] = "lock_mark" /\ Executing(t) /\ Goto(t, "lock_last")
    BY <1>3 DEF LockMark, At
  <2>2. thread_number > 0
    BY <2>1 DEF XInv, CallsAfterCreate, Setup
  <2>3. yield_purpose' = [yield_purpose EXCEPT ![t] = Block] /\ UNCHANGED <<run_queue, phase, ptr>>
    BY <1>3, <2>1, <2>2, CalledBy DEF LockMark, queueVars, schedVars
  <2>4. CASE s = t
    <3>1. mpc'[s] = "lock_last"
      BY <1>2, <2>1, <2>4
    <3> QED  BY <3>1 DEF PlacedAt, InLock
  <2>5. CASE s # t
    <3>1. mpc'[s] = mpc[s] /\ yield_purpose'[s] = yield_purpose[s]
      BY <1>1, <1>2, <2>1, <2>3, <2>5
    <3> QED  BY <2>3, <3>1, CalmPlaced DEF InLock
  <2> QED  BY <2>4, <2>5
<1>4. CASE LockYield(t)
  <2>1. mpc[t] = "lock_wait" /\ Executing(t) /\ Deschedule /\ Goto(t, "lock_return")
    BY <1>4 DEF LockYield, At
  <2>2. thread_number > 0
    BY <2>1 DEF XInv, CallsAfterCreate, Setup
  <2>3. (InLock(s) => InLock(s)') /\ (s # t => mpc'[s] = mpc[s])
    BY <1>2, <2>1 DEF InLock
  <2> QED  BY <2>1, <2>2, <2>3, TakenPlaced
<1>5. CASE (Tick(t) \/ Yield(t)) /\ UNCHANGED mutexVars
  <2>1. Executing(t) /\ thread_number > 0 /\ Deschedule /\ mpc' = mpc
    BY <1>5 DEF Tick, Yield, mutexVars
  <2> QED  BY <2>1, TakenPlaced DEF InLock
<1>6. CASE LockReturn(t)
  <2>1. /\ mpc[t] = "lock_return" /\ Executing(t) /\ Goto(t, "held")
        /\ UNCHANGED <<run_queue, phase, ptr, yield_purpose>>
    BY <1>6 DEF LockReturn, At, OnProcessor, Executing, Live, mlfqVars, queueVars, schedVars,
                threadVars
  <2>2. CASE s # t
    <3>1. mpc'[s] = mpc[s]
      BY <1>2, <2>1, <2>2
    <3> QED  BY <2>1, <3>1, CalmPlaced DEF InLock
  <2>3. CASE s = t
    <3>1. thread_number > 0
      BY <2>1 DEF XInv, CallsAfterCreate, Setup
    <3>2. InRunQueue(s) /\ phase = "thread"
      BY <2>1, <2>3, <3>1, CalledBy
    <3>3. InRunQueue(s)' /\ yield_purpose'[s] # Block
      BY <1>1, <2>1, <2>3, <3>2, SameRunQueue DEF PlacedAt
    <3> QED  BY <3>3 DEF PlacedAt
  <2> QED  BY <2>2, <2>3
<1>7. CASE WalkWake(t)
  <2>1. mpc[t] = "wake" /\ Goto(t, "free") /\ mptr[t] \in allocated
    BY <1>7 DEF WalkWake, At
  <2>2. PICK u \in Tid : u = node[mptr[t]].thread
    BY <2>1 DEF XInv, MutexTypeOK
  <2>3. run_queue' = add_to_run_queue(1, u) /\ UNCHANGED <<phase, ptr, yield_purpose>>
    BY <1>7, <2>2 DEF WalkWake, threadVars, schedVars
  <2>4. (InLock(s) => InLock(s)') /\ (mpc'[s] = "lock_return" => mpc[s] = "lock_return")
    BY <1>2, <2>1 DEF InLock
  <2>5. Queued(s)' => Queued(s)
    BY CreatedKept DEF Queued
  <2> QED  BY <2>3, <2>4, <2>5, AddedPlaced
<1>8. CASE \/ LockTas(t) \/ LockOwn(t) \/ LockLast(t) \/ LockAdd(t)
           \/ UnlockRelease(t) \/ UnlockTid(t) \/ UnlockList(t)
           \/ WalkSkip(t) \/ WalkUnlink(t) \/ WalkFree(t) \/ WalkDone(t)
  <2>1. UNCHANGED <<run_queue, phase, ptr, yield_purpose>>
    BY <1>8 DEF LockTas, LockOwn, LockLast, LockAdd, UnlockRelease, UnlockTid, UnlockList, WalkSkip,
                WalkUnlink, WalkFree, WalkDone, mlfqVars, queueVars, schedVars, threadVars
  <2>2. \/ mpc' = mpc
        \/ mpc[t] = "lock_last" /\ Goto(t, "lock_add")
        \/ mpc[t] = "lock_add" /\ Goto(t, "lock_wait")
        \/ /\ mpc[t] \notin {"lock_last", "lock_add", "lock_wait", "lock_return"}
           /\ \E label \in MutexPC \ {"lock_return"} : Goto(t, label)
    BY <1>8 DEF MutexPC, LockTas, LockOwn, LockLast, LockAdd, UnlockRelease, UnlockTid, UnlockList, WalkSkip,
                WalkUnlink, WalkFree, WalkDone, At
  <2>3. (InLock(s) => InLock(s)') /\ (mpc'[s] = "lock_return" => mpc[s] = "lock_return")
    BY <1>2, <2>2 DEF InLock
  <2> QED  BY <2>1, <2>3, CalmPlaced
<1>9. CASE Dangling(t) \/ ExitReturn(t)
  BY <1>9 DEF Dangling, ExitReturn, Live
<1> QED  BY <1>3, <1>4, <1>5, <1>6, <1>7, <1>8, <1>9 DEF InLibrary

LEMMA StepPlaced ==
  ASSUME XInv, BInv, [BenchNext]_<<allVars, progVars>> PROVE Placed'
<1> SUFFICES ASSUME Live', NEW s \in Workers PROVE PlacedAt(s)'
  BY DEF Placed, Workers, Tid
<1>1. /\ Live /\ s \in Tid /\ s # Main /\ LocalTypes /\ Main \in Tid
      /\ yield_purpose \in [Tid -> {Timeout, Exit, Block}]
  BY StepOfLibrary, StaysLive, WorkerNumbers, TypeParts DEF BInv, XInv, SchedulerFacts, ThreadTypeOK
<1>2. CASE MainCreate
  BY <1>2, CreatePlaced
<1>3. ASSUME ~MainCreate, MainInit \/ MainDestroy PROVE PlacedAt(s)'
  <2>1. (\E label : Goto(Main, label)) /\ UNCHANGED <<run_queue, phase, ptr, yield_purpose>>
    BY <1>3 DEF MainInit, MainDestroy, InitFlag, InitWord, InitMid, DestroyTas, DestroyFlag,
                mlfqVars, queueVars, schedVars, threadVars
  <2>2. mpc'[s] = mpc[s]
    BY <1>1, <2>1, OthersStay
  <2> QED  BY <1>1, <1>3, <2>1, <2>2, CalmPlaced DEF InLock
<1>4. ASSUME ~MainCreate, MainJoin PROVE PlacedAt(s)'
  <2>1. UNCHANGED <<run_queue, phase, ptr, mpc>>
    BY <1>4 DEF MainJoin, JoinWait, JoinReturn, JoinExited, queueVars, schedVars, mutexVars
  <2>2. yield_purpose'[s] = yield_purpose[s]
    <3>1. CASE JoinWait(Main, joined + 1)
      <4>1. Executing(Main) /\ joined + 1 < thread_number /\ joined \in Nat
        BY <3>1, WorkerNumbers DEF JoinWait, BInv, JoinsInTurn
      <4>2. thread_number > 0 /\ get_current_thread = Main
        BY <1>1, <4>1, CalledBy, Facts DEF XInv
      <4>3. yield_purpose' = [yield_purpose EXCEPT ![Main] = Block]
        BY <3>1, <4>2 DEF JoinWait
      <4> QED  BY <1>1, <4>3
    <3>2. CASE ~JoinWait(Main, joined + 1)
      BY <1>4, <3>2 DEF MainJoin, JoinReturn, JoinExited, threadVars
    <3> QED  BY <3>1, <3>2
  <2> QED  BY <1>1, <1>4, <2>1, <2>2, CalmPlaced DEF InLock
<1>5. ASSUME ~MainCreate, MainPrint \/ UNCHANGED <<allVars, progVars>> PROVE PlacedAt(s)'
  BY <1>1, <1>5, CalmPlaced DEF MainPrint, allVars, vars, queueVars, schedVars, threadVars,
                                mutexVars, InLock
<1>6. ASSUME ~MainCreate, NEW t \in Workers, WorkerStep(t) PROVE PlacedAt(s)'
  <2>1. UNCHANGED <<run_queue, phase, ptr>>
    BY <1>6 DEF WorkerStep, WorkerLock, Skip, Load, Store, AppendByte, WorkerUnlock, WorkerExit,
         LockCheck, UnlockCheck, ExitStart, allVars, vars, mlfqVars, queueVars, schedVars
  <2>2. t \in Tid
    BY WorkerNumbers
  <2>3. CASE WorkerExit(t)
    <3>1. Executing(t) /\ thread_number > 0 /\ mpc' = mpc
      BY <2>3 DEF WorkerExit, ExitStart, mutexVars
    <3>2. yield_purpose' = [yield_purpose EXCEPT ![t] = Exit]
      BY <2>2, <2>3, <3>1, CalledBy DEF WorkerExit, ExitStart
    <3>3. CASE s # t
      BY <1>1, <1>6, <2>1, <3>1, <3>2, <3>3, CalmPlaced DEF InLock
    <3>4. CASE s = t
      <4>1. yield_purpose'[s] # Block
        BY <1>1, <3>2, <3>4 DEF Exit, Block
      <4>2. Finished(s)'
        BY <1>1, <2>3, <3>4, StaysFinished DEF WorkerExit, Finished
      <4> QED  BY <4>1, <4>2 DEF PlacedAt
    <3> QED  BY <3>3, <3>4
  <2>4. CASE ~WorkerExit(t)
    <3>1. yield_purpose' = yield_purpose
      BY <1>6, <2>4 DEF WorkerStep, WorkerLock, Skip, Load, Store, AppendByte, WorkerUnlock,
           LockCheck, UnlockCheck, allVars, vars, mlfqVars, threadVars
    <3>2. \/ mpc' = mpc
          \/ /\ mpc[t] \in {"none", "held"}
             /\ \E label : label # "lock_return" /\ Goto(t, label)
      BY <1>6, <2>4 DEF WorkerStep, WorkerLock, Skip, Load, Store, AppendByte, WorkerUnlock,
           LockCheck, UnlockCheck, At, allVars, mutexVars
    <3>3. (InLock(s) => InLock(s)') /\ (mpc'[s] = "lock_return" => mpc[s] = "lock_return")
      BY <1>1, <2>2, <3>2, OthersStay DEF InLock
    <3> QED  BY <1>1, <1>6, <2>1, <3>1, <3>3, CalmPlaced
  <2> QED  BY <2>3, <2>4
<1>7. ASSUME ~MainCreate, NEW t \in Tid, InLibrary(t) PROVE PlacedAt(s)'
  BY <1>1, <1>7, InLibraryPlaced
<1>8. ASSUME ~MainCreate, SchedulerStep PROVE PlacedAt(s)'
  BY <1>8, SchedulerPlaced
<1> QED  BY <1>2, <1>3, <1>4, <1>5, <1>6, <1>7, <1>8 DEF BenchNext, WorkerStep

(* After a stall the processor stays with its thread; only a dangling pointer *)
(* ends the model there.                                                      *)
LEMMA StallOnly ==
  ASSUME [BenchNext]_<<allVars, progVars>>
  PROVE  /\ phase' = "stalled" /\ phase # "stalled" => SchedulerStep /\ Stall
         /\ phase = "stalled" =>
              cpu' = cpu /\ ~MainCreate /\ (phase' = "stalled" \/ \E t \in Tid : Dangling(t))
<1> DEFINE Goal == /\ phase' = "stalled" /\ phase # "stalled" => SchedulerStep /\ Stall
                   /\ phase = "stalled" =>
                        /\ cpu' = cpu /\ ~MainCreate
                        /\ phase' = "stalled" \/ \E t \in Tid : Dangling(t)
<1>1. ASSUME phase' = phase, cpu' = cpu, ~MainCreate PROVE Goal
  BY <1>1
<1>2. ASSUME phase = "thread", phase' # "stalled" PROVE Goal
  BY <1>2
<1>3. MainCreate => phase = "thread" /\ phase' = phase
  BY DEF MainCreate, MutexCreateFirst, OtherCreate, CreateFirst, CreateThread, CreateAdd, Executing,
         schedVars
<1>4. ASSUME MainInit \/ MainDestroy \/ MainPrint PROVE phase' = phase /\ cpu' = cpu
  BY <1>4 DEF MainInit, MainDestroy, MainPrint, InitFlag, InitWord, InitMid, DestroyTas,
              DestroyFlag, allVars, vars, mlfqVars, threadVars, schedVars
<1>5. ASSUME MainJoin PROVE phase' = phase /\ cpu' = cpu
  BY <1>5 DEF MainJoin, JoinWait, JoinReturn, JoinExited, threadVars, schedVars
<1>6. ASSUME NEW t \in Workers, WorkerStep(t) PROVE phase' = phase /\ cpu' = cpu
  BY <1>6 DEF WorkerStep, WorkerLock, Skip, Load, Store, AppendByte, WorkerUnlock, WorkerExit,
       LockCheck, UnlockCheck, ExitStart, allVars, vars, mlfqVars, threadVars, schedVars
<1>7. ASSUME NEW t \in Tid, InLibrary(t) PROVE Goal
  <2>1. CASE LockYield(t) \/ Tick(t) \/ Yield(t)
    <3>1. phase = "thread" /\ phase' = "handle"
      BY <2>1 DEF LockYield, Tick, Yield, Deschedule, Executing
    <3> QED  BY <1>2, <3>1
  <2>2. CASE Dangling(t)
    <3>1. cpu' = cpu /\ phase' # "stalled"
      BY <2>2 DEF Dangling, threadVars
    <3> QED  BY <1>3, <2>2, <3>1
  <2>3. CASE ~(LockYield(t) \/ Tick(t) \/ Yield(t) \/ Dangling(t))
    <3>1. phase' = phase /\ cpu' = cpu
      BY <1>7, <2>3 DEF InLibrary, LockTas, LockOwn, LockMark, LockLast, LockAdd, LockReturn,
           UnlockRelease, UnlockTid, UnlockList, WalkSkip, WalkUnlink, WalkWake, WalkFree, WalkDone,
           ExitReturn, mlfqVars, threadVars, schedVars
    <3> QED  BY <1>1, <1>3, <3>1
  <2> QED  BY <2>1, <2>2, <2>3
<1>8. ASSUME SchedulerStep PROVE Goal
  <2>1. CASE Stall
    BY <1>3, <1>8, <2>1 DEF Stall
  <2>2. CASE ~Stall
    <3>1. phase \in {"handle", "dispatch"} /\ phase' \in {"handle", "dispatch", "thread"}
      BY <1>8, <2>2 DEF SchedulerStep, SchedStep, HandleTimeout, HandleBlock, HandleExitWake,
           HandleExitSkip, HandleExitDone, Exits, Dispatch
    <3> QED  BY <3>1
  <2> QED  BY <2>1, <2>2
<1>9. ASSUME UNCHANGED <<allVars, progVars>> PROVE phase' = phase /\ cpu' = cpu
  BY <1>9 DEF allVars, vars, threadVars, schedVars
<1>10. Goal
  <2> HIDE DEF Goal
  <2>1. CASE MainCreate
    BY <1>2, <1>3, <2>1
  <2>2. ASSUME ~MainCreate, phase' = phase, cpu' = cpu PROVE Goal
    BY <1>1, <2>2
  <2> QED  BY <1>4, <1>5, <1>6, <1>7, <1>8, <1>9, <2>1, <2>2 DEF BenchNext, WorkerStep
<1> QED  BY <1>10

(* When it is main that goes on, the workers stay where they are.             *)
LEMMA MainGoesOn ==
  ASSUME XInv, BInv, [BenchNext]_<<allVars, progVars>>, phase = "stalled", cpu = Main
  PROVE  /\ phase' = "stalled" /\ cpu' = Main /\ ~MainCreate
         /\ \A s \in Workers : InLock(s)' <=> InLock(s)
<1>1. \A t \in Tid : ~Dangling(t)
  <2> SUFFICES ASSUME NEW t \in Tid, Dangling(t) PROVE FALSE
    OBVIOUS
  <2>1. t = Main /\ mpc[t] \in {"walk", "wake", "free", "lock_last", "lock_add"}
    BY DEF Dangling, OnProcessor, At
  <2> QED  BY <2>1 DEF BInv, MainAloof, Setup
<1>2. \A s \in Workers : mpc'[s] = mpc[s]
  BY OthersMoveNot, WorkerNumbers DEF OnProcessor
<1> QED  BY <1>1, <1>2, StallOnly DEF InLock

LEMMA StepLeftBehind ==
  ASSUME XInv, BInv, [BenchNext]_<<allVars, progVars>> PROVE LeftBehind'
<1>1. /\ LeftBehind /\ Placed /\ JoinsInTurn /\ AllCreated
      /\ \A s \in Workers : Finished(s) => Finished(s)'
  BY StaysFinished, WorkerNumbers DEF BInv
<1>2. /\ phase = "stalled" /\ cpu = Main =>
           phase' = "stalled" /\ cpu' = Main /\ \A s \in Workers : InLock(s)' <=> InLock(s)
      /\ MainPrint => ~MainCreate
  BY MainGoesOn DEF MainPrint, MainCreate, MainAt
<1>3. ASSUME phase' = "stalled", cpu' = Main, NEW s \in Workers, Queued(s)'
      PROVE  Finished(s)' \/ InLock(s)'
  <2>1. CASE phase = "stalled"
    <3>1. cpu = Main /\ ~MainCreate
      BY <1>3, <2>1, StallOnly
    <3>2. Queued(s)
      BY <1>3, <3>1, CreatedKept DEF Queued
    <3> QED  BY <1>1, <1>2, <2>1, <3>1, <3>2 DEF LeftBehind
  <2>2. CASE phase # "stalled"
    <3>1. SchedulerStep /\ Stall
      BY <1>3, <2>2, StallOnly
    <3>2. phase = "dispatch" /\ get_highest_priority = 0 /\ mpc' = mpc
      BY <3>1 DEF SchedulerStep, Stall, mutexVars
    <3>3. run_queue[1] = << >> /\ run_queue[2] = << >> /\ run_queue[3] = << >>
      <4>1. /\ run_queue[1] \in Seq(Tid) /\ run_queue[2] \in Seq(Tid)
            /\ run_queue[3] = << >> /\ priority \in [Tid -> Nat \ {0}]
        BY DEF XInv, SchedulerFacts, QueueTypeOK
      <4>2. run_queue[2] # << >> => HeadPriority(2) > 0
        BY <4>1 DEF HeadPriority
      <4> HIDE DEF HeadPriority
      <4> QED  BY <3>2, <4>1, <4>2 DEF get_highest_priority
    <3>4. ~InRunQueue(s)
      <4>1. \A k \in 1 .. 3 : Len(run_queue[k]) = 0
        BY <3>3
      <4> QED  BY <4>1 DEF InRunQueue, InQueue
    <3>5. Queued(s)
      BY <1>3, <3>1, CreatedKept DEF Queued, SchedulerStep, Stall, threadVars
    <3> QED  BY <1>1, <3>2, <3>4, <3>5 DEF Placed, PlacedAt, Live, InLock
  <2> QED  BY <2>1, <2>2
<1>4. ASSUME stage' \in {"destroy", "end"}, NEW s \in Workers
      PROVE  Finished(s)' \/ (phase' = "stalled" /\ cpu' = Main /\ InLock(s)')
  <2>1. CASE stage \in {"destroy", "end"}
    BY <1>1, <1>2, <2>1 DEF LeftBehind
  <2>2. CASE stage \notin {"destroy", "end"}
    <3>1. MainPrint
      BY <1>4, <2>2 DEF BenchNext, MainInit, MainCreate, MainJoin, MainDestroy, MainAt, WorkerLock,
           Skip, Load, Store, AppendByte, WorkerUnlock, WorkerExit, InLibrary, progVars
    <3>2. stage = "join" /\ joined = thread_num /\ OnProcessor(Main)
      BY <3>1 DEF MainPrint, MainAt
    <3>3. CASE Live
      BY <1>1, <3>2, <3>3, WorkerNumbers DEF JoinsInTurn
    <3>4. CASE ~Live
      <4>1. phase = "stalled" /\ cpu = Main
        BY <3>2, <3>4 DEF OnProcessor, Live
      <4>2. Queued(s)
        BY <1>1, <3>2, MlfqAssumption DEF AllCreated, Queued, Workers, Tid
      <4>3. Finished(s) \/ InLock(s)
        BY <1>1, <4>1, <4>2 DEF LeftBehind
      <4> QED  BY <1>1, <1>2, <4>1, <4>3
    <3> QED  BY <3>3, <3>4
  <2> QED  BY <2>1, <2>2
<1>5. Workers' = Workers
  BY DEF Workers, Tid
<1> QED  BY <1>3, <1>4, <1>5 DEF LeftBehind

---------------------------------------------------------------------------
(* The file of write_file. *)

LEMMA FileAmounts ==
  ASSUME Appends
  PROVE  /\ iterate_number \in Nat
         /\ \A t : Len(Amounts(t)) = iterate_number
         /\ Printed = sum /\ verify = thread_num * iterate_number
<1>1. iterate_number \in Nat
  BY BenchmarksAssumption
<1>2. program = "write_file"
  BY DEF Appends
<1>3. \A t : Amounts(t) = write_file(t)
  BY <1>2 DEF Amounts
<1>4. \A t : Len(write_file(t)) = iterate_number
  BY <1>1 DEF write_file
<1>5. Printed = sum /\ verify = thread_num * iterate_number
  BY <1>2 DEF Printed, verify
<1> QED  BY <1>1, <1>3, <1>4, <1>5

(* One more byte of worker t moves all the counts from t on.                  *)
LEMMA TallyGrows ==
  ASSUME NEW f, TallyOf(f), NEW t \in Workers, added \in [Tid -> Nat],
         added' = [added EXCEPT ![t] = @ + 1], sum' = sum + 1
  PROVE  \E g : TallyOf(g)'
<1>1. /\ thread_num \in Nat /\ thread_num > 0 /\ Workers = 1 .. thread_num
      /\ Workers \subseteq Tid
  BY WorkerNumbers
<1>2. PICK n \in Nat : n = thread_num
  BY <1>1
<1> DEFINE g == [k \in 0 .. n |-> IF k >= t THEN f[k] + 1 ELSE f[k]]
<1>3. /\ f \in [0 .. n -> Nat] /\ f[0] = 0 /\ sum = f[n]
      /\ \A k \in 1 .. n : f[k] = f[k - 1] + added[k]
  BY <1>1, <1>2 DEF TallyOf
<1>4. g \in [0 .. n -> Nat] /\ g[0] = 0
  BY <1>1, <1>2, <1>3
<1>5. ASSUME NEW k \in 1 .. n PROVE g[k] = g[k - 1] + added'[k]
  <2>1. k \in 0 .. n /\ k - 1 \in 0 .. n /\ k \in Tid /\ added[k] \in Nat
        /\ f[k] \in Nat /\ f[k - 1] \in Nat
    BY <1>1, <1>2, <1>3
  <2>2. added'[k] = IF k = t THEN added[k] + 1 ELSE added[k]
    BY <2>1
  <2>3. f[k] = f[k - 1] + added[k]
    BY <1>3
  <2>4. /\ g[k] = IF k >= t THEN f[k] + 1 ELSE f[k]
        /\ g[k - 1] = IF k - 1 >= t THEN f[k - 1] + 1 ELSE f[k - 1]
    BY <2>1
  <2>5. t \in Nat /\ k \in Nat
    BY <1>1, <1>2
  <2> HIDE DEF g
  <2>6. CASE k < t
    BY <2>1, <2>2, <2>3, <2>4, <2>5, <2>6
  <2>7. CASE k = t
    BY <2>1, <2>2, <2>3, <2>4, <2>5, <2>7
  <2>8. CASE k > t
    BY <2>1, <2>2, <2>3, <2>4, <2>5, <2>8
  <2> QED  BY <2>5, <2>6, <2>7, <2>8
<1>6. sum' = g[n]
  <2>1. n >= t /\ n \in 0 .. n
    BY <1>1, <1>2
  <2> QED  BY <1>3, <2>1
<1>7. TallyOf(g)'
  <2> HIDE DEF g
  <2>1. thread_num' = thread_num /\ Workers' = Workers
    BY DEF thread_num, Workers, Tid
  <2> QED  BY <1>1, <1>2, <1>4, <1>5, <1>6, <2>1 DEF TallyOf
<1> HIDE DEF g
<1> QED  BY <1>7

(* When each worker has added n, the file is that many times as long.         *)
LEMMA TallyFull ==
  ASSUME NEW f, TallyOf(f), NEW n \in Nat, \A k \in Workers : added[k] = n
  PROVE  sum = thread_num * n
<1>1. thread_num \in Nat /\ thread_num > 0 /\ Workers = 1 .. thread_num
  BY WorkerNumbers
<1>2. PICK m \in Nat : m = thread_num
  BY <1>1
<1>3. /\ f \in [0 .. m -> Nat] /\ f[0] = 0 /\ sum = f[m]
      /\ \A k \in 1 .. m : f[k] = f[k - 1] + n
  BY <1>1, <1>2 DEF TallyOf
<1> DEFINE Bad == {k \in 0 .. m : f[k] # k * n}
<1>4. ASSUME Bad # {} PROVE FALSE
  <2>1. Bad \in SUBSET Nat
    OBVIOUS
  <2>2. PICK x \in Bad : \A y \in Bad : x <= y
    <3> HIDE DEF Bad
    <3> QED  BY <1>4, <2>1, LeastNumber
  <2>3. x \in 0 .. m /\ f[x] # x * n
    BY <2>2
  <2>4. x # 0
    BY <1>3, <2>3
  <2>5. x \in 1 .. m /\ x - 1 \in 0 .. m /\ x - 1 \notin Bad
    BY <2>2, <2>3, <2>4
  <2>6. f[x - 1] = (x - 1) * n
    BY <2>5
  <2>7. f[x] = (x - 1) * n + n
    BY <1>3, <2>5, <2>6
  <2>8. (x - 1) * n + n = x * n
    BY <2>3
  <2> QED  BY <2>3, <2>7, <2>8
<1>5. f[m] = m * n
  BY <1>4
<1> QED  BY <1>2, <1>3, <1>5

(* Counting the file through a step.                                          *)
LEMMA StepFile ==
  ASSUME XInv, BInv, [BenchNext]_<<allVars, progVars>> PROVE FileCounted'
<1>1. /\ FileCounted /\ added \in [Tid -> Nat] /\ JoinsInTurn
      /\ wpc \in [Tid -> {"lock", "load", "store", "unlock"}]
      /\ phase = "stalled" /\ cpu = Main => phase' = "stalled" /\ cpu' = Main
  BY MainGoesOn DEF BInv
<1> DEFINE Same == /\ UNCHANGED <<program, sum, added, printed>>
                   /\ \A t \in Tid : wpc'[t] = "store" => wpc[t] = "store"
                   /\ stage' \in {"destroy", "end"} => stage \in {"destroy", "end"}
<1>2. ASSUME Same PROVE FileCounted'
  <2>1. \A f : TallyOf(f)' <=> TallyOf(f)
    BY <1>2 DEF TallyOf, Workers, Tid, thread_num
  <2>2. (Appends' <=> Appends) /\ (Appends => verify' = verify)
    BY <1>2, SameAmounts DEF Appends, verify, thread_num
  <2> QED  BY <1>1, <1>2, <2>1, <2>2 DEF FileCounted
<1>3. ASSUME MainInit \/ MainCreate \/ MainJoin \/ MainDestroy PROVE Same
  BY <1>3 DEF MainInit, MainCreate, MainJoin, MainDestroy, MainAt
<1>4. ASSUME MainPrint PROVE FileCounted'
  <2>1. /\ stage' = "destroy" /\ joined = thread_num /\ printed' = Printed
        /\ UNCHANGED <<program, sum, added, wpc>> /\ OnProcessor(Main)
    BY <1>4 DEF MainPrint, MainAt
  <2>2. (Appends' <=> Appends) /\ (Appends => verify' = verify)
    BY <2>1 DEF Appends, verify, thread_num
  <2>3. \A f : TallyOf(f)' <=> TallyOf(f)
    BY <2>1 DEF TallyOf, Workers, Tid, thread_num
  <2>4. Appends => Printed = verify \/ (phase' = "stalled" /\ cpu' = Main)
    <3> SUFFICES ASSUME Appends, ~(phase' = "stalled" /\ cpu' = Main) PROVE Printed = verify
      OBVIOUS
    <3>1. PICK f : TallyOf(f)
      BY <1>1 DEF FileCounted
    <3>2. Live
      BY <1>1, <2>1 DEF OnProcessor, Live
    <3>3. \A t \in Workers : added[t] = iterate_number
      BY <1>1, <2>1, <3>2, FileAmounts, WorkerNumbers DEF JoinsInTurn, Finished
    <3> QED  BY <3>1, <3>3, FileAmounts, TallyFull
  <2> QED  BY <1>1, <2>1, <2>2, <2>3, <2>4 DEF FileCounted
<1>5. ASSUME NEW t \in Workers, AppendByte(t) PROVE FileCounted'
  <2>1. /\ t \in Tid /\ Appends /\ added' = [added EXCEPT ![t] = @ + 1] /\ sum' = sum + 1
        /\ wpc' = [wpc EXCEPT ![t] = "unlock"] /\ UNCHANGED <<program, stage, printed>>
    BY <1>5, WorkerNumbers DEF AppendByte
  <2>2. Appends' /\ verify' = verify
    BY <2>1 DEF Appends, verify, thread_num
  <2>3. \E f : TallyOf(f)'
    BY <1>1, <2>1, TallyGrows DEF FileCounted
  <2>4. \A s \in Tid : wpc'[s] # "store"
    BY <1>1, <2>1 DEF FileCounted
  <2> QED  BY <1>1, <2>1, <2>2, <2>3, <2>4 DEF FileCounted
<1>6. ASSUME NEW t \in Workers, Skip(t) \/ Load(t) \/ Store(t) PROVE FileCounted'
  <2>1. ~Appends /\ program' = program
    BY <1>1, <1>6, WorkerNumbers DEF Skip, Skips, Load, Store, Holding, FileCounted, Appends
  <2> QED  BY <2>1, SameAmounts DEF FileCounted
<1>7. ASSUME NEW t \in Workers, WorkerLock(t) \/ WorkerUnlock(t) PROVE Same
  <2>1. /\ UNCHANGED <<program, sum, added, printed, stage>>
        /\ \E label \in {"load", "lock"} : wpc' = [wpc EXCEPT ![t] = label]
    BY <1>7 DEF WorkerLock, WorkerUnlock
  <2> QED  BY <1>1, <2>1
<1>8. ASSUME UNCHANGED progVars PROVE Same
  BY <1>8 DEF progVars
<1>9. ASSUME NEW t \in Workers, WorkerExit(t) PROVE Same
  BY <1>8, <1>9 DEF WorkerExit
<1>10. ASSUME NEW t \in Tid, InLibrary(t) PROVE Same
  BY <1>8, <1>10 DEF InLibrary
<1> HIDE DEF Same
<1> QED  BY <1>2, <1>3, <1>4, <1>5, <1>6, <1>7, <1>8, <1>9, <1>10 DEF BenchNext

LEMMA StepTypes ==
  ASSUME BInv, [BenchNext]_<<allVars, progVars>>
  PROVE  /\ added' \in [Tid -> Nat]
         /\ wpc' \in [Tid -> {"lock", "load", "store", "unlock"}]
<1>1. added \in [Tid -> Nat] /\ wpc \in [Tid -> {"lock", "load", "store", "unlock"}]
  BY DEF BInv
<1>2. \/ UNCHANGED added
      \/ \E t \in Workers : added' = [added EXCEPT ![t] = @ + 1]
  BY DEF BenchNext, MainInit, MainCreate, MainJoin, MainPrint, MainDestroy, WorkerLock, Skip, Load,
         Store, AppendByte, WorkerUnlock, WorkerExit, InLibrary, progVars
<1>3. \/ UNCHANGED wpc
      \/ \E t \in Workers, label \in {"lock", "load", "store", "unlock"} :
           wpc' = [wpc EXCEPT ![t] = label]
  BY DEF BenchNext, MainInit, MainCreate, MainJoin, MainPrint, MainDestroy, WorkerLock, Skip, Load,
         Store, AppendByte, WorkerUnlock, WorkerExit, InLibrary, progVars
<1> QED  BY <1>1, <1>2, <1>3, WorkerNumbers

LEMMA StepKeepsB ==
  ASSUME XInv, BInv, [BenchNext]_<<allVars, progVars>> PROVE BInv'
BY StepTypes, StepApart, StepLeavers, StepAloof, StepMainSingle, StepTurn, StepCreated, StepPlaced,
   StepLeftBehind, StepFile DEF BInv

LEMMA InitB == ASSUME BenchInit PROVE BInv
<1>1. /\ MutexInit /\ sum = 0 /\ added = [t \in Tid |-> 0] /\ wpc = [t \in Tid |-> "lock"]
      /\ stage = "init" /\ joined = 0
  BY DEF BenchInit
<1>2. /\ \A t \in Tid : mpc[t] = "none" /\ pc[t] = "user" /\ yield_purpose[t] = Timeout
      /\ allocated = {} /\ Len(join_waiting_queue) = 0 /\ exit_thread_list = {}
      /\ phase = "thread" /\ (\A k \in 1 .. 3 : Len(run_queue[k]) = 0) /\ thread_number = 0
  BY <1>1 DEF MutexInit, Init
<1>3. Main \in Tid /\ thread_num \in Nat /\ Workers \subseteq Tid /\ Workers = 1 .. thread_num
  BY WorkerNumbers
<1>4. CallsApart /\ MainAloof
  BY <1>2, <1>3 DEF CallsApart, MainAloof
<1>5. MainSingle
  BY <1>2, <1>3 DEF MainSingle, MainOnce, Releases, OnceQueued, OnceWaiting, Waiting, InLock
<1>6. LeaversDone
  BY <1>2 DEF LeaversDone, Timeout, Exit
<1>7. JoinsInTurn
  BY <1>1, <1>2, <1>3 DEF JoinsInTurn, InJoin
<1>8. FileCounted
  <2>1. TallyOf([k \in 0 .. thread_num |-> 0])
    BY <1>1, <1>3 DEF TallyOf
  <2> QED  BY <1>1, <2>1 DEF FileCounted
<1>9. AllCreated /\ LeftBehind
  BY <1>1, <1>2 DEF AllCreated, LeftBehind
<1>10. Placed
  BY <1>2, <1>3 DEF Placed, PlacedAt, Queued, Timeout, Block
<1> QED  BY <1>1, <1>4, <1>5, <1>6, <1>7, <1>8, <1>9, <1>10 DEF BInv

LEMMA ProgramInvariant == BenchSpec => [](XInv /\ BInv)
<1>1. BenchInit => XInv /\ BInv
  BY InitB, InitTypes, MutexInitFacts DEF BenchInit, XInv
<1>2. XInv /\ BInv /\ [BenchNext]_<<allVars, progVars>> => (XInv /\ BInv)'
  BY StepKeepsB, StepOfLibrary, StepKeepsX DEF BInv
<1> QED  BY <1>1, <1>2, PTL DEF BenchSpec
---------------------------------------------------------------------------

(* The programs keep to what Mutex lets a program do: whatever holds of every *)
(* MutexSpec holds of them.                                                   *)
THEOREM ProgramsUseTheLibrary == BenchSpec => MutexSpec
<1>1. BenchInit => MutexInit
  BY DEF BenchInit
<1>2. BInv /\ [BenchNext]_<<allVars, progVars>> => [MutexNext]_allVars
  BY StepOfLibrary DEF BInv
<1> QED  BY <1>1, <1>2, ProgramInvariant, PTL DEF BenchSpec, MutexSpec

(* When main has returned from its last join and reads the sum, each worker   *)
(* has added all of its amounts, for any number of workers and rounds and     *)
(* although mypthread_mutex_unlock may wake a worker twice or not at all; or  *)
(* else no thread was ready any more in one of main's joins, and each worker  *)
(* that is not done is lost in its call of mypthread_mutex_lock.              *)
THEOREM EveryWorkerIsDone == BenchSpec => []WorkersDone
<1>1. BInv => WorkersDone
  BY DEF BInv, LeftBehind, WorkersDone, Finished
<1> QED  BY <1>1, ProgramInvariant, PTL

(* The file of write_file has the length that verify() expects, unless no     *)
(* thread was ready any more in one of main's joins: an addition that is one  *)
(* system call is not lost, whatever the lock lets happen.                    *)
THEOREM AppendsAreCounted == BenchSpec => []AppendsCounted
<1>1. BInv => AppendsCounted
  BY DEF BInv, FileCounted, AppendsCounted
<1> QED  BY <1>1, ProgramInvariant, PTL

(* The mutexes of a program have one winner at a time, although its workers   *)
(* do not all get in through the test-and-set: its main takes none, and it    *)
(* initialises its mutex before it creates the first of them.                 *)
THEOREM ProgramsExclude ==
  ASSUME EarlyUse = {} PROVE BenchSpec => []TasExclusive
<1>1. BInv => mpc[Main] \in Setup \cup {"none"}
  BY DEF BInv, MainAloof
<1> QED  BY <1>1, ProgramInvariant, ProgramsUseTheLibrary, ExcludesWithoutMain, PTL
=============================================================================
