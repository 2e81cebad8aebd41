----------------------------- MODULE Benchmarks -----------------------------
(***************************************************************************)
(* The programs of the repository that add up under a mutex, over the      *)
(* library of Mutex: main initialises the mutex, creates thread_num        *)
(* workers, joins them in turn, reads the sum and destroys the mutex; each *)
(* worker takes its amounts one by one, adds each under the lock, and      *)
(* calls pthread_exit.  The programs differ in the amounts, in how one is  *)
(* added, and in the sum that verify() computes without threads.           *)
(***************************************************************************)
EXTENDS Mutex
LOCAL INSTANCE SequencesExt

CONSTANTS
  Programs,     \* the programs to run
  mutex,        \* their mutex
  C_SIZE, R_SIZE, VECTOR_SIZE,  \* the extents of their arrays
  iteration_time, iterate_number,  \* the rounds of muti_cal and write_file
  Records,      \* the numbers in each of external_cal's files
  Comparisons   \* whether counter[0][i] < counter[1][i] in mypthread_CAS

ASSUME BenchmarksAssumption == mutex \in Mutexes /\ iterate_number \in Nat

AllPrograms == {"muti_cal", "parallel_cal", "external_cal", "vector_multiply",
                "mypthread_CAS", "write_file"}

VARIABLES
  program,  \* which program runs
  sum,      \* its sum or res, or the length of write_file's file
  value,    \* what a thread has read of it to add to
  added,    \* the amounts a thread has added
  wpc,      \* where a worker is between lock and unlock
  stage,    \* where main is
  joined,   \* the workers that main has joined
  printed   \* the sum that main has read after the joins

progVars == <<program, sum, value, added, wpc, stage, joined, printed>>

thread_num == MaxThreads - 1
Workers == Tid \ {Main}

Sum(s) == FoldLeft(LAMBDA x, y : x + y, 0, s)

---------------------------------------------------------------------------
(* The amounts of worker t, whose argument is t - 1, and verify()'s result.   *)

(* for (j = n; j < size; j += thread_num) *)
Strided(t, size) == SelectSeq([i \in 1 .. size |-> i - 1],
                              LAMBDA j : j % thread_num = t - 1)

Each(indices, amount) == [i \in 1 .. Len(indices) |-> amount[indices[i]]]

accumulator(t) == [k \in 1 .. 2 * iteration_time |-> IF k <= iteration_time THEN 1 ELSE -1]

(* pSum[j], with a[j][i] = i. *)
pSum == [j \in 0 .. R_SIZE - 1 |-> Sum([i \in 1 .. C_SIZE |-> (i - 1) * (i - 1)])]

parallel_calculate(t) == Each(Strided(t, R_SIZE), pSum)

external_calculate(t) ==
  FlattenSeq(Each(Strided(t, Len(Records)), [k \in 0 .. Len(Records) - 1 |-> Records[k + 1]]))

(* r[i] = s[i] = i *)
vector_multiply(t) == Each(Strided(t, VECTOR_SIZE), [i \in 0 .. VECTOR_SIZE - 1 |-> i * i])

cas(t) == [i \in 1 .. Len(Comparisons) |-> IF Comparisons[i] THEN 1 ELSE 0]

write_file(t) == [i \in 1 .. iterate_number |-> 1]

Amounts(t) ==
  CASE program = "muti_cal" -> accumulator(t)
    [] program = "parallel_cal" -> parallel_calculate(t)
    [] program = "external_cal" -> external_calculate(t)
    [] program = "vector_multiply" -> vector_multiply(t)
    [] program = "mypthread_CAS" -> cas(t)
    [] program = "write_file" -> write_file(t)

verify ==
  CASE program = "muti_cal" -> 0
    [] program = "parallel_cal" -> Sum([j \in 1 .. R_SIZE |-> pSum[j - 1]])
    [] program = "external_cal" -> Sum(FlattenSeq(Records))
    [] program = "vector_multiply" -> Sum([i \in 1 .. VECTOR_SIZE |-> (i - 1) * (i - 1)])
    [] program = "mypthread_CAS" -> Sum(cas(1))
    [] program = "write_file" -> thread_num * iterate_number

(* mypthread_CAS has every worker count all and prints res / 2. *)
Printed == IF program = "mypthread_CAS" THEN sum \div 2 ELSE sum

(* The file is opened for appending: one write() adds one byte at its end.    *)
Appends == program = "write_file"

---------------------------------------------------------------------------

BenchInit ==
  /\ MutexInit
  /\ program \in Programs
  /\ sum = 0
  /\ value = [t \in Tid |-> 0]
  /\ added = [t \in Tid |-> 0]
  /\ wpc = [t \in Tid |-> "lock"]
  /\ stage = "init"
  /\ joined = 0
  /\ printed = 0

---------------------------------------------------------------------------
(* main() *)

(* Main goes on after a stall of the scheduler, too.                          *)
MainAt(name) == stage = name /\ OnProcessor(Main)

MainInit ==
  /\ MainAt("init")
  /\ InitFlag(mutex) \/ InitWord \/ InitMid
  /\ stage' = IF mpc'[Main] = "none" THEN "create" ELSE "init"
  /\ UNCHANGED <<program, sum, value, added, wpc, joined, printed>>

MainCreate ==
  /\ MainAt("create")
  /\ MutexCreateFirst \/ OtherCreate
  /\ stage' = IF thread_number = MaxThreads /\ pc'[Main] = "user" THEN "join" ELSE "create"
  /\ UNCHANGED <<program, sum, value, added, wpc, joined, printed>>

(* pthread_join(thread[joined], NULL) *)
MainJoin ==
  /\ MainAt("join") /\ joined < thread_num
  /\ \/ JoinWait(Main, joined + 1) /\ slot'[Main] = NoSlot /\ UNCHANGED joined
     \/ JoinReturn(Main) /\ joined' = joined + 1
     \/ JoinExited(Main, joined + 1) /\ slot'[Main] = NoSlot /\ joined' = joined + 1
  /\ UNCHANGED <<mutexVars, program, sum, value, added, wpc, stage, printed>>

MainPrint ==
  /\ MainAt("join") /\ joined = thread_num
  /\ printed' = Printed
  /\ stage' = "destroy"
  /\ UNCHANGED <<allVars, program, sum, value, added, wpc, joined>>

MainDestroy ==
  /\ MainAt("destroy")
  /\ DestroyTas(mutex) \/ DestroyFlag
  /\ stage' = IF mpc'[Main] = "none" THEN "end" ELSE "destroy"
  /\ UNCHANGED <<program, sum, value, added, wpc, joined, printed>>

---------------------------------------------------------------------------
(* The workers. *)

Holding(t, name) == At(t, "held") /\ wpc[t] = name

WorkerLock(t) ==
  /\ wpc[t] = "lock" /\ added[t] < Len(Amounts(t))
  /\ LockCheck(t, mutex)
  /\ wpc' = [wpc EXCEPT ![t] = "load"]
  /\ UNCHANGED <<program, sum, value, added, stage, joined, printed>>

(* mypthread_CAS adds only if its comparison holds.                           *)
Skips(t) == program = "mypthread_CAS" /\ Amounts(t)[added[t] + 1] = 0

Skip(t) ==
  /\ Holding(t, "load") /\ Skips(t)
  /\ added' = [added EXCEPT ![t] = @ + 1]
  /\ wpc' = [wpc EXCEPT ![t] = "unlock"]
  /\ UNCHANGED <<allVars, program, sum, value, stage, joined, printed>>

Load(t) ==
  /\ Holding(t, "load") /\ ~Appends /\ ~Skips(t)
  /\ value' = [value EXCEPT ![t] = sum]
  /\ wpc' = [wpc EXCEPT ![t] = "store"]
  /\ UNCHANGED <<allVars, program, sum, added, stage, joined, printed>>

Store(t) ==
  /\ Holding(t, "store")
  /\ added' = [added EXCEPT ![t] = @ + 1]
  /\ sum' = value[t] + Amounts(t)[added'[t]]
  /\ wpc' = [wpc EXCEPT ![t] = "unlock"]
  /\ UNCHANGED <<allVars, program, value, stage, joined, printed>>

(* The file is not opened for appending: a thread writes behind its own byte. *)
AppendByte_Overwrites(t) ==
  /\ Holding(t, "load") /\ Appends
  /\ added' = [added EXCEPT ![t] = @ + 1]
  /\ sum' = IF added'[t] > sum THEN added'[t] ELSE sum
  /\ wpc' = [wpc EXCEPT ![t] = "unlock"]
  /\ UNCHANGED <<allVars, program, value, stage, joined, printed>>

AppendByte(t) ==
  /\ Holding(t, "load") /\ Appends
  /\ added' = [added EXCEPT ![t] = @ + 1]
  /\ sum' = sum + 1
  /\ wpc' = [wpc EXCEPT ![t] = "unlock"]
  /\ UNCHANGED <<allVars, program, value, stage, joined, printed>>

WorkerUnlock(t) ==
  /\ Holding(t, "unlock") /\ UnlockCheck(t)
  /\ wpc' = [wpc EXCEPT ![t] = "lock"]
  /\ UNCHANGED <<program, sum, value, added, stage, joined, printed>>

WorkerExit(t) ==
  /\ t # Main /\ mpc[t] = "none" /\ wpc[t] = "lock" /\ added[t] = Len(Amounts(t))
  /\ ExitStart(t)
  /\ UNCHANGED <<mutexVars, progVars>>

(* The rest of lock and unlock, and of join and exit; the signal.  A worker   *)
(* that a double wake-up has left in a run queue when it exits is freed there *)
(* and may be dispatched: what happens then is undefined, and the model ends. *)
InLibrary(t) ==
  /\ \/ LockTas(t) \/ LockOwn(t) \/ LockMark(t) \/ LockLast(t) \/ LockAdd(t)
     \/ LockYield(t) \/ LockReturn(t) \/ UnlockRelease(t) \/ UnlockTid(t) \/ UnlockList(t)
     \/ WalkSkip(t) \/ WalkUnlink(t) \/ WalkWake(t) \/ WalkFree(t) \/ WalkDone(t)
     \/ Dangling(t)
     \/ pc[t] \in {"join_yield", "exit_yield"} /\ Yield(t) /\ UNCHANGED mutexVars
     \/ ExitReturn(t) /\ UNCHANGED mutexVars
     \/ pc[t] # "exited" /\ Tick(t) /\ UNCHANGED mutexVars
  /\ UNCHANGED progVars

---------------------------------------------------------------------------

BenchNext ==
  \/ MainInit \/ MainCreate \/ MainJoin \/ MainPrint \/ MainDestroy
  \/ \E t \in Workers : \/ WorkerLock(t) \/ Skip(t) \/ Load(t) \/ Store(t)
                        \/ AppendByte(t) \/ WorkerUnlock(t) \/ WorkerExit(t)
  \/ \E t \in Tid : InLibrary(t)
  \/ SchedulerStep /\ UNCHANGED progVars

BenchSpec == BenchInit /\ [][BenchNext]_<<allVars, progVars>>

---------------------------------------------------------------------------
(* Properties. *)

(* Main joins the workers in turn: when it reads the sum each worker has      *)
(* added all of its amounts, even if the mutex has woken one twice.  The      *)
(* exception is a worker that is lost in a call of lock: main's join for it   *)
(* returns at once when no other thread is ready.                             *)
WorkersDone ==
  stage \in {"destroy", "end"} =>
    \A t \in Workers :
      \/ added[t] = Len(Amounts(t))
      \/ phase = "stalled" /\ InLock(t)

(* An addition that is one system call does not need the mutex: the length of *)
(* the file is what verify() expects, with the same exception.                *)
AppendsCounted ==
  stage \in {"destroy", "end"} /\ Appends /\ phase # "stalled" => printed = verify

(* benchmarks/README:31: "For each benchmark, you would see the calculated    *)
(* sum and the verified sum to be the same."  Here it is only asked of        *)
(* executions in which main's joins have waited for every worker.             *)
SumIsVerified ==
  stage \in {"destroy", "end"} /\ phase # "stalled" => printed = verify
=============================================================================
