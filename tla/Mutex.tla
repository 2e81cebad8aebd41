------------------------------- MODULE Mutex -------------------------------
(***************************************************************************)
(* The mutexes of mypthread.c over the threads and the scheduler of Mlfq.  *)
(*                                                                         *)
(* mypthread_mutex_lock and _unlock do not hold the queue lock, so the     *)
(* timer signal can come between any two of their statements, nor do init  *)
(* and destroy, which main calls here: an action is one statement that     *)
(* touches shared state.  After a stall of the scheduler a thread goes on  *)
(* to its first statement that asks for the current thread (see Mlfq).     *)
(* All mutexes share one linked list of waiting nodes; it is modelled with *)
(* its nodes and their next pointers, because two unlocking threads may    *)
(* walk it at a time.                                                      *)
(* A thread uses one mutex at a time, as in the programs here.             *)
(*                                                                         *)
(* As in Mlfq, a definition named X_Word before X is a mutant of X.        *)
(***************************************************************************)
EXTENDS Mlfq, FiniteSets

CONSTANTS
  Mutexes,    \* the mutexes of the program
  EarlyInit,  \* those it may initialise before the first mypthread_create
  EarlyUse,   \* those that are locked while main is still in mutex_init
  NoMutex,    \* a thread is not between lock and unlock
  MaxMid,     \* bound on mutex_id
  MaxLocks,   \* bound on the calls of lock that the threads make together
  MaxNodes    \* bound on the waiting nodes that are allocated or pointed to

NodeId == 1 .. MaxNodes
Null == 0

ASSUME MutexAssumption ==
  /\ MaxNodes \in Nat /\ MaxMid \in Nat /\ MaxLocks \in Nat
  /\ EarlyInit \subseteq Mutexes /\ EarlyUse \subseteq Mutexes
  /\ NoMutex \notin Mutexes

VARIABLES
  initialized,          \* mutex->initialized
  mutex_lock,           \* mutex->mutex_lock
  mutex_tid,            \* mutex->tid, -1 when it is nobody's
  mid,                  \* mutex->mid
  mutex_id,             \* the next mid
  mutex_waiting_queue,  \* scheduler->mutex_waiting_queue
  node,                 \* the waiting nodes
  allocated,            \* those not freed
  mpc,                  \* where each thread is in the mutex calls
  marg,                 \* the mutex of that call, or that it has locked
  mptr,                 \* its wait_node in lock, its ptr in unlock
  mpre,                 \* its pre in unlock
  acquired,             \* ghost: the threads whose test-and-set succeeded
  locks                 \* ghost: the calls of lock so far

fieldVars == <<initialized, mutex_tid, mid, mutex_id>>
listVars == <<mutex_waiting_queue, node, allocated>>
lockVars == <<mutex_lock, acquired, locks>>
localVars == <<marg, mptr, mpre>>
mutexVars == <<fieldVars, listVars, lockVars, localVars, mpc>>
mlfqVars == <<queueVars, threadVars, joinVars, schedVars, pc>>
allVars == <<vars, mutexVars>>

(* The mutexes of the programs are static: all their fields start as 0.       *)
MutexInit ==
  /\ Init
  /\ initialized = [m \in Mutexes |-> FALSE]
  /\ mutex_lock = [m \in Mutexes |-> 0]
  /\ mutex_tid = [m \in Mutexes |-> 0]
  /\ mid = [m \in Mutexes |-> 0]
  /\ mutex_id = 0
  /\ mutex_waiting_queue = Null
  /\ node = [n \in NodeId |-> [thread |-> Main, mutex_lock |-> 0, next |-> Null]]
  /\ allocated = {}
  /\ mpc = [t \in Tid |-> "none"]
  /\ marg = [t \in Tid |-> NoMutex]
  /\ mptr = [t \in Tid |-> Null]
  /\ mpre = [t \in Tid |-> Null]
  /\ acquired = [m \in Mutexes |-> {}]
  /\ locks = 0

At(t, label) == OnProcessor(t) /\ mpc[t] = label

Goto(t, label) == mpc' = [mpc EXCEPT ![t] = label]

---------------------------------------------------------------------------
(* The waiting list. *)

(* A block that malloc can return: any block will do that no pointer names,   *)
(* for a pointer to a freed block is never followed (see Dangling).           *)
Unused(n) ==
  /\ n \notin allocated /\ n # mutex_waiting_queue
  /\ \A a \in allocated : node[a].next # n
  /\ \A t \in Tid : mptr[t] # n /\ mpre[t] # n

(* Where following next n times from the head leads to. *)
Nth[n \in 0 .. MaxNodes] ==
  IF n = 0 THEN mutex_waiting_queue
  ELSE IF Nth[n - 1] = Null THEN Null ELSE node[Nth[n - 1]].next

Listed == {Nth[n] : n \in 0 .. MaxNodes} \ {Null}

---------------------------------------------------------------------------
(* init, lock and destroy. *)

(* The flag, ...                                                              *)
InitFlag(m) ==
  /\ At(Main, "none") /\ pc[Main] = "user"
  /\ ~initialized[m] /\ mutex_id < MaxMid
  /\ thread_number > 0 \/ m \in EarlyInit
  /\ initialized' = [initialized EXCEPT ![m] = TRUE]
  /\ marg' = [marg EXCEPT ![Main] = m]
  /\ Goto(Main, "init_word")
  /\ UNCHANGED <<mlfqVars, mutex_tid, mid, mutex_id, listVars, lockVars, mptr, mpre>>

(* ... the lock word, ...                                                     *)
InitWord ==
  /\ At(Main, "init_word")
  /\ mutex_lock' = [mutex_lock EXCEPT ![marg[Main]] = 0]
  /\ Goto(Main, "init_mid")
  /\ UNCHANGED <<mlfqVars, fieldVars, listVars, acquired, locks, localVars>>

(* ... and the mid, from a counter that no other call uses.                   *)
InitMid ==
  /\ At(Main, "init_mid")
  /\ mid' = [mid EXCEPT ![marg[Main]] = mutex_id]
  /\ mutex_id' = mutex_id + 1
  /\ marg' = [marg EXCEPT ![Main] = NoMutex]
  /\ Goto(Main, "none")
  /\ UNCHANGED <<mlfqVars, initialized, mutex_tid, listVars, lockVars, mptr, mpre>>

(* mypthread_mutex_destroy spins until its test-and-set succeeds, ...         *)
DestroyTas(m) ==
  /\ At(Main, "none") /\ pc[Main] = "user"
  /\ initialized[m] /\ mutex_lock[m] = 0
  /\ mutex_lock' = [mutex_lock EXCEPT ![m] = 1]
  /\ marg' = [marg EXCEPT ![Main] = m]
  /\ Goto(Main, "destroy_flag")
  /\ UNCHANGED <<mlfqVars, fieldVars, listVars, acquired, locks, mptr, mpre>>

(* ... and then clears the flag.                                              *)
DestroyFlag ==
  /\ At(Main, "destroy_flag")
  /\ initialized' = [initialized EXCEPT ![marg[Main]] = FALSE]
  /\ marg' = [marg EXCEPT ![Main] = NoMutex]
  /\ Goto(Main, "none")
  /\ UNCHANGED <<mlfqVars, mutex_tid, mid, mutex_id, listVars, lockVars, mptr, mpre>>

InInit(m) == marg[Main] = m /\ mpc[Main] \in {"init_word", "init_mid"}

(* Nobody looks at the flag: mutex->initialized is not tested.                *)
LockCheck_Unchecked(t, m) ==
  /\ At(t, "none") /\ pc[t] = "user" /\ thread_number > 0
  /\ InInit(m) => m \in EarlyUse
  /\ locks < MaxLocks /\ locks' = locks + 1
  /\ marg' = [marg EXCEPT ![t] = m]
  /\ Goto(t, "lock_tas")
  /\ UNCHANGED <<mlfqVars, fieldVars, listVars, mutex_lock, acquired, mptr, mpre>>

(* lock returns at once when the flag is not set.                             *)
LockCheck(t, m) ==
  /\ At(t, "none") /\ pc[t] = "user" /\ thread_number > 0
  /\ initialized[m] /\ (InInit(m) => m \in EarlyUse)
  /\ locks < MaxLocks /\ locks' = locks + 1
  /\ marg' = [marg EXCEPT ![t] = m]
  /\ Goto(t, "lock_tas")
  /\ UNCHANGED <<mlfqVars, fieldVars, listVars, mutex_lock, acquired, mptr, mpre>>

(* The test-and-set: the mutex is acquired, or the thread will wait.          *)
LockTas(t) ==
  /\ At(t, "lock_tas")
  /\ mutex_lock' = [mutex_lock EXCEPT ![marg[t]] = 1]
  /\ \/ mutex_lock[marg[t]] = 0
        /\ acquired' = [acquired EXCEPT ![marg[t]] = @ \cup {t}]
        /\ Goto(t, "lock_own")
     \/ mutex_lock[marg[t]] = 1 /\ Goto(t, "lock_mark") /\ UNCHANGED acquired
  /\ UNCHANGED <<mlfqVars, fieldVars, listVars, locks, localVars>>

LockOwn(t) ==
  /\ At(t, "lock_own") /\ Executing(t)
  /\ mutex_tid' = [mutex_tid EXCEPT ![marg[t]] = get_current_thread]
  /\ Goto(t, "held")
  /\ UNCHANGED <<mlfqVars, initialized, mid, mutex_id, listVars, lockVars, localVars>>

(* A waiting node is made and the thread is marked as blocked; it is still    *)
(* running and not in the list.                                               *)
LockMark(t) ==
  /\ At(t, "lock_mark") /\ Executing(t)
  /\ \E n \in NodeId :
       /\ Unused(n) /\ \A i \in 1 .. n - 1 : ~Unused(i)
       /\ node' = [node EXCEPT ![n] = [thread |-> get_current_thread,
                                       mutex_lock |-> mid[marg[t]], next |-> Null]]
       /\ allocated' = allocated \cup {n}
       /\ mptr' = [mptr EXCEPT ![t] = n]
  /\ yield_purpose' = [yield_purpose EXCEPT ![get_current_thread] = Block]
  /\ Goto(t, "lock_last")
  /\ UNCHANGED <<queueVars, joinVars, schedVars, pc, thread_number, current_thread,
                 cpu, fieldVars, mutex_waiting_queue, lockVars, marg, mpre>>

(* The end of the list is found, and the node is linked there.  A marked      *)
(* thread that is stopped before that is in no list any more, unless an       *)
(* earlier double wake-up has left it in a run queue a second time.           *)
LockLast(t) ==
  /\ At(t, "lock_last") /\ Listed \subseteq allocated
  /\ \/ mutex_waiting_queue = Null /\ UNCHANGED mpre
     \/ \E n \in Listed : node[n].next = Null /\ mpre' = [mpre EXCEPT ![t] = n]
  /\ Goto(t, "lock_add")
  /\ UNCHANGED <<mlfqVars, fieldVars, listVars, lockVars, marg, mptr>>

LockAdd(t) ==
  /\ At(t, "lock_add")
  /\ \/ mpre[t] = Null /\ mutex_waiting_queue' = mptr[t] /\ UNCHANGED node
     \/ /\ mpre[t] \in allocated
        /\ node' = [node EXCEPT ![mpre[t]].next = mptr[t]]
        /\ UNCHANGED mutex_waiting_queue
  /\ mptr' = [mptr EXCEPT ![t] = Null]
  /\ mpre' = [mpre EXCEPT ![t] = Null]
  /\ Goto(t, "lock_wait")
  /\ UNCHANGED <<mlfqVars, fieldVars, allocated, lockVars, marg>>

LockYield(t) ==
  /\ At(t, "lock_wait") /\ Executing(t)
  /\ Deschedule
  /\ Goto(t, "lock_return")
  /\ UNCHANGED <<pc, fieldVars, listVars, lockVars, localVars>>

(* A woken thread returns 0: it does not test the lock again.  So does the    *)
(* last ready thread, at once.                                                *)
LockReturn(t) ==
  /\ At(t, "lock_return")
  /\ Goto(t, "held")
  /\ UNCHANGED <<mlfqVars, fieldVars, listVars, lockVars, localVars>>

---------------------------------------------------------------------------
(* unlock, called by a thread whose lock has returned 0. *)

(* Any thread may unlock: the owner is not compared. *)
UnlockCheck_AnyOwner(t) ==
  /\ At(t, "held")
  /\ initialized[marg[t]] /\ Goto(t, "unlock_release")
  /\ UNCHANGED <<mlfqVars, fieldVars, listVars, lockVars, localVars>>

UnlockCheck(t) ==
  /\ At(t, "held") /\ (initialized[marg[t]] => Executing(t))
  /\ IF initialized[marg[t]] /\ get_current_thread = mutex_tid[marg[t]]
     THEN Goto(t, "unlock_release") /\ UNCHANGED marg
     ELSE Goto(t, "none") /\ marg' = [marg EXCEPT ![t] = NoMutex]
  /\ UNCHANGED <<mlfqVars, fieldVars, listVars, lockVars, mptr, mpre>>

UnlockRelease(t) ==
  /\ At(t, "unlock_release")
  /\ mutex_lock' = [mutex_lock EXCEPT ![marg[t]] = 0]
  /\ acquired' = [acquired EXCEPT ![marg[t]] = @ \ {t}]
  /\ UNCHANGED locks
  /\ Goto(t, "unlock_tid")
  /\ UNCHANGED <<mlfqVars, fieldVars, listVars, localVars>>

UnlockTid(t) ==
  /\ At(t, "unlock_tid")
  /\ mutex_tid' = [mutex_tid EXCEPT ![marg[t]] = -1]
  /\ Goto(t, "unlock_list")
  /\ UNCHANGED <<mlfqVars, initialized, mid, mutex_id, listVars, lockVars, localVars>>

UnlockList(t) ==
  /\ At(t, "unlock_list")
  /\ mptr' = [mptr EXCEPT ![t] = mutex_waiting_queue]
  /\ mpre' = [mpre EXCEPT ![t] = Null]
  /\ Goto(t, "walk")
  /\ UNCHANGED <<mlfqVars, fieldVars, listVars, lockVars, marg>>

(* A node of another mutex is passed over. *)
WalkSkip(t) ==
  /\ At(t, "walk") /\ mptr[t] \in allocated
  /\ node[mptr[t]].mutex_lock # mid[marg[t]]
  /\ mpre' = [mpre EXCEPT ![t] = mptr[t]]
  /\ mptr' = [mptr EXCEPT ![t] = node[mptr[t]].next]
  /\ UNCHANGED <<mlfqVars, fieldVars, listVars, lockVars, marg, mpc>>

(* The walk moves on before the node is woken and freed. *)
WalkUnlink_Advances(t) ==
  /\ At(t, "walk") /\ mptr[t] \in allocated
  /\ node[mptr[t]].mutex_lock = mid[marg[t]]
  /\ IF mpre[t] = Null
     THEN mutex_waiting_queue' = node[mptr[t]].next /\ UNCHANGED node
     ELSE /\ mpre[t] \in allocated
          /\ node' = [node EXCEPT ![mpre[t]].next = node[mptr[t]].next]
          /\ UNCHANGED mutex_waiting_queue
  /\ mptr' = [mptr EXCEPT ![t] = node[@].next]
  /\ Goto(t, "wake")
  /\ UNCHANGED <<mlfqVars, fieldVars, allocated, lockVars, marg, mpre>>

(* A node of this mutex is unlinked, ... *)
WalkUnlink(t) ==
  /\ At(t, "walk") /\ mptr[t] \in allocated
  /\ node[mptr[t]].mutex_lock = mid[marg[t]]
  /\ IF mpre[t] = Null
     THEN mutex_waiting_queue' = node[mptr[t]].next /\ UNCHANGED node
     ELSE /\ mpre[t] \in allocated
          /\ node' = [node EXCEPT ![mpre[t]].next = node[mptr[t]].next]
          /\ UNCHANGED mutex_waiting_queue
  /\ Goto(t, "wake")
  /\ UNCHANGED <<mlfqVars, fieldVars, allocated, lockVars, localVars>>

(* ... its thread becomes ready, under the queue lock, ...                    *)
WalkWake(t) ==
  /\ At(t, "wake") /\ mptr[t] \in allocated
  /\ priority' = [priority EXCEPT ![node[mptr[t]].thread] = PriorityT1]
  /\ run_queue' = add_to_run_queue(1, node[mptr[t]].thread)
  /\ Goto(t, "free")
  /\ UNCHANGED <<current_queue_number, threadVars, joinVars, schedVars, pc,
                 fieldVars, listVars, lockVars, localVars>>

(* ... and it is freed. *)
WalkFree(t) ==
  /\ At(t, "free") /\ mptr[t] \in allocated
  /\ mptr' = [mptr EXCEPT ![t] = node[mptr[t]].next]
  /\ allocated' = allocated \ {mptr[t]}
  /\ Goto(t, "walk")
  /\ UNCHANGED <<mlfqVars, fieldVars, mutex_waiting_queue, node, lockVars, marg, mpre>>

WalkDone(t) ==
  /\ At(t, "walk") /\ mptr[t] = Null
  /\ mpre' = [mpre EXCEPT ![t] = Null]
  /\ marg' = [marg EXCEPT ![t] = NoMutex]
  /\ Goto(t, "none")
  /\ UNCHANGED <<mlfqVars, fieldVars, listVars, lockVars, mptr>>

(* The statement would follow a pointer to a node that another thread has     *)
(* freed.  What happens then is undefined, and the model ends.                *)
Dangling(t) ==
  /\ \/ mpc[t] \in {"walk", "wake", "free"} /\ mptr[t] # Null /\ mptr[t] \notin allocated
     \/ At(t, "walk") /\ mptr[t] # Null /\ mpre[t] # Null /\ mpre[t] \notin allocated
          /\ node[mptr[t]].mutex_lock = mid[marg[t]]
     \/ mpc[t] = "lock_last" /\ ~(Listed \subseteq allocated)
     \/ mpc[t] = "lock_add" /\ mpre[t] # Null /\ mpre[t] \notin allocated
  /\ OnProcessor(t)
  /\ phase' = "undefined"
  /\ UNCHANGED <<queueVars, threadVars, joinVars, ptr, wait_ptr, pc, mutexVars>>

---------------------------------------------------------------------------

MutexStep(t) ==
  \/ \E m \in Mutexes : LockCheck(t, m)
  \/ LockTas(t) \/ LockOwn(t) \/ LockMark(t) \/ LockLast(t) \/ LockAdd(t)
  \/ LockYield(t) \/ LockReturn(t)
  \/ UnlockCheck(t) \/ UnlockRelease(t) \/ UnlockTid(t) \/ UnlockList(t)
  \/ WalkSkip(t) \/ WalkUnlink(t) \/ WalkWake(t) \/ WalkFree(t) \/ WalkDone(t)
  \/ Dangling(t)

(* The signal comes anywhere in these calls, ...                              *)
MutexTick(t) == mpc[t] # "none" /\ Tick(t) /\ UNCHANGED mutexVars

(* ... the other calls are made outside them, ...                             *)
OtherCall(t) == mpc[t] = "none" /\ ThreadStep(t) /\ UNCHANGED mutexVars

OtherCreate ==
  mpc[Main] = "none" /\ (CreateThread \/ CreateAdd) /\ UNCHANGED mutexVars

(* ... and the first mypthread_create sets mutex_id to 0.                     *)
MutexCreateFirst ==
  /\ mpc[Main] = "none" /\ CreateFirst
  /\ mutex_id' = 0
  /\ UNCHANGED <<initialized, mutex_tid, mid, listVars, lockVars, localVars, mpc>>

SchedulerStep == SchedStep /\ UNCHANGED mutexVars

MutexNext ==
  \/ \E m \in Mutexes : InitFlag(m) \/ DestroyTas(m)
  \/ InitWord \/ InitMid \/ DestroyFlag
  \/ \E t \in Tid : MutexStep(t) \/ MutexTick(t) \/ OtherCall(t)
  \/ OtherCreate \/ MutexCreateFirst \/ SchedulerStep

MutexSpec == MutexInit /\ [][MutexNext]_allVars

---------------------------------------------------------------------------
(* Properties. *)

MutexPC == {"none", "init_word", "init_mid", "destroy_flag",
            "lock_tas", "lock_own", "lock_mark", "lock_last", "lock_add", "lock_wait",
            "lock_return", "held", "unlock_release", "unlock_tid", "unlock_list",
            "walk", "wake", "free"}

(* The types of the variables; the thread that an unlock has taken from the   *)
(* list to wake it, and then to free its node, is given by a pointer.         *)
MutexTypeOK ==
  /\ initialized \in [Mutexes -> BOOLEAN]
  /\ mutex_lock \in [Mutexes -> {0, 1}]
  /\ mutex_tid \in [Mutexes -> Tid \cup {-1}]
  /\ mid \in [Mutexes -> 0 .. MaxMid] /\ mutex_id \in 0 .. MaxMid
  /\ mutex_waiting_queue \in NodeId \cup {Null}
  /\ node \in [NodeId -> [thread : Tid, mutex_lock : 0 .. MaxMid,
                          next : NodeId \cup {Null}]]
  /\ allocated \subseteq NodeId
  /\ mpc \in [Tid -> MutexPC]
  /\ marg \in [Tid -> Mutexes \cup {NoMutex}]
  /\ \A t \in Tid : mpc[t] = "none" <=> marg[t] = NoMutex
  /\ mptr \in [Tid -> NodeId \cup {Null}]
  /\ mpre \in [Tid -> NodeId \cup {Null}]
  /\ \A t \in Tid : mpc[t] \in {"lock_last", "lock_add", "wake", "free"} => mptr[t] # Null
  /\ acquired \in [Mutexes -> SUBSET Tid]
  /\ locks \in 0 .. MaxLocks

(* The lock word is only cleared by the thread whose test-and-set won it: at  *)
(* most one thread has won and not yet cleared, and meanwhile the word is 1.  *)
(* unlock decides by mutex->tid, which other threads overwrite and which is   *)
(* main's in a mutex that nobody has owned, and a woken waiter that did not   *)
(* win calls unlock too: a stale tid must never name a thread that gets there.*)
(* init clears the word as well, also while a thread that has seen the flag   *)
(* of an earlier life of the mutex is about to test it.                       *)
TasExclusive ==
  \A m \in Mutexes :
    /\ Cardinality(acquired[m]) <= 1
    /\ acquired[m] # {} => mutex_lock[m] = 1

---------------------------------------------------------------------------
(* What comments in the source say and the code does not do. *)

(* A thread whose test-and-set has failed, until its lock returns.            *)
InLock(t) == mpc[t] \in {"lock_last", "lock_add", "lock_wait", "lock_return"}

(* mypthread.c:235: "if acquiring mutex fails, put the current thread on the  *)
(* blocked/waiting list and context switch": a thread in a failed lock is     *)
(* still ready, or it is in the waiting list or about to be woken from it.    *)
WaitersListed ==
  phase = "thread" =>
    \A t \in Tid : InLock(t) =>
      \/ InRunQueue(t)
      \/ \E n \in Listed \cap allocated : node[n].thread = t
      \/ \E u \in Tid : mpc[u] \in {"wake", "free"} /\ node[mptr[u]].thread = t

(* mypthread.c:278: unlock is to "put the thread at the front of this mutex's *)
(* blocked/waiting queue in to the run queue": the thread that it makes ready *)
(* is in a call of lock for that mutex.                                       *)
WakesOwnWaiters ==
  [][\A t \in Tid : mpc[t] = "wake" /\ mpc'[t] = "free" =>
       LET w == node[mptr[t]].thread
       IN  marg[w] = marg[t] /\ mpc[w] \in {"lock_wait", "lock_return"}]_allVars

(* mypthread.c:259: "update the mutex's metadata to indicate it is unlocked": *)
(* the unlock of a thread that has acquired the mutex opens it.               *)
UnlockOpens ==
  [][\A t \in Tid : mpc[t] = "held" /\ t \in acquired[marg[t]] =>
       mpc'[t] \in {"held", "unlock_release"}]_allVars
=============================================================================
