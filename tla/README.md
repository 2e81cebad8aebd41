# Verification of my_pthread

TLA+ models, TLC runs and TLAPS proofs for the user-level thread library in
`src/mypthread.c` and the programs that use it.

## The system

The library implements `pthread`-like threads on **one** kernel thread with
`ucontext`. A running thread loses the processor in two ways only: it calls
`mypthread_yield()` (directly, or from `mypthread_join`, `mypthread_exit` or
`mypthread_mutex_lock`), or the virtual timer's `SIGVTALRM` runs
`swap_context()` on its stack. `swap_context()` turns away when the queue lock
`modifying_queue` is taken, otherwise it runs the scheduler, which switches to
another context. The scheduler is chosen by `QUEUE_NUMBER`: 1 round robin, 2
PSJF, 3 (the default) a multi-level feedback queue, MLFQ.

| component | state | operations | correct when |
|---|---|---|---|
| thread calls (`mypthread.c:34-204`) | `thread_number`, control blocks, join waiting list, list of exited threads | create, yield, exit, join | a join returns 0 only after its target has exited and with its value (the code breaks this when no thread is ready, see `Stall`); no thread is lost, no thread is in two places |
| MLFQ scheduler (`562-915`) | three run queues, `current_queue_number`, priorities | take the current thread off, age, handle it by its `yield_purpose`, choose the next queue, switch | the head of the current queue is the executing thread; every ready thread runs; the exited thread is gone |
| round robin, PSJF (`345-560`, `1029-1038`) | run queue T1, `waiting_time` | the same scheduler with other handlers | as for MLFQ; the queue order PSJF intends |
| scheduler entry and timer (`61-77`, `917-945`) | `modifying_queue`, `scheduler_running`, `timer`, contexts | `swap_context` from a call or from the signal, also nested in the scheduler | one scheduler pass at a time; the locks are free when a thread goes on; a context is its thread's |
| doubly linked queue (`1041-1109`, `Queue.c`) | head and rear sentinels, nodes, `size` | addFront, addBack, removeFront, removeBack, removeNode, insertBefore | it is a sequence |
| mutex (`206-318`, `998-1009`) | `mutex_lock`, `tid`, `mid`, `initialized` of a mutex; the one list of all mutex waiters | init, lock, unlock, destroy | only the acquirer releases; every waiter is woken; a lock that returned is held |
| programs (`muti_cal.c`, `parallel_cal.c`, `external_cal.c`, `vector_multiply.c`, `mypthread_CAS.c`, `write_file.c`) | a shared sum under a mutex | main creates workers and joins them; each adds its amounts | "the calculated sum and the verified sum" are the same (`benchmarks/README`) |
| older library (`mypthread_old.c`), copies, `para.c`, sorting programs | | | not modelled, see below |

How they interact: the calls change the lists that the scheduler reads; the
thread blocks by setting `yield_purpose` and yielding, in two steps; the
scheduler moves joiners of an exiting thread to a run queue and `unlock` moves
mutex waiters; the signal can come between any two instructions, and is refused
while `modifying_queue` is taken.

The hard behaviours: a timer signal between two steps of a call, one thread
blocked or exiting while another is woken, three queues whose heads compete by
aging priorities, waiting lists that are cut while they are walked, a lock that
is released early in one place and left taken in another, contexts saved half
way through a switch, and what becomes of a thread that is in no list.

## Modules

```
Threads (abstract)                          Queues (abstract)
   ^ implemented by                            ^ implemented by
Mlfq <--- Schedulers <--- SwapContext        RunQueue
 ^           (1, 2, 3)    (locks, signal,
 |                         contexts; implements Schedulers)
Mutex <--- Benchmarks
```

`MlfqProofs`, `JoinProofs` and `OrderProofs` hold the proofs about `Mlfq`,
`SchedulersProofs`, `SwapProofs`, `MutexProofs`, `BenchmarkProofs` and
`QueueProofs` those about `Schedulers`, `SwapContext`, `Mutex`, `Benchmarks` and
`RunQueue`; the `MC...` modules give TLC the programs of an instance. A definition called
`X_Word` just before `X` is a faulty variant of `X`, used to see that a property
can fail.

### `Threads.tla`: what the library promises its threads

No queues, priorities, lists or timers: each thread is ready, blocked, exiting
or exited, one thread runs, and a thread in a join has a target. Only a thread's
own join blocks it, only while its target has not exited; only the exit of that
target makes it ready; a join that waited returns after that exit; the processor
goes to ready threads only and never leaves one in the middle of its exit. When
no thread is ready the promise is void, and `Return` says so (`NoneReady`): the
code lets the last thread go on, and its join returns although the target has
not exited.
`Threads` has no liveness, since the default build can lose a join for ever
(`MlfqLostJoin`).

### `Mlfq.tla`: thread calls and the MLFQ scheduler

A thread is its tid. An action is one stretch of code between two points where
the signal can be served; under `modifying_queue` (held by `join` and `exit`
while they change the lists, and by the scheduler throughout) the signal is
turned away, so `JoinWait` or `ExitStart` is one action and the scheduler pass
is a chain of actions of one actor: `Tick` or `Yield` (both perform
`Deschedule`: remove the head, age), the `Handle...` action for the thread's
`yield_purpose`, and `Dispatch`. `Tick` is enabled in every state in which a
thread executes. That these stretches are in fact atomic is not assumed:
`SwapContext` shows it.

| TLA+ | code |
|---|---|
| `run_queue[k]` | `round_robin_queue_Tk`; a sequence of tids |
| `yield_purpose`, `priority` | the fields of the control block |
| `join_waiting_queue` | the list of `join_waiting_queue_node`, `tcb` the waiting thread, `tid` the awaited one |
| `slot[t]` | the variable that the `value_ptr` of t's latest join points to: `NoSlot` for NULL, `Unset`, or the tid standing for the exit value of that thread |
| `join_target`, `join_ret` | the argument and the result of t's latest join; read by properties only |
| `cpu` | whose code is executing (no variable of the program) |
| `pc[t]` | the stretch of library code the thread is in |
| `phase`, `ptr`, `wait_ptr` | where the scheduler pass is, its local variables |

`UnlinkJoin` is the unlinking branch at `mypthread.c:780` as written: the test
`wait_ptr!=NULL` is always true, so the list keeps only what follows the node.
`Stall` is the case in which no thread is ready (`mypthread.c:598`).
`swap_context()` then returns into a caller that is in no queue, and the caller
goes on: `mypthread_join` returns 0 although its target has not exited
(`JoinReturn`, enabled after a stall by `OnProcessor`), `mypthread_exit` returns
(`ExitReturn`), and the program goes on with what needs no queue (joins of exited
threads, in `Mutex` most statements of the mutex calls, in `Benchmarks` the
reading of the sum). The model ends where the code reads the control block of an
empty queue's sentinel, which nothing sets: at the next signal, at every call
that asks for the current thread, and if main makes another thread.
`JoinCorrect` and `Threads` state what is left of the promise of a join. That
mypthread.c:152 says "Wait for thread termination" and a join in a circle, or of
a thread that the mutex has lost, does not wait, is a fault of the code.

`age` adds one for each node of a thread, because a double wake-up in `Mutex` can
leave a thread with two.

Abstractions: contexts, stacks and heap blocks are left out here (a freed
control block shows as membership in `exit_thread_list`); the body of `case 3`
of `thread_handle` is left out because no code sets `yield_purpose` to 3, and so
is queue 3 in `HandleTimeout`, because `add_to_run_queue(3, ...)` appends to
queue 2 and queue 3 stays empty (a conjunct of the proved invariant). What a
program does is a parameter: `JoinPairs` are the joins it may perform and
`Exiting` the threads that call `mypthread_exit`; only main creates threads, as
in every program here.

### `Schedulers.tla`: all three schedulers

`QUEUE_NUMBER` is a variable that never changes, chosen from `QueueNumbers`. The
calls are those of `Mlfq`; `schedule` is a disjunction as in the code, and round
robin and PSJF have their own `...Timeout`, `...Block`, `...ExitWake` and
`...Switch`. Their unlinking of joins is `RemoveAt`, since their test
(`mypthread.c:398`) is right. For PSJF, `waiting_time` starts as `Garbage` (no
code sets it) and so does that of a woken joiner's new node;
`it_interval` is what a pass adds to it, and a signal that is refused has
changed it to 1000, whence the choice in `MaybeRefused` and `Calls`. `placed` is
history: the threads PSJF itself has put into its queue.

Round robin and PSJF release both locks before `swapcontext()` and leave the time
to the next signal as it is (`mypthread.c:375-378`, `472-475`; the same before
`setcontext()`). In a pass that a call started the signal is not masked
(`unmasked`), and one that comes in between starts a second pass, which takes out
the first thread of the queue although another one executes (`Unswitched`). If
nobody is behind that thread, the pass changes nothing that matters
(`SecondPassReturns`). Otherwise it stores the stack it is on in the context of
the thread it took out (`SecondPassCrosses`): the model ends in phase `crossed`,
and `SwapContext` goes on from there. So the properties of round robin and PSJF
hold up to a crossing; `CurrentIsExecuting` in the window and the refinement of
`Threads` are not claimed of these two schedulers. With an empty queue they read
the sentinel at once (`SqStall`).

### `SwapContext.tla`: the locks, the signal and the contexts

`swap_context()` statement by statement, over the actions of `Schedulers`.

| TLA+ | code |
|---|---|
| `modifying_queue`, `scheduler_running` | the two test-and-set words |
| `stack` | the stack the processor is on |
| `context[t]` | the stack saved in `tcb->context` |
| `call[s]`, `handler[s]` | where the `swap_context` called by the thread of stack `s`, or by the signal on it, is |
| `section[t]` | the critical section of a call that the thread is in |
| `returned` | the thread that entered the stack of `return_function` last |

`Signal` is enabled at every statement at which it is not masked (a handler does
not interrupt itself), with one exception: the feedback queue sets the timer to
a new quantum just before it releases the locks, so the next signal does not
come within those few statements (`Rearmed`, `BeforeSwitch`). Faults of the code
that are in the model: a refused signal in a pass leaves `modifying_queue` taken
(`TestSched`), `add_to_run_queue` releases it in the middle of a pass
(`PassStep`), `create` releases it twice, a thread that goes on after a switch
releases both locks again (`EndSched`, `EndQueue`), and every thread that
returns from its function runs `mypthread_exit` on one stack (`Return`).

### `RunQueue.tla` and `Queues.tla`: the linked queue

`RunQueue` has the cells, `next`, `prev` and `size`; each operation is its
assignments, taken together because nothing interrupts it. Its abstract
specification `Queues` has sequences, as `Mlfq` and `Schedulers` use them. The
refinement maps a queue to the nodes met on the way along `next`.

### `Mutex.tla`: the mutexes, over `Mlfq`

`mypthread_mutex_lock` and `_unlock` take no queue lock while they use the
mutex and the waiting list, nor do `_init` and `_destroy`, so the signal is
served between any two of their statements: the flag, the lock word and the mid
in `init` (`InitFlag`, `InitWord`, `InitMid`), the word and the flag in `destroy`
(`DestroyTas`, `DestroyFlag`), the test of the flag and the test-and-set in `lock`
(`LockCheck`, `LockTas`). `Mutex` EXTENDS `Mlfq`; each of its actions is one statement that
touches shared state. The actions of `Mlfq` interleave with them: the scheduler
pass (`SchedulerStep`), the signal at any place (`MutexTick`), and the other
calls by threads that are outside lock and unlock (`OtherCall`, `OtherCreate`,
and `MutexCreateFirst`, which also resets `mutex_id`).

| TLA+ | code |
|---|---|
| `initialized`, `mutex_lock`, `mutex_tid`, `mid` | the fields of `mypthread_mutex_t`; zero in a static mutex, so `mutex_tid` is main's tid at first |
| `mutex_waiting_queue`, `node`, `allocated` | the one list of waiting nodes of all mutexes, with next pointers and the blocks not freed |
| `mpc[t]` | the next statement of t in lock or unlock; `"held"` when lock has returned 0 and unlock has not been called |
| `marg[t]` | the mutex of the call |
| `mptr[t]`, `mpre[t]` | `wait_node` in lock, `ptr` and `pre` in unlock |
| `acquired[m]` | ghost: the threads that won the test-and-set and have not cleared the lock |

The list keeps its pointers because two threads may walk it at the same time.
What the code does with a pointer to a freed node is undefined: `Dangling` marks
that a thread is about to follow one, and the model ends there. `LockLast` finds
the end of the list in one step although the code walks to it: a thread that is
stopped in this walk has been marked as blocked and is in no list, so it does
not resume (the finding of `MutexLostWaiter`), unless an earlier double wake-up
(`MutexDoubleWake`) has left it a second place in a run queue. The spin on
`modifying_queue` in the wake loop always ends at once, because no thread loses
the processor while it holds that lock. `mypthread_mutex_destroy` spins until
the lock is free, so `DestroyTas` waits for that. Only main calls init and
destroy, as in every program here.

`init` sets the flag before it clears the lock word. A thread that calls `lock` in
between can win a word that `init` then clears, and a second thread wins it
again. `EarlyUse` is the set of the mutexes for which the program does that. It is
empty in the runs and in the theorems about `TasExclusive`: a call of `lock` does
not *begin* inside `init`, but one that has passed the test of the flag in an
earlier life of the mutex may go on there.

### `Benchmarks.tla`: the programs, over `Mutex`

The six programs have one shape: main initialises the mutex, creates the
workers, joins them in order, reads the sum and destroys the mutex; a worker
adds its amounts one by one, each between lock and unlock, and exits. `Amounts`
and `verify` are what each program adds and what it compares the sum with. An
addition is a load and a store with the signal between them; `write_file`
appends a byte with one `write()`; `mypthread_CAS` adds only where its comparison
holds (`Skip`). `parallel_cal.c`, `external_cal.c` and `vector_multiply.c` have
the include of `mypthread.h` commented out and use the library in the copies
under `benchmarks/`, whose threads and `main` do the same. `InLibrary` is the rest of `Mutex` and
`Mlfq`. With three workers, a double wake-up can leave a worker in a run queue
when it exits; its control block is then freed there, and dispatching it is
undefined, so the model ends at such a dispatch.

## Runs

| run | instance | shows |
|---|---|---|
| `MlfqAnyJoins` | 3 threads, priorities 3/2/1, any thread joins any other, all may exit | `TypeOK`, `CurrentIsExecuting`, `NoDuplicates`, `ExitedAreGone`, `JoinCorrect`, `FirstQueueOrdered`, `WaitBounded`, and the refinement `ImplementsThreads` |
| `SchedulersSingle` | round robin and PSJF, 3 threads, uninitialised waiting times, main joins worker 1, the workers join each other | `SqTypeOK`, `NoDuplicates`, `ExitedAreGone`, `JoinersAreMoved`, `EveryThreadPlaced`, `PsjfOrdered`, up to a crossing |
| `SchedulersLive` | the feedback queue and round robin, main joins its 2 workers and any thread may exit, fairness | `EveryReadyThreadRuns`, `JoinCompletes`, `EveryThreadPlaced`, `StallsAtEnd` |
| `SwapContext` | the default build, 3 threads, main joins the worker that returns from its function, and may exit, 0.85 million states | `SwapTypeOK`, `LocksFree`, `SectionsLocked`, `StacksOwn`, and the refinement `ImplementsSchedulers` |
| `RunQueue` | 2 queues, 3 nodes | `TypeOK`, `LinksAgree`, and the refinement `ImplementsQueues` |
| `MutexThree` | 3 threads, 1 mutex, initialised twice, 3 calls of lock, 2.3 million states | `MutexTypeOK`, `CurrentIsExecuting`, `TasExclusive` |
| `WorkersDone` | `write_file` and `mypthread_CAS`, 2 workers with 2 rounds each, 1.7 million states | `WorkersDone`, `AppendsCounted`, `TasExclusive` |
| `MlfqLostJoin` | 3 threads | violated: `JoinersAreMoved`, a comment's promise about joins (`mypthread.c:780`) |
| `MutexLostWaiter` | 2 threads, 1 mutex | violated: a blocked thread in no list (`mypthread.c:241`) |
| `MutexLeakedLock` | 2 threads, 1 mutex | violated: the owner's unlock does nothing (`mypthread.c:262`) |
| `MutexDoubleWake` | 3 threads, 1 mutex | violated: two unlocks wake the same thread (`mypthread.c:266`) |
| `AccumulatorSum` | 2 workers, any of the six programs | violated: a sum is not the verified sum (`mypthread.c:247`) |

**Together** the passing runs say: the linked queue is a sequence (`RunQueue`);
with sequences and an atomic pass the feedback queue keeps `Threads`
(`MlfqAnyJoins`), and round robin and PSJF lose, duplicate and free no thread too
soon as long as no context is crossed (`SchedulersSingle`); and the pass and the critical sections are
atomic in the default build in spite of the nested signals and the odd lock
releases (`SwapContext`). `JoinersAreMoved` holds for round robin and PSJF
and fails for the feedback queue, whose copy of the unlinking code differs.

**Bounds.** Three threads are enough for a joiner, a target and a bystander, and
for two joins on one target, and for a lost join: 0 joins 1, 1 joins 2, 2 exits
and the node of 0 is dropped with that of 1. `MaxThreads` bounds `thread_number`, and nothing else in `Mlfq`
grows: aging is bounded by the program (`WaitBounded` is checked and proved, not assumed).
Priorities 3/2/1 (4/2/1 in `SchedulersSingle` and `SwapContext`) keep the
order of 100/50/1 with gaps that aging closes within the instance, so that a
lower queue overtakes an upper one. `MlfqAnyJoins`,
`MlfqLostJoin` and `SchedulersSingle` do not check deadlock: programs whose
threads join in a cycle, or all exit, do stop, and `MaxWait` ends the behaviours
of PSJF. In `SchedulersSingle` the interval is 2, a refused signal's 1, a
waiting time starts as 0 or 2 and goes up to `MaxWait` 4: enough for a new
thread to look older or younger than one that has waited, and for two passes
that add different times. Main joins worker 1 and
the workers each other: nodes before and behind the one that is unlinked, two
joins of one thread, and a cycle, in which no thread is ready and the model
ends.

`SchedulersLive` does not check deadlock because the model ends at a crossing,
which its leads-to properties except, and after the exit of every thread.

`SwapContext` has no bound of its own: a stack holds one call and one signal
above it. Main joins one of the two workers, which returns, and may itself exit
before, during or after that; the other worker is a bystander for the signals and
yields. If main has not created it yet the scheduler finds no thread when the last
one exits; the run does not check deadlock, because the model ends some steps
after that. `RunQueue` needs three nodes to remove a middle
one and two queues to move one; `MaxTime` 1 gives equal and different waiting
times. The nodes that are not in a queue start with the pointers of a freed
node or with NULL.

The mutex runs leave out joins and exits, which `Mlfq` covers, and use
priorities 3/2/1. They have one mutex, as every program of the repository. Three
threads are an owner, a waiter, and a third one that acquires the mutex or walks
the list between two statements of an unlock. `MaxLocks` bounds the calls of
lock: 3 let each thread call it, or one of them again after it was woken; `MaxMid` bounds `mutex_id` at
2, so the mutex can be destroyed and initialised with another `mid` while a node
with the old one is still in the list, the only way that `WalkSkip` has with one
mutex. `MaxNodes` is more than the nodes that can be waiting or pointed to at a
time. Deadlock is not checked: the code does stop when all threads block, and
the model ends at undefined behaviour.

`TasExclusive` is checked for one mutex. It fails for two mutexes with the same
`mid`, one initialised before the first `mypthread_create` and the other after
it: main waits for the first, the unlock of the second wakes it, and if the
thread that acquired the first has not set `tid` yet, `tid` is still 0, main's
own, and main's unlock opens the mutex (TLC finds this with two mutexes, three
threads and three calls of lock). No text of the repository speaks of a program
with two mutexes, so it is not one of the runs.

`StacksOwn` is checked with the feedback queue. With `QueueNumbers = {1}` in
`SwapContext.cfg` TLC finds it violated: round robin does not set the timer
before it releases the locks, a signal between the release and `swapcontext()`
runs a second pass for a thread that is not yet on the processor, and its
context is saved for the wrong thread (`mypthread.c:375`). The faulty variant
`Rearmed_Interval` is the same behaviour in the default build. `Schedulers` ends
where that happens (`SecondPassCrosses`), and no run records it as a finding: the
default build does not use round robin. With both workers
returning (`JoinPairs <- MainJoinsWorkers`, `Exiting <- Workers`, `Returning <-
Workers`), `StacksOwn`
fails in the default build, too: all threads that return run `mypthread_exit` on
the one stack of `return_function` (`mypthread.c:50`); if one is preempted there,
its context holds a place on that stack, and the next thread that returns
overwrites it. No run checks this either; the programs of the repository that are
modelled call `pthread_exit`, and do not return.

`TasExclusive` fails as well when `lock` is called inside `init`: with `EarlyUse <-
Mutexes` in `MutexThree.cfg` TLC finds a trace of 14 states (main sets the flag, a
thread wins the word, main clears it, another thread wins it).

`AccumulatorSum` gives each worker two or three rounds, so that a woken waiter
and a thread that locks again meet: one trace has `vector_multiply` end with 4
instead of 5. It asks only for executions in which main's joins have waited for
all workers (`phase # "stalled"`). With `Programs = {"muti_cal", "mypthread_CAS",
"write_file"}`, those under `src/` that include `mypthread.h`, TLC finds a trace of
`muti_cal`.

`WorkersDone` has two workers, so that one waits while the other unlocks, and is
woken without having won the lock, which is what makes the sums wrong. It has
`write_file` for `AppendsCounted` and `mypthread_CAS` for the other way to add,
with and without an addition. A lost worker (`MutexLostWaiter`) is in the run: it
never exits, main's join for it finds no thread ready once the other worker has
exited, returns 0 at once, and main reads a partial sum. `WorkersDone` says that
this is the only way: a worker that is not done is in a call of `lock` and the
scheduler has stalled. Without that exception TLC finds `WorkersDone` and
`AppendsCounted` violated. Deadlock is not checked: the model ends when main goes
on without a ready thread, or a freed thread is dispatched. A double wake-up needs
a third worker, which makes the instance too large for a run; the theorems of
`BenchmarkProofs` are for any number.

**Fairness** (`SchedulersLive`): the timer counts the processor time of the
process, so a tick happens while threads execute (`WF` of the ticks); the
scheduler is straight code (`WF` of its steps); and a thread that is scheduled
again and again executes the few instructions that end a join within one of its
quanta of 250 ms (`SF` of `SqJoinFinish`). No fairness is assumed of the
program's calls. In round robin a crossing of two contexts is excepted (`crossed`). PSJF is not in this run: `waiting_time` is never reset and
grows for ever, and its bound would end every behaviour.

## Proofs

The theorems hold for every number of threads, all priorities ordered as in the
code, and every set of joins and exits; a theorem that needs more of the program
or of the build says so in its ASSUME. The assumptions on the constants are
`MlfqAssumption` and those of the modules that extend `Mlfq`; TLC evaluates them.

| Proved about | Theorem for | Needs | By the invariant |
| --- | --- | --- | --- |
| `Mlfq` | `TypeOK`, `CurrentIsExecuting`, `NoDuplicates`, `ExitedAreGone` | | `IInv` |
| | `JoinCorrect`, `ImplementsThreads` | | and `JoinInv` |
| | `FirstQueueOrdered`, `WaitBounded` | | and `OInv`, `WInv` |
| `Schedulers` | `SqTypeOK`, `NoDuplicates`, `ExitedAreGone`, `PsjfOrdered` | | `IInv`, `JoinInv` and `SqInv` |
| | `EveryThreadPlaced`, `JoinersAreMoved` | no feedback queue, or one joining thread | and `PInv` |
| | `StallsAtEnd` | the same, and no circle of joins | and `CInv`, `Positive` |
| `SwapContext` | `SwapTypeOK`, `LocksFree`, `SectionsLocked`, `StacksOwn`, `ImplementsSchedulers`, `Spec` of `Mlfq`, `ImplementsThreads` | feedback queue, at most one returning thread | `SwInv` |
| `Mutex` | `MutexTypeOK`, `CurrentIsExecuting` | | `XInv` |
| | `TasExclusive` | one mutex, no call of `lock` begins inside `init` | and `WordKept`, `OneWinner`, `TidTrue` |
| | `TasExclusive` | main never locks, no call of `lock` begins inside `init` | and `WordKept`, `OneWinnerOf`, `TidTrueOf` |
| `Benchmarks` | `MutexSpec`, `WorkersDone`, `AppendsCounted` | | and `BInv` |
| | `TasExclusive` | no call of `lock` begins inside `init` | and `WordKept`, `WonBy` |
| `RunQueue` | `TypeOK`, `LinksAgree`, `ImplementsQueues` | | `QInv` |

### Mlfq

`MlfqProofs.tla` proves `TypeOK`, `CurrentIsExecuting`, `NoDuplicates` and
`ExitedAreGone`. None of them is inductive alone. `IInv` adds that queue 3 is
empty, that a thread marked to block is the one executing its join or the one
the scheduler holds (`BlockedIsCurrent`), that the thread the scheduler holds is
in no list except when it blocks (`PtrTakenOff`), that only threads whose
creation is finished are in any list (`OnlyKnown`), and that exited threads do
not wait (`ExitedNotWaiting`). For example, a join must not append a thread that
is already in the list: a thread that is ready and waiting is marked to block
(`NoDuplicates`), and a marked thread is at the yield of its join
(`BlockedIsCurrent`), not in user code. The lemmas `AddMember`, `RemoveMember`,
`AddJoin` and `RemoveJoin` say what the list operations do to membership and
uniqueness; one lemma per action uses them.

The proofs are about `AnyNext`, whose steps put threads into the queues and take
them out as `Mlfq` does, but in any order and with any priorities. A step of
`Mlfq` is one of `AnyNext`, and so is one of `Schedulers` (a second pass between
the releases and the switch of round robin or PSJF included): `IInv` and
`JoinInv` are proved once for all schedulers.

`JoinProofs.tla` proves `JoinCorrect`. `JInv` strengthens it: a node of the join
list agrees with the `pc` and the target of its caller, its target has not
exited, and once the target is marked to exit its value is in the caller's slot
(`NodesAgree`); only the executing thread is on its way out
(`ExitingIsCurrent`); the walk leaves no node for the exiting thread behind
(`WalkedOver`); and a thread that is ready in a join, and not about to block,
was woken by its target and has its value (`JoinOver`). `RemoveJoin` carries
over to the faulty unlinking: it drops nodes, but changes none. `JInv` ends with a
stall: the thread that goes on returns from its join without having been woken.
`JoinInv` keeps `JInv` until then and `JoinCorrect` throughout, which needs that
nobody but that thread executes again and that exited threads stay so.

It also proves `MlfqImplementsThreads`: every action is a step of
`Threads` or leaves the abstract state alone, one lemma per action (`...Step`),
from `IInv` and `JInv`. `JoinWait` is `Await`, `HandleBlock` is `Block`,
`HandleExitWake` is `Wake` of the joiner, `HandleExitDone` is `Gone`, `Dispatch`
is `Switch` or a stutter, and `JoinReturn` is `Return`. The proof needs `JInv`
where `Block` and `Return` ask whether the target has exited, and `PtrTakenOff`
where the scheduler's thread is still ready although it is in no queue. After a
stall `Return` has its other case: no thread is ready (`StalledAlone`, an
invariant, since only ready threads could make others ready).

`OrderProofs.tla` proves `FirstQueueOrdered`: threads are appended to the first
queue and never sorted, which is right because its members age together and
each enters with the priority of a new thread. `OInv` says the latter: a member
of queue 1 has at least `PriorityT1` (`HighEnough`), and the thread that is
made and not queued yet has just that (`NewIsHigh`). `IInv` is needed because
the thread whose priority is set anew must not be in the queue (`PtrTakenOff`,
`NoDuplicates`).

It also proves `WaitBounded`, by counting. A pass of the scheduler adds one to
the priority of every queued thread, so a bound on the priority bounds the
wait. Once a thread's priority has passed that of a new thread, nobody who is
queued later comes before it: the set of those that may still run first
(`AheadInFirst`) only shrinks, and each pass runs one of them. `FirstCounted`
says that priority and size of that set together stay below the bound. The
second queue is not ordered: a thread requeued after its time slice in the
second queue starts with `PriorityT3`, and one that falls to the second queue
from the first starts with `PriorityT2`, so a member may stand behind one whose
priority is smaller by `Drop` (`AlmostOrdered`), and `sched_MLFQ` compares heads
only. The proof attempt showed that one bound for both queues, `PriorityT1 +
MaxThreads - 1`, is false: with six threads and the priorities 20, 19 and 1 TLC
finds a thread of the second queue above it (the instances of the runs are too
small for that). So `WaitBounded` has a second part with `Drop` added, and
`SecondCounted` counts from there. `ChosenFirst` says that the running thread is
one of those that were ahead of each thread that waits.

### Schedulers

`SchedulersProofs.tla` first shows that each step of round robin, PSJF and the
feedback queue is one of `AnyNext`. What it proves of round robin and PSJF holds up
to a crossing, where the model ends; `SwapContext` has what comes after it.
`CurrentIsExecuting` and the refinement of `Threads` do not follow from `IInv` here:
between the releases and the switch the head of the queue is the thread chosen and
not the one that executes. `SqInv` adds to `IInv` and `JoinInv` what the
new handlers need. Round robin and PSJF use the first queue only (`OneQueue`).
`PsjfOrdered`, the order of those that PSJF has placed, is not inductive: a
thread that `create` has appended stands among them with any waiting time.
`OrderedBehind` says that nobody who has waited for less stands *before* a
placed thread, the appended ones included, which is what an insertion before the
first smaller value keeps.

That no thread is lost is `PInv`: threads that exit are in no join
(`ExitedNotInJoin`), a thread marked to block has its node
(`BlockedIsWaiting`), and each thread has exited, is ready or waits
(`AllPlaced`), inside the scheduler, too. `thread_handle` in the feedback queue
breaks it by dropping the nodes before the one it unlinks (`MlfqLostJoin`). With
one joining thread the list has one node at most, so `OneJoiner` is the
condition under which the feedback queue keeps it. `OrderedJoinsKeepItGoing`
then shows that a program whose joins never go round in a circle leaves the
scheduler without a thread only when all have exited. The condition is said
by a `rank`, a number for each thread that is smaller for the target of a join
than for its caller: of the threads that wait, one with the smallest
rank waits for a thread that does not, and has not exited, so it is ready; or main has made that
one and not queued it yet, and then main is ready, since who exits does not come
back (`ExitsForGood`). `MainKeepsItGoing` is the corollary for programs like those of the
repository, in which main joins its workers. `CInv` also relates the nodes to the
program's joins; `Positive` says that no priority is 0, with
which `get_highest_priority()` would answer that all queues are empty.

### SwapContext

`SwapProofs.tla` assumes `DefaultBuild`: the feedback queue, and at most one
thread that returns from its function. Both are needed, since round robin does
not re-arm the timer in time, and two returning threads share a stack. `SwInv` says for every statement of `swap_context()`, of the
call and of a signal above it, whether the two locks are taken (`LocksAgree`):
the scheduler lock from the test to its release, the queue lock on the way into
the pass and not after it, and either within a pass or a section, because
`add_to_run_queue` releases it there. A stack that is left is not in a pass
(`OthersRest`), a thread in a critical section is the one that executes
(`SectionIsCurrent`), the thread on the processor is `cpu` except between the
end of the pass and the switch (`OwnerExecutes`), one left for good has exited
(`LeftForGood`), and each saved context is the thread's own (`ContextsOwn`) and
at a statement where it can be resumed (`OthersResumable`).

From `SwInv` every statement is a step of `Schedulers` or changes nothing there
(`SwapImplementsSchedulers`). With the feedback queue these are the steps of
`Mlfq` (`SwapImplementsMlfq`), so that the atomic actions of `Mlfq` are justified
and all of its theorems hold for the statements, too. That includes the joins that
return after a stall (`SwapImplementsThreads`).

### Mutex

`IInv` does not hold once a mutex is locked: a thread is marked to block before
it is in the list (`MutexLostWaiter`), and a thread woken twice is in the queues
twice (`MutexDoubleWake`). `SchedulerFacts` in `MutexProofs.tla` is what remains:
the types, the third queue empty, and the executing thread at the head of the
current queue. It is enough for the types and for `CurrentIsExecuting`: wake-ups
append, and so never displace a head.

`WordKept` says of the statements of `init` and `destroy` that nobody has won a
mutex whose flag is not set, or whose word `init` has yet to clear, and that a
thread that tested the flag before `destroy` cleared it finds the word taken, by
`destroy` itself. This is where `EarlyUse = {}` is needed: a call of `lock` that
begins between the first two statements of `init` finds the flag set and the word
free. `SetupIsMains` says that only main is in those statements.

`OneMutexExcludes` proves that the lock word excludes, for one mutex.
`OneWinner` is not inductive either: it is the owner test of `unlock` that keeps
others from clearing the word, and `tid` starts as 0, which is main's. `TidTrue`
says that the thread `tid` names owns the mutex, or is about to clear `tid`, or is
main and nobody has released the mutex yet. In the last case main must not be
able to call `unlock`: as long as nobody releases, nobody is woken, so that main
is in the queues once, and does not return from a `lock` that it has lost
(`Unwoken`, `MainOnce`); after a stall the code that would call `unlock` reads the
sentinel first (`Live`). This is where a second mutex breaks it: its unlock wakes
main. `Unwoken` has two parts. That main is in the queues once and in no call of
`unlock` (`MainSingle`) is kept by every step of other threads that does not wake
main, and is used for `Benchmarks` again.

`ExcludesWithoutMain` is the other half: with any number of mutexes the words
exclude if main never calls `lock`. `OneWinnerOf(m)` and `TidTrueOf(m)` say of one
mutex what the above say of the only one, for the threads whose call is for it;
main needs no `Unwoken`, because it never comes to the test of `tid`. The
hypothesis that main is in no call but `init` and `destroy`, `[](mpc[Main] \in Setup
\cup {"none"})`, is about the program, and the programs here meet it
(`ProgramsExclude`).

### Benchmarks

`BenchmarkProofs.tla` proves that the six programs are programs of `Mutex`
(`ProgramsUseTheLibrary`): a worker that exits is outside lock and unlock, and
main is in no mutex call but `init` and `destroy` and waits for no mutex (`CallsApart`,
`MainAloof`), so each step is one that `Mutex` allows. All that is proved there holds of the programs.

`WorkersDone` says that main reads the sum when every worker has made its additions,
or else the scheduler has stalled in one of main's joins, and each worker that is
not done is in a call of `lock`. It must hold although the invariants of joins do
not: with a mutex a worker can be lost, or be in two queues, and `IInv` and `JInv` fail. What is left
is enough. Main is in the queues at most once and is in a join only while its
node is in the list or its target has left (`MainSingle`, `JoinsInTurn`, until a stall): nobody
but an exit takes the node out, because main waits for no mutex. The library
takes for exited only threads that called `pthread_exit`, and they have nothing
left to add (`LeaversDone`). So main goes on to the next join, and from the last
one to the sum, past workers that are done. For the case of a stall `Placed` says
that a worker that is not ready has finished or is in `lock`, the only call of a
worker that blocks; when no thread is ready those are all the workers, and
`LeftBehind` keeps this while main goes on to the sum.

`AppendsCounted` adds the count (`FileCounted`): the length of the file is the
number of additions, written as a function `f` of partial counts with
`f[k] = f[k - 1] + added[k]` over the workers, and an addition by worker `k` adds
one to `f` from `k` on. With `WorkersDone` the length is that of `verify` unless
there was a stall. The count is kept without any exclusion, because an
append reads nothing first. The other sums are read and stored in two steps, and
are wrong (`AccumulatorSum`).

### RunQueue

`QInv` in `QueueProofs.tla` says that there is a sequence of nodes for each
queue such that the `next` pointers lead from the head over the nodes to the
rear, the `prev` pointers lead back, `size` is its length, and no node is in two
places of the sequences (`OnceIn`). The last part is what makes it inductive: an
operation changes the pointers of two neighbours and of the node, and these are
the pointers of no other place only if every cell is in one. Each operation is proved to replace the sequences as
`Queues` says, which gives `TypeOK`, `LinksAgree` and `ImplementsQueues`. The
contents of a queue are defined by following pointers with a recursive function;
`FollowsChain` and `WalksChain` prove what it computes by taking a smallest number at
which it would differ, from the well-foundedness of the natural numbers. The
assumption that head and rear cells are no nodes (`RunQueueAssumption`) says that
the sentinels are blocks of their own.

### Only model-checked

- The liveness properties (`SchedulersLive`): fairness and ENABLED are out of the
  prover's reach.
- `EveryThreadPlaced`, `JoinersAreMoved` and `StallsAtEnd` for programs other
  than those that the theorems name. With several joining threads the feedback
  queue breaks them (`MlfqLostJoin`).
- `TasExclusive` with several mutexes and a main that locks, or with a `lock` that
  begins inside `init`: it is false, see above. `StacksOwn` and the refinement of
  `SwapContext` outside `DefaultBuild` likewise.
- The faults (the runs that find a violation) and what they need to occur.
- The amounts that the programs add: `Sum`, `Amounts` and `verify` are folds,
  and what a fold computes cannot be proved by induction here. `WorkersDone` needs
  only that a worker's amounts are a fixed sequence.

## Not modelled

- `src/mypthread_old.c` and `.h`: an earlier version that nothing builds.
  `src/test.c` and `test.h` are copies of the library with other comments,
  `src/myphread_second.c` is commented out, `src/para.c` is two constants.
- `main.c` and `pthreadSort.c`: their threads sort arrays of their own, which
  share nothing; `benchmarks/*.c` are the originals of modelled programs.
- The printing functions and `get_most_waiting_time_node`, which no code calls.
- The value that a thread *returns*: `makecontext` fixes the argument of
  `return_function` to that of the first `mypthread_create`, so that argument is
  the exit value of every thread that returns. The exit values in `Mlfq` are
  those of threads that call `mypthread_exit`; the shared stack is in
  `SwapContext`.
- What follows a crossing of two contexts in PSJF (in round robin `SwapContext`
  has it), and anything after a read of an unset sentinel or of a freed block.
- PSJF with mutexes: `unlock` may insert a woken thread before the running one,
  and `get_current_thread()` is then wrong. The mutex is modelled over the
  default scheduler. PSJF is not in `SwapContext` either: there every refused
  signal would change a waiting time.
- Concurrent calls of `mypthread_create` (only main creates threads in the
  programs here), and more than one mutex held by a thread.
- Reentrance of `malloc`, `free` and `printf` in the signal handler, the heap
  apart from the mutex nodes, and time: a quantum is longer than the few
  statements of a switch, nothing else.
- What the programs compute besides their sums.
