------------------------------ MODULE Threads ------------------------------
(***************************************************************************)
(* What the library promises its threads: an abstract specification        *)
(* without queues, priorities, lists or timers.  One thread runs at a      *)
(* time.  A thread is blocked only by its own join, only until its target  *)
(* exits, and only the exit of that target makes it ready; a join that     *)
(* waits returns after its target has exited; the processor is given to    *)
(* ready threads only.  When no thread is ready, the promise is void:      *)
(* whoever has the processor goes on, and its join returns at once.  Mlfq  *)
(* is shown to implement it.                                               *)
(***************************************************************************)

CONSTANTS Tid, Main, NoTarget

VARIABLES
  state,    \* of each thread: none, ready, blocked, exiting, exited
  running,  \* the thread whose code the processor executes
  target    \* the thread that a thread's join waits for, or NoTarget

vars == <<state, running, target>>

Init ==
  /\ state = [t \in Tid |-> "none"]
  /\ running = Main
  /\ target = [t \in Tid |-> NoTarget]

Becomes(t, s) == state' = [state EXCEPT ![t] = s]

(* The library is set up by main's first create ... *)
Begin ==
  /\ running = Main /\ state[Main] = "none"
  /\ Becomes(Main, "ready")
  /\ UNCHANGED <<running, target>>

(* ... and main makes the other threads. *)
Create(t) ==
  /\ running = Main /\ state[Main] = "ready"
  /\ state[t] = "none"
  /\ Becomes(t, "ready")
  /\ UNCHANGED <<running, target>>

(* The running thread decides to wait for u, ... *)
Await(u) ==
  /\ state[running] = "ready" /\ target[running] = NoTarget
  /\ state[u] # "exited"
  /\ target' = [target EXCEPT ![running] = u]
  /\ UNCHANGED <<state, running>>

(* ... it blocks, ... *)
Block ==
  /\ state[running] = "ready" /\ target[running] # NoTarget
  /\ state[target[running]] # "exited"
  /\ Becomes(running, "blocked")
  /\ UNCHANGED <<running, target>>

(* ... the exit of u makes it ready, ... *)
Wake(t) ==
  /\ state[running] = "exiting"
  /\ state[t] = "blocked" /\ target[t] = running
  /\ Becomes(t, "ready")
  /\ UNCHANGED <<running, target>>

NoneReady == \A t \in Tid : state[t] # "ready"

(* ... and its join returns; it also returns when it has blocked the last     *)
(* thread that was ready.                                                     *)
Return ==
  /\ target[running] # NoTarget
  /\ \/ state[running] = "ready" /\ state[target[running]] = "exited"
     \/ NoneReady
  /\ target' = [target EXCEPT ![running] = NoTarget]
  /\ UNCHANGED <<state, running>>

(* Exit, in two steps: the running thread is on its way out, and it is gone.  *)
Leave ==
  /\ state[running] = "ready" /\ target[running] = NoTarget
  /\ Becomes(running, "exiting")
  /\ UNCHANGED <<running, target>>

Gone ==
  /\ state[running] = "exiting"
  /\ Becomes(running, "exited")
  /\ UNCHANGED <<running, target>>

(* The processor passes to a ready thread, but not in the middle of an exit.  *)
Switch(t) ==
  /\ state[running] # "exiting" /\ state[t] = "ready"
  /\ running' = t
  /\ UNCHANGED <<state, target>>

Next ==
  \/ Begin \/ Block \/ Return \/ Leave \/ Gone
  \/ \E t \in Tid : Create(t) \/ Await(t) \/ Wake(t) \/ Switch(t)

Spec == Init /\ [][Next]_vars
=============================================================================
