------------------------------ MODULE MCMutex ------------------------------
(***************************************************************************)
(* Instances of Mutex for TLC.  The joins and exits of the threads are     *)
(* checked with Mlfq; here the threads only lock, unlock and yield.        *)
(***************************************************************************)
EXTENDS Mutex

NoJoins == {}
NoExits == {}
=============================================================================
