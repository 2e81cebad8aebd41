---------------------------- MODULE MCSchedulers ----------------------------
(***************************************************************************)
(* Instances of Schedulers for TLC.                                        *)
(***************************************************************************)
EXTENDS Schedulers

(* The programs of the repository: main creates the workers and joins each.   *)
Workers == Tid \ {Main}
MainJoinsWorkers == {Main} \X Workers

(* Main may exit, too, before or after it has joined them.                    *)
Everyone == Tid

(* The workers may join each other, too: a waiting join before or behind one  *)
(* that is over, two joins of one thread, and joins in a cycle.               *)
JoinsOfWorkers == {<<0, 1>>, <<1, 2>>, <<2, 1>>}

(* What malloc() may return: cleared memory, or a count of a freed block.     *)
AnyGarbage == {0, 2}
NoGarbage == {0}
=============================================================================
