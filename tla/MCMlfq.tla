------------------------------ MODULE MCMlfq ------------------------------
(***************************************************************************)
(* Instances of Mlfq for TLC: the joins and exits of the programs checked. *)
(***************************************************************************)
EXTENDS Mlfq

Workers == Tid \ {Main}

(* Any thread may join any other one.                                         *)
JoinsOfOthers == {p \in Tid \X Tid : p[1] # p[2]}
=============================================================================
