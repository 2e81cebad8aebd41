--------------------------- MODULE MCSwapContext ---------------------------
(***************************************************************************)
(* Instances of SwapContext for TLC.                                       *)
(***************************************************************************)
EXTENDS SwapContext

(* The programs of the repository: main creates the workers and joins each.   *)
Workers == Tid \ {Main}
MainJoinsWorkers == {Main} \X Workers

(* Main joins one of two workers, which returns from its function.            *)
FirstWorker == {1}
MainJoinsFirst == {Main} \X FirstWorker

(* Main may exit, too; if there is no other worker yet, the last exit returns. *)
MainAndFirst == {Main} \cup FirstWorker
=============================================================================
