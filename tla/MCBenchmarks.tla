---------------------------- MODULE MCBenchmarks ----------------------------
(***************************************************************************)
(* Instances of Benchmarks for TLC: two or three rounds for each worker.   *)
(***************************************************************************)
EXTENDS Benchmarks

MainJoinsWorkers == {Main} \X Workers

TwoRecords == << <<1, 2>>, <<4>> >>
OneSmaller == <<TRUE, FALSE>>
=============================================================================
