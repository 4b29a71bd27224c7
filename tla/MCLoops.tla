------------------------------ MODULE MCLoops ------------------------------
(* A small instance of GradeLoops for TLC: up to three rows with every mark*)
(* and share over small numbers, zeros and an infinite grade among them.   *)
EXTENDS GradeLoops

MCMarks  == [credit : 0 .. 3, total : 0 .. 3]
MCShares == [weight : 0 .. 2, grade : {0, 3333, 10000, Inf}]

ASSUME MCLoopsAssumption == LoopsAssumption
=============================================================================
