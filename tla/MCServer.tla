------------------------------ MODULE MCServer ------------------------------
(* A small instance of every part of Server for TLC. *)
EXTENDS Server, TLC

MCThresholds == <<1, 3, 5>>

\* Threads and keys are interchangeable.
MCSymmetry == Permutations(Threads) \cup Permutations(Keys)
=============================================================================
