------------------------------ MODULE MCRecords ------------------------------
(* Records for TLC: payloads, and threads, are interchangeable. *)
EXTENDS Records, TLC

Symmetry == Permutations(Payloads) \cup Permutations(Threads)
====
