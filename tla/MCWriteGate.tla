----------------------------- MODULE MCWriteGate -----------------------------
(* WriteGate for TLC: model values, and the symmetry of the safety runs.    *)
EXTENDS WriteGate, TLC

Symmetry == Permutations(Threads) \cup Permutations(Txns) \cup Permutations(Indexes)
====
