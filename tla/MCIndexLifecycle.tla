--------------------------- MODULE MCIndexLifecycle ---------------------------
(* IndexLifecycle for TLC: model values, and the symmetry of the safety runs. *)
EXTENDS IndexLifecycle, TLC

Symmetry ==
  Permutations(Threads) \cup Permutations(Structures) \cup Permutations(Handles)
    \cup Permutations(Names)
====
