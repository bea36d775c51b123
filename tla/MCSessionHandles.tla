-------------------------- MODULE MCSessionHandles --------------------------
(* SessionHandles on a small system; threads are interchangeable and so are *)
(* the Session objects, whose identity no definition uses.                  *)
EXTENDS SessionHandles, TLC

Symmetry == Permutations(Threads) \cup Permutations(Slots)
=============================================================================
