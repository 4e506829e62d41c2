----------------------------- MODULE MCSessions -----------------------------
(* Model-checking instance of Sessions: the sessions are interchangeable.  *)
EXTENDS Sessions, TLC

Symmetry == Permutations(Session)
=============================================================================
