----------------------------- MODULE MCRunLoop ------------------------------
(* Model values and symmetry for checking RunLoop with TLC.                *)
EXTENDS RunLoop, TLC

CONSTANTS sub, res1, res2, wkr, st1, st2

\* The slots of the resume goroutines, and the steerers, are interchangeable.
Symmetry == Permutations(Resumers) \cup Permutations(Steerers)
=============================================================================
