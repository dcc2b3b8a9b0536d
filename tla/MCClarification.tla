-------------------------- MODULE MCClarification --------------------------
(* Constants of the TLC runs of Clarification.                             *)
EXTENDS Clarification, TLC

CONSTANTS q1, q2, t1, t2

\* q1 has both ambiguous terms, q2 one of them.
MCDetect == (q1 :> {t1, t2}) @@ (q2 :> {t2})

\* Object identities are interchangeable, and so are coroutines.
Symmetry == Permutations(Objects) \cup Permutations(Calls)
=============================================================================
