----------------------------- MODULE MCBriefing -----------------------------
(* Constants of the TLC runs of Briefing.                                  *)
EXTENDS Briefing, TLC

CONSTANTS a, b, q1, q2, q3

T(id, q) == [id |-> id, query |-> q]

\* Two topics, the same ids in another agenda, and an id that repeats.
MCPlans == {<<T(a, q1), T(b, q2)>>, <<T(b, q1), T(a, q3)>>, <<T(a, q1), T(a, q2)>>}

MCNoPlan == <<>>

\* The first two of them.
MCTwoPlans == {<<T(a, q1), T(b, q2)>>, <<T(b, q1), T(a, q3)>>}

Symmetry == Permutations(Calls)
=============================================================================
