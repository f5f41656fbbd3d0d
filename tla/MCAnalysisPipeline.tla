------------------------- MODULE MCAnalysisPipeline -------------------------
(***************************************************************************)
(* Small instances of AnalysisPipeline for TLC.                            *)
(***************************************************************************)
EXTENDS AnalysisPipeline, TLC

CONSTANTS u1

\* Every analysis is created by the one user, so that requests compete for
\* one balance.
MCOwner == [a \in Analyses |-> u1]

\* Interchangeable values; not used by the runs that check liveness.
MCSymmetry == Permutations(Analyses) \union Permutations(Workers) \union Permutations(Sweepers)
=============================================================================
