------------------------------ MODULE MCReports ------------------------------
(***************************************************************************)
(* Small instances of Reports for TLC.                                     *)
(***************************************************************************)
EXTENDS Reports, TLC

CONSTANTS r1, r2, r3

\* Similarity is not transitive: r2 resembles r1 and r3, which differ.
MCSimilar == {<<r, r>> : r \in Reports} \union {<<r1, r2>>, <<r2, r1>>, <<r2, r3>>, <<r3, r2>>}

MCSymmetry == Permutations(Moderators)
=============================================================================
