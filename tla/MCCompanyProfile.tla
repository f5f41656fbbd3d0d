--------------------------- MODULE MCCompanyProfile ---------------------------
(***************************************************************************)
(* A small instance of CompanyProfile for TLC: one analysis knows the name *)
(* of the company alone, the letters of the others have both or a name.    *)
(* No symmetry: the run also checks liveness.                              *)
(***************************************************************************)
EXTENDS CompanyProfile

NameOnly == [domain : {None}, name : Names]
DomainAndName == [domain : Domains, name : Names]

MCLetters ==
  LET first == CHOOSE p \in Analyzers : TRUE IN
  [p \in Analyzers |-> IF p = first THEN NameOnly ELSE NameOnly \union DomainAndName]
=============================================================================
