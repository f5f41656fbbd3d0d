------------------------- MODULE MCCompanyIdentity -------------------------
(***************************************************************************)
(* A small instance of CompanyIdentity for TLC: letters of two company     *)
(* names with and without one of two domains, some of them only as a link, *)
(* with the noise the extraction drops, and one with a domain that is too  *)
(* long.  They have three keys between them, hence as many companies.      *)
(***************************************************************************)
EXTENDS CompanyIdentity, TLC

CONSTANTS d1, d2, long, mail, form, n1, n2

Letter(emails, urls, name) == [emails |-> emails, urls |-> urls, name |-> name]

MCLetters ==
  {Letter({mail}, {form}, None), Letter({mail}, {form}, n1),
   Letter({mail, d1}, {d2}, n1), Letter({mail}, {form, d2}, n1), Letter({d1}, {}, n2),
   Letter({long}, {}, n1)}

MCSymmetry == Permutations(Analyses) \union Permutations(Ids)
=============================================================================
