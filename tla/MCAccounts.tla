----------------------------- MODULE MCAccounts -----------------------------
(***************************************************************************)
(* Small instances of Accounts for TLC: one mailbox with two spellings and *)
(* two Google identities, and one address, the web server, that all        *)
(* requests of the limiter come from.                                      *)
(***************************************************************************)
EXTENDS Accounts, TLC

CONSTANTS upper, lower

MCSpellings == {upper, lower}
MCLower == [e \in MCSpellings |-> lower]
MCEmailOf == [s \in Subjects |-> upper]

MCSymmetry == Permutations(Subjects) \union Permutations(Users)
                \union Permutations(Tokens) \union Permutations(Requests)
=============================================================================
