------------------------------ MODULE MCBilling ------------------------------
(***************************************************************************)
(* Small instances of Billing for TLC.                                     *)
(***************************************************************************)
EXTENDS Billing, TLC

CONSTANTS u1, u2

\* Users other than these choose a plan without credits.
MCCreditless == (Users \ {u1, u2}) \X Subs

\* Interchangeable values; not used by the run that checks liveness.
MCSymmetry == Permutations(Subs) \union Permutations(Requests) \union Permutations(Handlers)
=============================================================================
