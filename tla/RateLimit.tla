----------------------------- MODULE RateLimit -----------------------------
(***************************************************************************)
(* The fixed-window limiter of core/rate_limit.py: a Redis counter for     *)
(* each key, created by the first attempt of a window and deleted by its   *)
(* expiry.  Counting (INCR) and setting the expiry (EXPIRE) are two calls: *)
(* the caller that got 1 makes the second one.  The window ends by itself  *)
(* only where the expiry was set.                                          *)
(*                                                                         *)
(* Accounts composes these steps with the requests that make them.         *)
(***************************************************************************)
EXTENDS Naturals

CONSTANTS
  Keys,         \* "ratelimit:<key>:ip:<address>"
  MaxAttempts   \* max_attempts of one window

ASSUME RateLimitAssumption == MaxAttempts \in Nat \ {0}

VARIABLES
  attempts,     \* the counter of each key, 0 where the key does not exist
  expiring,     \* keys with an expiry
  \* history, for the properties
  admitted,     \* attempts let through in the window of each key
  orphaned      \* keys whose first caller died before it set the expiry

limits == <<attempts, expiring, admitted, orphaned>>

\* Bound: a counter stands still one above the limit; nothing tells higher
\* values apart.
Refusing == MaxAttempts + 1

LimitsTypeOK ==
  /\ attempts \in [Keys -> 0..Refusing]
  /\ expiring \in SUBSET Keys
  /\ admitted \in [Keys -> 0..Refusing]
  /\ orphaned \in SUBSET Keys

LimitsInit ==
  /\ attempts = [k \in Keys |-> 0]
  /\ expiring = {}
  /\ admitted = [k \in Keys |-> 0]
  /\ orphaned = {}

-----------------------------------------------------------------------------
\* What INCR returns to the next attempt at k.
Current(k) == IF attempts[k] = Refusing THEN Refusing ELSE attempts[k] + 1

\* Mutations: one attempt too many, and the expiry set at the limit only.
AdmitsOneMore(current) == current <= MaxAttempts + 1
OpensAtLimit(current) == current = MaxAttempts

\* An attempt that got this number is let through.
Admits(current) == current <= MaxAttempts

\* The caller that got this number sets the expiry.
OpensWindow(current) == current = 1

Increment(k) ==
  /\ attempts' = [attempts EXCEPT ![k] = Current(k)]
  /\ admitted' = IF Admits(Current(k)) THEN [admitted EXCEPT ![k] = @ + 1]
                                       ELSE admitted
  /\ UNCHANGED <<expiring, orphaned>>

SetExpiry(k) ==
  /\ expiring' = expiring \union {k}
  /\ UNCHANGED <<attempts, admitted, orphaned>>

WindowEnds(k) ==
  /\ k \in expiring
  /\ attempts' = [attempts EXCEPT ![k] = 0]
  /\ admitted' = [admitted EXCEPT ![k] = 0]
  /\ expiring' = expiring \ {k}
  /\ UNCHANGED orphaned

\* The caller of SetExpiry(k) dies.
Orphan(k) ==
  /\ orphaned' = orphaned \union {k}
  /\ UNCHANGED <<attempts, expiring, admitted>>
=============================================================================
