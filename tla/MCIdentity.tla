----------------------------- MODULE MCIdentity -----------------------------
(***************************************************************************)
(* Two tokens, of which the cache holds one; three calls, so that two may  *)
(* wait for the third.  A lifetime of two outlasts a question that takes   *)
(* one, and ends within a question that takes longer.                      *)
(***************************************************************************)
EXTENDS IdentityResolver

CONSTANTS phone, tablet, member, admin

mcTokens == {phone, tablet}
\* The phone opens its connections in parallel.
mcTokenOf == [c \in 1..3 |-> IF c = 3 THEN tablet ELSE phone]
mcIdentities == {member}
=============================================================================
