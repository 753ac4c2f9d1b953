------------------------- MODULE MCSplunkAuthClient -------------------------
(* Values for model checking SplunkAuthClient with TLC. *)
EXTENDS SplunkAuthClient, TLC

CONSTANTS tA

SelfOnly == {Self}

\* The client's tokens are scoped to tenant tA, or to no tenant.
TenantScoped == Self :> tA
NotScoped == Self :> Global

\* Verifiers are drawn at random: no state tells one from another.
VerifierSymmetry == Permutations(Verifiers)
=============================================================================
