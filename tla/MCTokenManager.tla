--------------------------- MODULE MCTokenManager ---------------------------
(* Values for model checking TokenManager with TLC. *)
EXTENDS TokenManager, TLC

CONSTANTS c1, c2, tA, tB

\* Two clients of different tenants.
OneTenantEach == (c1 :> tA) @@ (c2 :> tB)

\* The clients with their tenants are interchangeable.
ClientSymmetry == {(c1 :> c2) @@ (c2 :> c1) @@ (tA :> tB) @@ (tB :> tA)}

\* Clients without tenants.
AllGlobal == [c \in Clients |-> Global]
=============================================================================
