------------------------- MODULE MCNodeAuthManager -------------------------
(* Values for model checking NodeAuthManager with TLC. *)
EXTENDS NodeAuthManager

CONSTANTS a, b

\* Two calls race each other in one process.
TwoCallers == {a, b}
=============================================================================
