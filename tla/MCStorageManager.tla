-------------------------- MODULE MCStorageManager --------------------------
(* Values for model checking StorageManager with TLC. *)
EXTENDS StorageManager, TLC

CONSTANTS a, b, v, k1, k2

\* One tab that has its blob for itself beside one that may meet full storage at
\* any page load, two tabs on cookies, or one on cookies and one not.
TwoTabs ==
    {a :> {"session"} @@ b :> {"session", "cookie"},
     a :> {"cookie"}  @@ b :> {"cookie"},
     a :> {"cookie"}  @@ b :> {"session"}}

DataValues == {v, EmptyObject}
=============================================================================
