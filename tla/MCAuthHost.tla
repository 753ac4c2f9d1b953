----------------------------- MODULE MCAuthHost -----------------------------
(* Values for model checking AuthHost with TLC. *)
EXTENDS AuthHost

CONSTANTS t1, t2

TwoTenants == {t1, t2}

\* The name of t1 begins that of t2 and that of the domain, and the name of t2
\* begins with 'region-'.
Overlaps ==
    {<<t1, t1>>, <<t2, t2>>, <<System, System>>, <<t2, t1>>, <<Domain, t1>>,
     <<t2, RegionPrefix>>}
=============================================================================
