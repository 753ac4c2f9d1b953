----------------------------- MODULE KeyedStore -----------------------------
(***************************************************************************)
(* What a storage manager promises its owner: a map from keys to values    *)
(* that only the owner's calls change, each call as a whole or, if it      *)
(* throws, not at all.  A page that is left in the middle of a call leaves *)
(* the map as it was before the call.                                      *)
(***************************************************************************)

CONSTANTS
    Keys,
    Values,
    EmptyObject,    \* the value {}, one of Values
    Undefined       \* what get returns for a key that is not there

\* The whole blob, as its owner sees it.
Contents == [Keys -> Values \cup {Undefined}]

Cleared == [k \in Keys |-> Undefined]

\* The calls, named by method and by the key they are given, if any.
Idle == [method |-> "none"]
Calls ==
    [method: {"set"}, key: Keys, data: Values]
        \cup [method: {"setAll"}, data: Contents]
        \cup [method: {"delete", "clear"}, key: Keys]
        \cup [method: {"deleteAll", "clearAll"}]

VARIABLES
    store,      \* the map
    call,       \* the call in progress
    outcome     \* how the last call ended

kept == <<store, call, outcome>>

\* What a call makes of the map.
Applied(c, map) ==
    CASE c.method = "set"    -> [map EXCEPT ![c.key] = c.data]
      [] c.method = "setAll" -> c.data
      [] c.method = "delete" -> [map EXCEPT ![c.key] = Undefined]
      [] c.method = "clear"  -> [map EXCEPT ![c.key] = EmptyObject]
      [] c.method \in {"deleteAll", "clearAll"} -> Cleared

Init ==
    /\ store = Cleared
    /\ call = Idle
    /\ outcome = "none"

Begin ==
    /\ call = Idle
    /\ call' \in Calls
    /\ outcome' = "none"
    /\ UNCHANGED store

Return ==
    /\ call # Idle
    /\ store' = Applied(call, store)
    /\ call' = Idle
    /\ outcome' = "returned"

Throw ==
    /\ call # Idle
    /\ call' = Idle
    /\ outcome' = "thrown"
    /\ UNCHANGED store

LeavePage ==
    /\ call' = Idle
    /\ outcome' = "none"
    /\ UNCHANGED store

Next == Begin \/ Return \/ Throw \/ LeavePage

Spec == Init /\ [][Next]_kept
=============================================================================
