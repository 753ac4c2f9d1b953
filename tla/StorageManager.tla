--------------------------- MODULE StorageManager ---------------------------
(***************************************************************************)
(* The storage of the browser client, for one storage name: StorageManager *)
(* and StorageFactory of src/packages/cloud-auth-client/src/storage.       *)
(*                                                                         *)
(* A blob of keys and values is kept as one item of the session storage,   *)
(* which every tab has for itself, or as one cookie, which all tabs share. *)
(* The factory chooses when a page constructs the manager.  A call that    *)
(* changes one key reads the blob, changes it and writes it back; tabs run *)
(* in parallel, so a call of another tab may come in between.              *)
(***************************************************************************)

CONSTANTS
    Tabs,
    Keys,
    Values,
    EmptyObject,    \* {}
    Undefined,      \* no such key
    NoItem,         \* the medium holds no item of the name
    Media           \* which media the factory may find usable in which tab

Contents == [Keys -> Values \cup {Undefined}]

Cleared == [k \in Keys |-> Undefined]

Idle == [method |-> "none"]

\* The calls that write.
Calls ==
    [method: {"set"}, key: Keys, data: Values]
        \cup [method: {"setAll"}, data: Contents]
        \cup [method: {"delete", "clear"}, key: Keys]
        \cup [method: {"deleteAll", "clearAll"}]

\* A call and the item it has read, or would have.
NotCalled == [call |-> Idle, read |-> NoItem]

ASSUME StorageAssumption ==
    /\ EmptyObject \in Values
    /\ Undefined \notin Values
    /\ NoItem \notin Contents
    /\ Media \subseteq [Tabs -> (SUBSET {"session", "cookie"}) \ {{}}]

VARIABLES
    usable,     \* media the factory may choose, a member of Media
    medium,     \* the storage every tab's manager was constructed with
    session,    \* every tab's session storage
    cookie,     \* the cookie
    running,    \* the call every tab is in
    outcome     \* how every tab's last call ended

vars == <<usable, medium, session, cookie, running, outcome>>

-----------------------------------------------------------------------------
\* getItem, before anything is parsed.
Item(t) == IF medium[t] = "session" THEN session[t] ELSE cookie

\* get(): an item that is not there reads as undefined, and so does every key.
Blob(t) == IF Item(t) = NoItem THEN Cleared ELSE Item(t)

\* Faulty variant: the other keys are lost.
WithKeyAlone(blob, key, data) == [Cleared EXCEPT ![key] = data]

\* Faulty variant: the item becomes an object of that key only.
WithKeyAsItem(blob, key, data) == [k \in {key} |-> data]

\* The blob with one key changed.
WithKey(blob, key, data) == [blob EXCEPT ![key] = data]

\* What set, delete and clear write, or remove, having read the item.
NewItem(call, item) ==
    LET blob == IF item = NoItem THEN Cleared ELSE item
    IN  CASE call.method = "set"       -> WithKey(blob, call.key, call.data)
          [] call.method = "setAll"    -> call.data
          [] call.method = "delete"    -> WithKey(blob, call.key, Undefined)
          [] call.method = "clear"     -> WithKey(blob, call.key, EmptyObject)
          [] call.method = "deleteAll" -> NoItem
          [] call.method = "clearAll"  -> Cleared

\* clear(key) reads a property of undefined when there is no item.
Misses(call, item) == call.method = "clear" /\ item = NoItem

\* delete(key) changes nothing when there is no item.
WritesNothing(call, item) == call.method = "delete" /\ item = NoItem

\* setItem or removeItem.
Write(t, item) ==
    IF medium[t] = "session"
    THEN session' = [session EXCEPT ![t] = item] /\ UNCHANGED cookie
    ELSE cookie' = item /\ UNCHANGED session

\* The session storage may be full; removing an item always succeeds.
MayThrow(t) ==
    /\ medium[t] = "session"
    /\ ~WritesNothing(running[t].call, running[t].read)
    /\ running[t].call.method # "deleteAll"

-----------------------------------------------------------------------------
\* A call up to the item it reads.
BeginCall(t) ==
    /\ running[t] = NotCalled
    /\ \E c \in Calls : running' = [running EXCEPT ![t] = [call |-> c, read |-> Item(t)]]
    /\ outcome' = [outcome EXCEPT ![t] = "none"]
    /\ UNCHANGED <<usable, medium, session, cookie>>

\* The rest of it.
EndCall(t) ==
    /\ running[t] # NotCalled
    /\ ~Misses(running[t].call, running[t].read)
    /\ IF WritesNothing(running[t].call, running[t].read)
       THEN UNCHANGED <<session, cookie>>
       ELSE Write(t, NewItem(running[t].call, running[t].read))
    /\ running' = [running EXCEPT ![t] = NotCalled]
    /\ outcome' = [outcome EXCEPT ![t] = "returned"]
    /\ UNCHANGED <<usable, medium>>

\* The storage rejects the item, or there is none to clear a key of.
CallThrows(t) ==
    /\ running[t] # NotCalled
    /\ MayThrow(t) \/ Misses(running[t].call, running[t].read)
    /\ running' = [running EXCEPT ![t] = NotCalled]
    /\ outcome' = [outcome EXCEPT ![t] = "thrown"]
    /\ UNCHANGED <<usable, medium, session, cookie>>

\* StorageFactory.get: session storage if a test item can be written to it,
\* cookies otherwise.
GetStorage(t) == \E m \in usable[t] : medium' = [medium EXCEPT ![t] = m]

\* A page is loaded in the tab, whatever the last one was doing.
LoadPage(t) ==
    /\ GetStorage(t)
    /\ running' = [running EXCEPT ![t] = NotCalled]
    /\ outcome' = [outcome EXCEPT ![t] = "none"]
    /\ UNCHANGED <<usable, session, cookie>>

Init ==
    /\ usable \in Media
    /\ medium \in [Tabs -> {"session", "cookie"}]
    /\ \A t \in Tabs : medium[t] \in usable[t]
    /\ session = [t \in Tabs |-> NoItem]
    /\ cookie = NoItem
    /\ running = [t \in Tabs |-> NotCalled]
    /\ outcome = [t \in Tabs |-> "none"]

Next == \E t \in Tabs : BeginCall(t) \/ EndCall(t) \/ CallThrows(t) \/ LoadPage(t)

Spec == Init /\ [][Next]_vars

-----------------------------------------------------------------------------
\* Type correctness of the media and the calls.
TypeOK ==
    /\ usable \in Media
    /\ medium \in [Tabs -> {"session", "cookie"}]
    /\ session \in [Tabs -> Contents \cup {NoItem}]
    /\ cookie \in Contents \cup {NoItem}
    /\ running \in [Tabs -> [call: Calls \cup {Idle}, read: Contents \cup {NoItem}]]
    /\ outcome \in [Tabs -> {"none", "returned", "thrown"}]

\* The tab has its blob for itself: it always gets the session storage, or it
\* always gets the cookie and no other tab ever does.
Alone(t) ==
    \/ usable[t] = {"session"}
    \/ usable[t] = {"cookie"} /\ \A u \in Tabs \ {t} : "cookie" \notin usable[u]

Store(t) ==
    INSTANCE KeyedStore WITH
        store   <- Blob(t),
        call    <- running[t].call,
        outcome <- outcome[t]

\* To a tab that has its blob for itself the manager is a map that changes by
\* whole calls: no other tab's call shows, no call changes a key it does not
\* name, and one that throws, or that a page does not live to finish, changes
\* none (storage-manager.ts:50-131, storage-factory.ts:53-60).
AloneIsKeyedStore ==
    /\ \A t \in Tabs : Store(t)!Init
    /\ [][\A t \in Tabs : Alone(t) => [Store(t)!Next]_(Store(t)!kept)]_vars
=============================================================================
