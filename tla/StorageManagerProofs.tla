------------------------ MODULE StorageManagerProofs ------------------------
(***************************************************************************)
(* Theorems about StorageManager, for any number of tabs, keys and values: *)
(* to a tab that has its blob for itself it implements KeyedStore.         *)
(***************************************************************************)
EXTENDS StorageManager, TLAPS

-----------------------------------------------------------------------------
(***************************************************************************)
(* The items that calls write.                                             *)
(***************************************************************************)

\* The blob without keys is a blob.
LEMMA ClearedIsContents == Cleared \in Contents
  BY DEF Cleared, Contents

\* Changing a key yields a blob.
LEMMA WithKeyType ==
    ASSUME NEW blob \in Contents, NEW key \in Keys, NEW data \in Values \cup {Undefined}
    PROVE  WithKey(blob, key, data) \in Contents
  BY DEF WithKey, Contents

\* A call writes a blob or removes the item.
LEMMA NewItemType ==
    ASSUME NEW call \in Calls, NEW item \in Contents \cup {NoItem}
    PROVE  NewItem(call, item) \in Contents \cup {NoItem}
  <1> DEFINE blob == IF item = NoItem THEN Cleared ELSE item
  <1>1. blob \in Contents
    BY ClearedIsContents
  <1>2. CASE call.method = "set"
    <2>1. call.key \in Keys /\ call.data \in Values
      BY <1>2 DEF Calls
    <2> QED
      BY <1>1, <1>2, <2>1, WithKeyType DEF NewItem
  <1>3. CASE call.method = "setAll"
    <2>1. call.data \in Contents
      BY <1>3 DEF Calls
    <2> QED
      BY <1>3, <2>1 DEF NewItem
  <1>4. CASE call.method = "delete"
    <2>1. call.key \in Keys
      BY <1>4 DEF Calls
    <2> QED
      BY <1>1, <1>4, <2>1, WithKeyType DEF NewItem
  <1>5. CASE call.method = "clear"
    <2>1. call.key \in Keys /\ EmptyObject \in Values
      BY <1>5, StorageAssumption DEF Calls
    <2> QED
      BY <1>1, <1>5, <2>1, WithKeyType DEF NewItem
  <1>6. CASE call.method \in {"deleteAll", "clearAll"}
    BY <1>6, ClearedIsContents DEF NewItem
  <1>7. call.method \in {"set", "setAll", "delete", "clear", "deleteAll", "clearAll"}
    BY DEF Calls
  <1> QED
    BY <1>2, <1>3, <1>4, <1>5, <1>6, <1>7

\* What an item shows when it is read.
Shown(item) == IF item = NoItem THEN Cleared ELSE item

\* Written over an item, what a call writes shows as the map with the call applied.
LEMMA NewItemApplies ==
    ASSUME NEW t \in Tabs, NEW call \in Calls, NEW item \in Contents \cup {NoItem},
           ~Misses(call, item)
    PROVE  Shown(NewItem(call, item)) = Store(t)!Applied(call, Shown(item))
  <1> DEFINE new == NewItem(call, item)
  <1>1. NoItem \notin Contents /\ Cleared \in Contents
    BY StorageAssumption, ClearedIsContents
  <1>2. Shown(item) \in Contents
    BY <1>1 DEF Shown
  <1>3. CASE call.method = "set"
    <2>1. call.key \in Keys /\ call.data \in Values
      BY <1>3 DEF Calls
    <2>2. new = WithKey(Shown(item), call.key, call.data)
      BY <1>3 DEF NewItem, Shown
    <2>3. new \in Contents
      BY <1>2, <2>1, <2>2, WithKeyType
    <2> QED
      BY <1>1, <1>3, <2>2, <2>3 DEF Shown, WithKey, Store!Applied
  <1>4. CASE call.method = "setAll"
    <2>1. call.data \in Contents
      BY <1>4 DEF Calls
    <2> QED
      BY <1>1, <1>4, <2>1 DEF NewItem, Shown, Store!Applied
  <1>5. CASE call.method = "delete"
    <2>1. call.key \in Keys
      BY <1>5 DEF Calls
    <2>2. new = WithKey(Shown(item), call.key, Undefined)
      BY <1>5 DEF NewItem, Shown
    <2>3. new \in Contents
      BY <1>2, <2>1, <2>2, WithKeyType
    <2> QED
      BY <1>1, <1>5, <2>2, <2>3 DEF Shown, WithKey, Store!Applied
  <1>7. CASE call.method = "clear"
    <2>1. call.key \in Keys /\ EmptyObject \in Values
      BY <1>7, StorageAssumption DEF Calls
    <2>2. new = WithKey(Shown(item), call.key, EmptyObject)
      BY <1>7 DEF NewItem, Shown
    <2>3. new \in Contents
      BY <1>2, <2>1, <2>2, WithKeyType
    <2> QED
      BY <1>1, <1>7, <2>2, <2>3 DEF Shown, WithKey, Store!Applied
  <1>8. CASE call.method \in {"deleteAll", "clearAll"}
    BY <1>1, <1>8 DEF NewItem, Shown, Store!Applied, Cleared, Store!Cleared
  <1>9. call.method \in {"set", "setAll", "delete", "clear", "deleteAll", "clearAll"}
    BY DEF Calls
  <1> QED
    BY <1>3, <1>4, <1>5, <1>7, <1>8, <1>9

\* Where nothing is written, the map with the call applied is the map.
LEMMA NothingApplies ==
    ASSUME NEW t \in Tabs, NEW call \in Calls, WritesNothing(call, NoItem)
    PROVE  Store(t)!Applied(call, Shown(NoItem)) = Shown(NoItem)
  <1>1. call.method = "delete" /\ call.key \in Keys
    BY DEF WritesNothing, Calls
  <1>2. [Cleared EXCEPT ![call.key] = Undefined] = Cleared
    BY <1>1 DEF Cleared
  <1> QED
    BY <1>1, <1>2 DEF Shown, Store!Applied

-----------------------------------------------------------------------------
(***************************************************************************)
(* The invariant.                                                          *)
(***************************************************************************)

\* A call that is running is one of the calls that write.
CallInv ==
    \A t \in Tabs :
        /\ running[t] = NotCalled \/ running[t].call \in Calls
        /\ medium[t] \in usable[t]

\* What the call of a tab that is alone has read is still there.
ReadInv ==
    \A t \in Tabs :
        Alone(t) /\ running[t] # NotCalled => running[t].read = Item(t)

StoreInv == TypeOK /\ CallInv /\ ReadInv

\* Items are blobs.
LEMMA ItemType ==
    ASSUME TypeOK, NEW t \in Tabs
    PROVE  Item(t) \in Contents \cup {NoItem}
  BY DEF TypeOK, Item

\* Idle is not a call.
LEMMA IdleIsNoCall == Idle \notin Calls
  BY DEF Idle, Calls

\* The medium of a tab that is alone is always the same one.
LEMMA AloneMedium ==
    ASSUME CallInv, NEW t \in Tabs, Alone(t)
    PROVE  \/ usable[t] = {"session"} /\ medium[t] = "session"
           \/ /\ usable[t] = {"cookie"} /\ medium[t] = "cookie"
              /\ \A u \in Tabs \ {t} : "cookie" \notin usable[u] /\ medium[u] # "cookie"
  BY DEF CallInv, Alone

\* A step of one tab leaves the calls of the others, and the blob of a tab that
\* is alone, as they are.
LEMMA OthersKept ==
    ASSUME TypeOK, CallInv, NEW t \in Tabs, NEW u \in Tabs \ {t},
           BeginCall(u) \/ EndCall(u) \/ CallThrows(u) \/ LoadPage(u)
    PROVE  /\ running'[t] = running[t] /\ outcome'[t] = outcome[t]
           /\ usable' = usable /\ medium'[t] = medium[t]
           /\ Alone(t) => Item(t)' = Item(t)
  <1>1. /\ running'[t] = running[t] /\ outcome'[t] = outcome[t]
        /\ usable' = usable /\ medium'[t] = medium[t]
    BY DEF TypeOK, BeginCall, EndCall, CallThrows, LoadPage, GetStorage
  <1>2. ASSUME Alone(t)
        PROVE  Item(t)' = Item(t)
    <2>1. session'[t] = session[t]
      BY DEF TypeOK, BeginCall, EndCall, CallThrows, LoadPage, Write
    <2>2. medium[t] = "session" \/ cookie' = cookie
      <3>1. medium[t] = "session" \/ medium[u] # "cookie"
        BY <1>2, AloneMedium
      <3>2. medium[u] \in {"session", "cookie"}
        BY DEF TypeOK
      <3> QED
        BY <3>1, <3>2 DEF BeginCall, EndCall, CallThrows, LoadPage, Write
    <2> QED
      BY <1>1, <2>1, <2>2 DEF Item
  <1> QED
    BY <1>1, <1>2

\* The invariant holds initially.
LEMMA TypeInit == Init => TypeOK /\ CallInv /\ ReadInv
  <1>1. Init => TypeOK
    BY DEF Init, TypeOK, NotCalled
  <1> QED
    BY <1>1 DEF Init, CallInv, ReadInv

\* Every step preserves the types, and the calls are calls that write.
LEMMA TypeStep ==
    ASSUME TypeOK, CallInv, [Next]_vars
    PROVE  TypeOK' /\ CallInv'
  <1>1. CASE UNCHANGED vars
    BY <1>1 DEF vars, TypeOK, CallInv
  <1>2. ASSUME NEW t \in Tabs, BeginCall(t)
        PROVE  TypeOK' /\ CallInv'
    <2>1. PICK c \in Calls : running' = [running EXCEPT ![t] = [call |-> c, read |-> Item(t)]]
      BY <1>2 DEF BeginCall
    <2>2. outcome' = [outcome EXCEPT ![t] = "none"] /\ UNCHANGED <<usable, medium, session, cookie>>
      BY <1>2 DEF BeginCall
    <2>3. TypeOK'
      BY <2>1, <2>2, ItemType DEF TypeOK
    <2>4. CallInv'
      BY <2>1, <2>2 DEF TypeOK, CallInv
    <2> QED
      BY <2>3, <2>4
  <1>3. ASSUME NEW t \in Tabs, EndCall(t)
        PROVE  TypeOK' /\ CallInv'
    <2> DEFINE item == NewItem(running[t].call, running[t].read)
    <2>1. /\ running' = [running EXCEPT ![t] = NotCalled]
          /\ outcome' = [outcome EXCEPT ![t] = "returned"]
          /\ UNCHANGED <<usable, medium>>
          /\ Write(t, item) \/ UNCHANGED <<session, cookie>>
      BY <1>3 DEF EndCall
    <2>2. running[t].call \in Calls /\ running[t].read \in Contents \cup {NoItem}
      BY <1>3 DEF EndCall, CallInv, TypeOK
    <2>3. item \in Contents \cup {NoItem}
      BY <2>2, NewItemType
    <2>4. /\ session' \in [Tabs -> Contents \cup {NoItem}]
          /\ cookie' \in Contents \cup {NoItem}
      BY <2>1, <2>3 DEF TypeOK, Write
    <2>5. TypeOK'
      BY <2>1, <2>4 DEF TypeOK, NotCalled
    <2>6. CallInv'
      BY <2>1 DEF TypeOK, CallInv
    <2> QED
      BY <2>5, <2>6
  <1>4. ASSUME NEW t \in Tabs, CallThrows(t)
        PROVE  TypeOK' /\ CallInv'
    <2>1. TypeOK'
      BY <1>4 DEF CallThrows, TypeOK, NotCalled
    <2>2. CallInv'
      BY <1>4 DEF CallThrows, TypeOK, CallInv
    <2> QED
      BY <2>1, <2>2
  <1>5. ASSUME NEW t \in Tabs, LoadPage(t)
        PROVE  TypeOK' /\ CallInv'
    <2>1. PICK m \in usable[t] : medium' = [medium EXCEPT ![t] = m]
      BY <1>5 DEF LoadPage, GetStorage
    <2>2. m \in {"session", "cookie"}
      BY <2>1, StorageAssumption DEF TypeOK
    <2>3. TypeOK'
      BY <1>5, <2>1, <2>2 DEF LoadPage, TypeOK, NotCalled
    <2>4. CallInv'
      BY <1>5, <2>1 DEF LoadPage, TypeOK, CallInv
    <2> QED
      BY <2>3, <2>4
  <1> QED
    BY <1>1, <1>2, <1>3, <1>4, <1>5 DEF Next

\* What a lonely call has read is not overtaken.
LEMMA ReadStep ==
    ASSUME StoreInv, [Next]_vars
    PROVE  ReadInv'
  <1> SUFFICES ASSUME NEW t \in Tabs, Alone(t)', running'[t] # NotCalled
               PROVE  running'[t].read = Item(t)'
    BY DEF ReadInv
  <1>1. CASE UNCHANGED vars
    BY <1>1 DEF vars, StoreInv, ReadInv, Alone, Item
  <1>2. ASSUME NEW u \in Tabs, BeginCall(u) \/ EndCall(u) \/ CallThrows(u) \/ LoadPage(u)
        PROVE  running'[t].read = Item(t)'
    <2>1. usable' = usable
      BY <1>2 DEF BeginCall, EndCall, CallThrows, LoadPage
    <2>2. Alone(t)
      BY <2>1 DEF Alone
    <2>3. CASE u # t
      BY <1>2, <2>2, <2>3, OthersKept DEF StoreInv, ReadInv
    <2>4. CASE u = t
      <3>1. BeginCall(t)
        BY <1>2, <2>4 DEF EndCall, CallThrows, LoadPage, StoreInv, TypeOK
      <3> QED
        BY <3>1 DEF BeginCall, Item, StoreInv, TypeOK
    <2> QED
      BY <2>3, <2>4
  <1> QED
    BY <1>1, <1>2 DEF Next

\* In every reachable state a tab that is alone finds what its call has read.
THEOREM Invariant == Spec => []StoreInv
  <1>1. Init => StoreInv
    BY TypeInit DEF StoreInv
  <1>2. StoreInv /\ [Next]_vars => StoreInv'
    BY TypeStep, ReadStep DEF StoreInv
  <1> QED
    BY <1>1, <1>2, PTL DEF Spec

\* Type correctness of the media and the calls.
THEOREM TypeCorrect == Spec => []TypeOK
  <1>1. StoreInv => TypeOK
    BY DEF StoreInv
  <1> QED
    BY <1>1, Invariant, PTL

-----------------------------------------------------------------------------
(***************************************************************************)
(* The refinement: every step maps to a step of KeyedStore or a stutter.   *)
(***************************************************************************)

\* The blob is what the item shows.
LEMMA BlobShows == ASSUME NEW t \in Tabs PROVE Blob(t) = Shown(Item(t))
  BY DEF Blob, Shown

\* The two modules have the same calls.
LEMMA SameCalls ==
    ASSUME NEW t \in Tabs
    PROVE  Store(t)!Calls = Calls /\ Store(t)!Idle = Idle
  BY DEF Calls, Store!Calls, Contents, Store!Contents, Idle, Store!Idle

\* A tab that is alone reads what it has written.
LEMMA WrittenItem ==
    ASSUME TypeOK, CallInv, NEW t \in Tabs, NEW item, Write(t, item), medium' = medium
    PROVE  Item(t)' = item
  BY DEF Write, Item, TypeOK

\* The steps of the tab itself.
LEMMA OwnStep ==
    ASSUME StoreInv, NEW t \in Tabs, Alone(t),
           BeginCall(t) \/ EndCall(t) \/ CallThrows(t) \/ LoadPage(t)
    PROVE  Store(t)!Next
  <1> USE DEF StoreInv
  <1>1. CASE BeginCall(t)
    <2>1. PICK c \in Calls : running' = [running EXCEPT ![t] = [call |-> c, read |-> Item(t)]]
      BY <1>1 DEF BeginCall
    <2>2. running[t] = NotCalled /\ running'[t].call = c /\ outcome'[t] = "none"
          /\ UNCHANGED <<medium, session, cookie>>
      BY <1>1, <2>1 DEF BeginCall, TypeOK
    <2>3. Blob(t)' = Blob(t)
      BY <2>2 DEF Blob, Item
    <2>4. Store(t)!Begin
      BY <2>1, <2>2, <2>3, SameCalls DEF Store!Begin, NotCalled
    <2> QED
      BY <2>4 DEF Store!Next
  <1>2. CASE EndCall(t)
    <2> DEFINE call == running[t].call
               item == NewItem(call, running[t].read)
    <2>1. /\ running[t] # NotCalled /\ ~Misses(call, running[t].read)
          /\ medium' = medium
          /\ running'[t] = NotCalled /\ outcome'[t] = "returned"
      BY <1>2 DEF EndCall, TypeOK
    <2>2. call \in Calls /\ running[t].read = Item(t)
      BY <2>1 DEF CallInv, ReadInv
    <2>3. ASSUME WritesNothing(call, Item(t))
          PROVE  Blob(t)' = Store(t)!Applied(call, Blob(t))
      <3>1. Item(t)' = Item(t) /\ Item(t) = NoItem
        BY <1>2, <2>1, <2>2, <2>3 DEF EndCall, Item, WritesNothing
      <3>2. Store(t)!Applied(call, Shown(NoItem)) = Shown(NoItem)
        BY <2>2, <2>3, <3>1, NothingApplies
      <3> QED
        BY <3>1, <3>2 DEF Blob, Shown
    <2>4. ASSUME ~WritesNothing(call, Item(t))
          PROVE  Blob(t)' = Store(t)!Applied(call, Blob(t))
      <3>1. Write(t, item)
        BY <1>2, <2>2, <2>4 DEF EndCall
      <3>2. Blob(t)' = Shown(item)
        BY <2>1, <3>1, WrittenItem DEF Blob, Shown
      <3>3. Shown(item) = Store(t)!Applied(call, Shown(Item(t)))
        BY <2>1, <2>2, ItemType, NewItemApplies
      <3> QED
        BY <3>2, <3>3, BlobShows
    <2>5. Store(t)!Return
      <3>1. Blob(t)' = Store(t)!Applied(call, Blob(t))
        BY <2>3, <2>4
      <3> QED
        BY <2>1, <2>2, <3>1, SameCalls, IdleIsNoCall DEF Store!Return, NotCalled
    <2> QED
      BY <2>5 DEF Store!Next
  <1>3. CASE CallThrows(t)
    <2>1. running[t].call \in Calls /\ running'[t] = NotCalled /\ outcome'[t] = "thrown"
          /\ UNCHANGED <<medium, session, cookie>>
      BY <1>3 DEF CallThrows, CallInv, TypeOK
    <2>2. Blob(t)' = Blob(t)
      BY <2>1 DEF Blob, Item
    <2>3. Store(t)!Throw
      BY <2>1, <2>2, SameCalls, IdleIsNoCall DEF Store!Throw, NotCalled
    <2> QED
      BY <2>3 DEF Store!Next
  <1>4. CASE LoadPage(t)
    <2>1. running'[t] = NotCalled /\ outcome'[t] = "none" /\ UNCHANGED <<session, cookie>>
      BY <1>4 DEF LoadPage, TypeOK
    <2>2. medium'[t] = medium[t]
      BY <1>4, AloneMedium DEF LoadPage, GetStorage, TypeOK
    <2>3. Blob(t)' = Blob(t)
      BY <2>1, <2>2 DEF Blob, Item
    <2>4. Store(t)!LeavePage
      BY <2>1, <2>3, SameCalls DEF Store!LeavePage, NotCalled
    <2> QED
      BY <2>4 DEF Store!Next
  <1> QED
    BY <1>1, <1>2, <1>3, <1>4

\* Every step, as a tab that is alone sees it.
LEMMA StoreStep ==
    ASSUME StoreInv, [Next]_vars, NEW t \in Tabs, Alone(t)
    PROVE  [Store(t)!Next]_(Store(t)!kept)
  <1>1. CASE UNCHANGED vars
    <2>1. Blob(t)' = Blob(t) /\ running' = running /\ outcome' = outcome
      BY <1>1 DEF vars, Blob, Item
    <2> QED
      BY <2>1 DEF Store!kept
  <1>2. ASSUME NEW u \in Tabs, BeginCall(u) \/ EndCall(u) \/ CallThrows(u) \/ LoadPage(u)
        PROVE  [Store(t)!Next]_(Store(t)!kept)
    <2>1. CASE u = t
      BY <1>2, <2>1, OwnStep
    <2>2. CASE u # t
      <3>1. running'[t] = running[t] /\ outcome'[t] = outcome[t] /\ Item(t)' = Item(t)
        BY <1>2, <2>2, OthersKept DEF StoreInv
      <3>2. Blob(t)' = Blob(t)
        BY <3>1 DEF Blob
      <3> QED
        BY <3>1, <3>2 DEF Store!kept
    <2> QED
      BY <2>1, <2>2
  <1> QED
    BY <1>1, <1>2 DEF Next

\* To a tab that has its blob for itself the manager is a map that changes by
\* whole calls of its own (storage-manager.ts:50-131, storage-factory.ts:53-60).
THEOREM Implements == Spec => AloneIsKeyedStore
  <1>1. Init => \A t \in Tabs : Store(t)!Init
    <2> SUFFICES ASSUME Init, NEW t \in Tabs
                 PROVE  Store(t)!Init
      OBVIOUS
    <2>1. Item(t) = NoItem
      BY DEF Init, Item
    <2>2. Blob(t) = Store(t)!Cleared
      BY <2>1 DEF Blob, Cleared, Store!Cleared
    <2>3. running[t].call = Store(t)!Idle /\ outcome[t] = "none"
      BY SameCalls DEF Init, NotCalled
    <2> QED
      BY <2>2, <2>3 DEF Store!Init
  <1>2. StoreInv /\ [Next]_vars
          => [\A t \in Tabs : Alone(t) => [Store(t)!Next]_(Store(t)!kept)]_vars
    BY StoreStep
  <1> QED
    BY <1>1, <1>2, Invariant, PTL DEF Spec, AloneIsKeyedStore
=============================================================================
