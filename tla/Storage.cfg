SPECIFICATION Spec
CONSTANTS
    a = a
    b = b
    v = v
    k1 = k1
    k2 = k2
    Tabs = {a, b}
    Keys = {k1, k2}
    Values <- DataValues
    EmptyObject = EmptyObject
    Undefined = Undefined
    NoItem = NoItem
    Media <- TwoTabs
INVARIANT
    TypeOK
PROPERTY
    AloneIsKeyedStore
