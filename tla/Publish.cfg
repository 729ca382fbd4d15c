\* Two builders whose configs list the two scopes in either order, two edits.
SPECIFICATION Spec
CONSTANTS
    s1 = s1
    s2 = s2
    Builders = {b1, b2}
    Scopes = {s1, s2}
    Main = main
    Orders <- MCOrders
    MaxEdits = 2
    Mixed = Mixed
    None = None
INVARIANTS
    TypeOK
    OutputsAgree
    ScopesStayLocked
PROPERTY
    BuildsEnd
