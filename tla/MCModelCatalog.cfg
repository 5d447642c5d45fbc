CONSTANTS
    Models = {m1, m2, m3}
    Capabilities = {chat}
    Chat = chat
    Requests = {r1, r2}
    Seeds = {m1}
    SeedDefault = m1
    None = None
SPECIFICATION CatalogSpec
INVARIANT CatalogInv
PROPERTY DefaultsOutliveOthers
SYMMETRY Symmetry
CHECK_DEADLOCK FALSE
