SPECIFICATION Spec
CONSTANTS
    Clients = {t1, t2}
    PtzWorker = ptz
    Ips = {nvr}
    Ids = {i1, i2, i3}
    None = None
    MaxReferences = 2
    PtzLimit = 1
SYMMETRY Symmetry
INVARIANTS
    TypeOK
    SessionHasOneOwner
    SharedIsReferenced
