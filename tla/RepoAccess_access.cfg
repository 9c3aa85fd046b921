SPECIFICATION Spec
CONSTANTS
    a1 = a1
    u1 = u1
    r3 = r3
    Users = {u1, u2}
    Accounts = {a1, a2}
    Repos = {r1, r2, r3}
    Home <- HomeOne
    Stored <- StoredTwo
    Installed = {a1}
    Founder = u1
    Requests = {q1, q2}
    Syncs = {t1, t2}
    RepoLimit = 1
    External = External
    Nobody = Nobody
    Ops <- OpsAll
    MaxOps = 2
SYMMETRY Symmetry
INVARIANTS FlagFollowsStatus OwnInstallation   SlotsBound
PROPERTY PayerStays
CHECK_DEADLOCK FALSE
