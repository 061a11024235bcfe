CONSTANTS
    A = A
    B = B
    ip1 = ip1
    ip2 = ip2
    db = db
    web = web
    r1 = r1
    r2 = r2
    c1 = c1
    c2 = c2
    NoKey = NoKey
    NoRef = NoRef
    Keys = {A, B}
    IPs = {ip1, ip2}
    Services = {db, web}
    Refs = {r1, r2}
    Conns = {c1}
    Configs <- MCConfigs
    Faults = {"revoke", "apply"}
    MaxGen = 3
SPECIFICATION FairSpec
INVARIANTS
    DeviceAgrees
    RevocationEffective
PROPERTIES
    RetiredReturns
    ImplementsRevocation
CHECK_DEADLOCK FALSE
