SPECIFICATION StoreSpec
CONSTANTS
    alice = alice  num = num  hex = hex
    aliceKey = aliceKey  hashKey = hashKey
    t1 = t1  t2 = t2
    Tasks = {t1, t2}
    Users = {alice, num, hex}
    Vendors = {"claude"}
    LegacyKeys = {aliceKey, hashKey}
    LegacyOf <- SharedKeys
    Ambiguous = {num, hex}
    Absent = Absent
    NoTask = NoTask
    TTL = 1
    MaxSets = 2
    MaxTime = 3
    Events = {"fail"}
    Sessions = {}
    Nobody = Nobody
    NoSession = NoSession
    MaxAttempts = 1
    Fallback = FALSE
    MaxCalls = 0
SYMMETRY Symmetric
PROPERTIES
    ReadsTrue MigrationKeeps
