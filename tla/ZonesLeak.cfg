\* A refused commit keeps its zone.
SPECIFICATION Spec
CONSTANTS
    r1 = r1  r2 = r2  r3 = r3
    s1 = s1  s2 = s2  s3 = s3  s4 = s4  s5 = s5
    a = a  b = b  g = g
    k1 = k1  t1 = t1
    NoZone = NoZone
    NoCall = NoCall
    Roots = {r1, r2, r3}
    Stores = {s1, s2, s3, s4, s5}
    Zones = {a, b, g}
    Buffering = {a, b}
    Keys = {k1, t1}
    Triples = {t1}
    ZoneOf <- BatchZones
    ParentOf <- BatchParents
    KeyOf <- BatchKeys
    WritesFail = TRUE
\* Every call may have settled: the behaviour ends there.
CHECK_DEADLOCK FALSE
INVARIANTS
    ZoneLeftWhenUnused
