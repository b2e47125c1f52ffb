SPECIFICATION Spec
CONSTANTS
    Processes = {p1, p2}
    Blobs = {b1}
    Generations = {g1}
    Stamps = {s1, s2}
    Temps = {t1, t2, t3}
    None = None
    Torn = Torn
SYMMETRY MCSymmetry
INVARIANTS
    ToldIsThere
    ManifestHasBlobs
    NeverTorn
    OwnPublicationIsDurable
PROPERTIES
    ImplementsRegister
CHECK_DEADLOCK FALSE
