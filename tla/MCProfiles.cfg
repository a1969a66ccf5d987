\* One pod of this release, two profiles, old pods beside it.
SPECIFICATION Spec
CONSTANTS
    H = H
    Unset = Unset
    Nobody = Nobody
    Profiles = {P, Q}
    Migrated = P
    Contents = {A}
    EnvBoot = Unset
    Pods = {H}
    Admins = {a1, a2}
    Resolves = {r1}
    Home <- AllAtHome
    MaxVersion = 3
SYMMETRY Symmetry
INVARIANTS
    TypeOK
    PointerHolds
    WatermarkTells
    MirrorAgrees
    CacheIsCoherent
\* The version has reached its bound and every request has ended: nothing is left to do.
CHECK_DEADLOCK FALSE
