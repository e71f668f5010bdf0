\* Two processes of any of three releases start, fail and are killed.  No
\* symmetry, because StartupEnds is a liveness property.
CONSTANTS
    Processes = {p1, p2}
    LastVersion = 3
SPECIFICATION FairStartupSpec
INVARIANTS
    StartupTypeOK
    ServesMigrated
    RanInOrder
PROPERTY
    StartupEnds
