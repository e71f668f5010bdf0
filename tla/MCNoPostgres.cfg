\* The smoke test that the README describes.
CONSTANTS
    Processes = {p1}
    LastVersion = 2
SPECIFICATION NoPostgresSpec
INVARIANT
    ListenerComesUp
