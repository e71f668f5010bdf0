\* One process, started twice, is enough.
CONSTANTS
    Processes = {p1}
    LastVersion = 2
SPECIFICATION StartupSpec
INVARIANT
    NeverReExecuted
