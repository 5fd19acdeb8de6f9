\* A launcher used by hand, or two screenshots and a cleanup, or two
\* installers of two revisions, one of which may crash.
CONSTANTS
    None = None
    Shots = {a, b}
    Cleaners = {c}
    Launchers = {0, 1, 2, 3}
    MaxLaunch = 3
    Installers = {"p", "q"}
    MaxRevision = 2
    MaxCrashes = 1
    Nobody = Nobody
SPECIFICATION MCSpec
INVARIANTS
    NothingLeft
    CacheSafe
PROPERTIES
    LaunchersEnd
    CallersReturn
    InstallersEnd
\* Everybody comes once.
CHECK_DEADLOCK FALSE
