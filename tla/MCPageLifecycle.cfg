\* Three users in three scenes; requests fail, contexts end, targets vanish.
CONSTANTS
    t1 = t1
    t2 = t2
    u1 = u1
    u2 = u2
    u3 = u3
    Targets = {t1, t2}
    Users = {u1, u2, u3}
    Scenes <- AllScenes
    None = None
SPECIFICATION FairSpec
INVARIANTS
    OneSession
    ClosedIsGone
    NothingKept
PROPERTIES
    OperationsAbort
    UsersReturn
\* Every user gets one page and uses it once.
CHECK_DEADLOCK FALSE
