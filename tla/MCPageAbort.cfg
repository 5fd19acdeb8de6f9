\* A user that created its page operates on it while another closes it.
CONSTANTS
    t1 = t1
    t2 = t2
    u1 = u1
    u2 = u2
    u3 = u3
    Targets = {t1}
    Users = {u1, u2}
    Scenes <- Created
    None = None
SPECIFICATION FairSpec
PROPERTY EveryOperationAborts
\* Every user gets one page and uses it once.
CHECK_DEADLOCK FALSE
