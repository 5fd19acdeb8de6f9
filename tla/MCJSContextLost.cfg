\* What the comment on Evaluate's loop says: a lost window is retried.
CONSTANTS
    g1 = g1
    g2 = g2
    page = page
    clone = clone
    Evaluators = {g1, g2}
    Pages = {page, clone}
    Sharings <- Either
    MaxDocument = 2
    MaxNavigations = 1
    None = None
SPECIFICATION FairSpec
INVARIANT LostRetried
CHECK_DEADLOCK FALSE
