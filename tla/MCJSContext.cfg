\* Two goroutines evaluate, on one Page object or on clones, while the page
\* navigates and contexts end.
CONSTANTS
    g1 = g1
    g2 = g2
    page = page
    clone = clone
    Evaluators = {g1, g2}
    Pages = {page, clone}
    Sharings <- Either
    MaxDocument = 3
    MaxNavigations = 1
    None = None
SPECIFICATION FairSpec
INVARIANTS
    CacheSound
    ClonesSafe
    WindowFresh
PROPERTY EvaluateReturns
\* A goroutine whose context is done evaluates no more.
CHECK_DEADLOCK FALSE
