\* Two calls, one of them in the callback of a listener, two events, a browser
\* that may crash.
CONSTANTS
    c1 = c1
    c2 = c2
    None = None
    Calls = {c1, c2}
    MaxEvents = 2
    Listeners = {"caller"}
    CallOf <- MCCallOf
    Wants <- MCWants
SPECIFICATION LoopSpec
INVARIANTS
    OwnAnswer
    AbandonedOnlyBySendError
    EventsInOrder
PROPERTIES
    ServiceSpec
    NobodyWaits
    ListenersServed
\* Every call may have returned and the reader wait for a message or be gone.
CHECK_DEADLOCK FALSE
