\* Two calls, a browser that may crash.
CONSTANTS
    c2 = c2
    c1 = c1
    None = None
    Calls = {c1, c2}
    MaxEvents = 0
SPECIFICATION FairSpec
PROPERTY CrashEndsCalls
\* Every call may have returned and the reader wait for a message or be gone.
CHECK_DEADLOCK FALSE
