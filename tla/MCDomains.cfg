\* Two enablers and a disabler, in any overlap, whose contexts may end; and a
\* router whose owner is careful, or whose handlers come and go before Run and
\* whose page makes requests at any time.
CONSTANTS
    Enablers = {e1, e2}
    Disablers = {d1}
    a = a
    b = b
    c = c
    h1 = h1
    h2 = h2
    h3 = h3
    Requests = {a, b, c}
    Handlers = {h1, h2, h3}
    Url <- MCUrl
    Typed <- MCTyped
    Verdicts <- Lenient
    Needed = {h1, h2}
SPECIFICATION MCSpec
INVARIANTS
    UserServed
    Settled
    AnsweredOnce
    FirstDecides
    OnlyWanted
PROPERTIES
    UsersFinish
    NoneStuck
\* Users run once, every request is made once, and a router is stopped once.
CHECK_DEADLOCK FALSE
