\* Two publishers race for the hub, two subscribers, one of which may stop
\* reading.
CONSTANTS
    p1 = p1
    p2 = p2
    s1 = s1
    s2 = s2
    None = None
    Publishers = {p1, p2}
    Subscribers = {s1, s2}
    Keen = {s1}
    MaxPublish = 1
SPECIFICATION FairSpec
INVARIANT IInv
PROPERTIES
    PublishReturns
    Reclaimed
    HubSpec
\* The publishers stop after MaxPublish events, the readers wait for more.
CHECK_DEADLOCK FALSE
