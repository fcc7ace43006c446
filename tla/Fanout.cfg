SPECIFICATION FairSpec
CONSTANTS
    s1 = s1
    s2 = s2
    feed = feed
    inbox = inbox
    None = None
    Screens = {s1, s2}
    Users = {"ann", "bob"}
    Endpoints = {feed, inbox}
    Ttl <- MCTtl
    Timeout = 1
    PutDelay = 1
    MaxNow = 4
INVARIANTS
    CacheHonest
PROPERTIES
    ScreensAnswered
CHECK_DEADLOCK FALSE
