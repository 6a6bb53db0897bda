SPECIFICATION FairSpec
CONSTANTS
    s1 = s1
    s2 = s2
    s3 = s3
    own = own
    group = group
    Subs = {s1, s2, s3}
    Pollers = {s1, s2, s3}
    BoxOf <- MCBoxOf
    PatternOf <- MCPatternOf
    Topics <- MCTopics
    MaxMsgs = 2
    MaxSubs = 3
    MaxRare = 1
INVARIANTS TypeOK InboxComplete EvenShares
PROPERTY AllTaken
CHECK_DEADLOCK FALSE
