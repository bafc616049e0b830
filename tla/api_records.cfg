CONSTANTS
    t1 = t1
    t2 = t2
    alice = alice
    bob = bob
    s1 = s1
    s2 = s2
    open = open
    closed = closed
    rule = rule
    Nobody = nobody
    Unset = unset
    Threads <- TwoThreads
    Users <- TwoUsers
    Sids <- TwoSids
    Statuses <- TwoStatuses
    RuleNames <- OneRule
    Channels <- TwoChannels
    MaxRequests = 3
SPECIFICATION Spec
INVARIANTS AdminRemains WishesKept AuditTells DispositionChain
SYMMETRY Symmetry
CHECK_DEADLOCK FALSE
