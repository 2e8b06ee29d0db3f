\* Two sends that wait for a response, unicast or to a two-member group.
CONSTANTS
    Self = Self
    Group = Group
    NoEndpoint = NoEndpoint
    NullCallback = NullCallback
    Servers = {s1, s2}
    Clients = {}
    Callbacks = {cbA}
    Timeouts = {1}
    ResponseSizes = {4}
    WaitChoices = {TRUE}
    CallerOps = {"send"}
    MaxSends = 2
    MaxRequests = 0
    MaxDuplicates = 0
SPECIFICATION FairSpec
INVARIANT
    ResponseMatchesRequest
CHECK_DEADLOCK FALSE
