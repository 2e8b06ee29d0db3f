\* A send() that waits with response_timeout = 0 (no SO_RCVTIMEO).
CONSTANTS
    Self = Self
    Group = Group
    NoEndpoint = NoEndpoint
    NullCallback = NullCallback
    Servers = {s1}
    Clients = {}
    Callbacks = {cbA}
    Timeouts = {0}
    ResponseSizes = {4}
    WaitChoices = {TRUE}
    CallerOps = {"send"}
    MaxSends = 1
    MaxRequests = 0
    MaxDuplicates = 0
SPECIFICATION FairSpec
PROPERTY
    SendEventuallyReturns
CHECK_DEADLOCK FALSE
