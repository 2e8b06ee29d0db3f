\* A running server loop and the destructor.
CONSTANTS
    Self = Self
    Group = Group
    NoEndpoint = NoEndpoint
    NullCallback = NullCallback
    Servers = {s1}
    Clients = {c1}
    Callbacks = {cbA}
    Timeouts = {1}
    ResponseSizes = {4}
    WaitChoices = {FALSE}
    CallerOps = {"start_receiving", "destroy"}
    MaxSends = 0
    MaxRequests = 1
    MaxDuplicates = 0
SPECIFICATION FairSpec
PROPERTY
    NoMemberUseAfterDestroy
CHECK_DEADLOCK FALSE
