\* The socket as a server and a client at once: start_receiving (twice),
\* remote clients sending requests, sends (fire-and-forget, which leave a
\* receive timeout behind, or waiting for a response) and direct receive
\* calls on the application thread, over loss and duplication, and teardown.
CONSTANTS
    Self = Self
    Group = Group
    NoEndpoint = NoEndpoint
    NullCallback = NullCallback
    Servers = {s1}
    Clients = {c1}
    Callbacks = {cbA}
    Timeouts = {1}
    ResponseSizes = {4}
    WaitChoices = {FALSE, TRUE}
    CallerOps = {"send", "receive", "start_receiving", "destroy"}
    MaxSends = 1
    MaxRequests = 1
    MaxDuplicates = 1
SPECIFICATION FairSpec
INVARIANTS
    TypeOK
PROPERTIES
    RequestEventuallyServed
    ImplementsServer
    TeardownCompletes
\* The loop blocks in recvfrom for good once clients stop sending, and a
\* destroyed object takes no more steps: the system really stops.
CHECK_DEADLOCK FALSE
