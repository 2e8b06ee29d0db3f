------------------------------ MODULE UdpSocket ------------------------------
(***************************************************************************)
(* espp::UdpSocket (src/components/socket/include/udp_socket.hpp): one     *)
(* socket object, the application thread that calls send / receive /       *)
(* start_receiving and finally destroys the object, and the background     *)
(* Task thread that runs server_task_function over and over.  Both threads *)
(* use the one descriptor socket_ without a lock.                          *)
(*                                                                         *)
(* Around the object: remote servers that answer every request they get    *)
(* (echo peers, as in the spec's PING/PONG scenario), remote clients that  *)
(* send requests to this socket's server loop, and the UDP network of      *)
(* UdpNetwork.                                                              *)
(*                                                                         *)
(* Payloads are abstracted to [src, dst, kind, id]: kind "req" is a        *)
(* request, "rsp" an answer to the request with the same id, "empty" the   *)
(* zero-byte result of a recvfrom on a shut-down descriptor.               *)
(***************************************************************************)
EXTENDS Naturals, FiniteSets, UdpNetwork

CONSTANTS
    Self,           \* this socket's address
    Group,          \* a multicast group address
    Servers,        \* remote endpoints that answer requests (the group's members)
    Clients,        \* remote endpoints that send requests to this socket
    NoEndpoint,     \* the unspecified sender of a zero-byte receive
    Callbacks,      \* on_receive_callback values; NullCallback is the empty std::function
    NullCallback,
    Timeouts,       \* response_timeout values; 0 is "no timeout" to SO_RCVTIMEO
    ResponseSizes,  \* response_size values
    WaitChoices,    \* wait_for_response values the application uses
    CallerOps,      \* the public calls the application makes
    MaxSends,       \* bound on send calls
    MaxRequests     \* bound on requests from remote clients

ASSUME /\ Timeouts \subseteq Nat /\ ResponseSizes \subseteq Nat
       /\ WaitChoices \subseteq BOOLEAN
       /\ CallerOps \subseteq {"send", "receive", "start_receiving", "destroy"}
       /\ NullCallback \notin Callbacks
       /\ MaxSends \in Nat /\ MaxRequests \in Nat

VARIABLES
    sock,        \* Socket::is_valid(socket_): "valid" or "invalid"
    bound,       \* the descriptor is bound to a local port
    shut,        \* shutdown(socket_, 0) has shut the descriptor's read side
    mcast,       \* Socket::make_multicast has been applied to the descriptor
    joined,      \* the descriptor has joined the multicast group
    rcvTimeout,  \* SO_RCVTIMEO of the descriptor (0: none)
    task,        \* task_: "none" (null), "started", "stopped"
    serverCb,    \* server_receive_callback_
    members,     \* logger_ and server_receive_callback_ objects: "alive" / "destroyed"
    cpc,         \* application thread: where it is
    cto,         \* timeout in force for the application thread's blocked recvfrom
    sends,       \* send calls made so far (the id of the latest send)
    pending,     \* id of the send waiting for its response (0: none)
    responses,   \* history: <<send id, datagram>> given to on_response_callback
    taken,       \* history: datagrams the application thread's recvfrom took
    wpc,         \* Task thread: where server_task_function is
    wto,         \* timeout in force for the Task thread's blocked recvfrom
    wdata,       \* the datagram server_task_function holds
    served,      \* history: datagrams passed to the server callback
    replies,     \* history: replies the server loop transmitted
    requests     \* requests the remote clients have sent

sockVars   == <<sock, shut, bound, mcast, joined, rcvTimeout, task, serverCb, members>>
callerVars == <<cpc, cto, sends, pending, responses, taken>>
workerVars == <<wpc, wto, wdata, served, replies>>
vars == <<sockVars, callerVars, workerVars, requests, netVars>>

Endpoints == {Self, Group, NoEndpoint} \cup Servers \cup Clients
Datagram  == [src : Endpoints, dst : Endpoints, kind : {"req", "rsp", "empty"},
              id : Nat]
NoDatagram == [src |-> NoEndpoint, dst |-> NoEndpoint, kind |-> "empty", id |-> 0]
EmptyDatagram == [src |-> NoEndpoint, dst |-> Self, kind |-> "empty", id |-> 0]

\* SendConfig: destination (unicast or the multicast group), wait_for_response,
\* response_size, response_timeout; the callback is the response record.
SendConfig == [dst : Servers \cup {Group}, wait : WaitChoices,
               size : ResponseSizes, timeout : Timeouts]
\* ReceiveConfig: is_multicast_endpoint and on_receive_callback (may be empty).
ReceiveConfig == [multicast : BOOLEAN, cb : Callbacks \cup {NullCallback}]

-----------------------------------------------------------------------------
(* Helpers                                                                  *)

\* The datagrams one sendto to cfg.dst puts on the network: one per member
\* when the destination is the multicast group.
Request(cfg, id) ==
    {[src |-> Self, dst |-> s, kind |-> "req", id |-> id] :
        s \in IF cfg.dst = Group THEN Servers ELSE {cfg.dst}}

\* The sender receive() reports through remote_info.update().
ReceivedFrom(d) == d.src

\* Faulty variant: the response_timeout (seconds) installed as milliseconds.
InstalledTimeoutInMilliseconds(cfg) == cfg.timeout * 1000

\* SO_RCVTIMEO after send()'s set_receive_timeout(socket_, response_timeout).
InstalledTimeout(cfg) == cfg.timeout

\* task_ && task_->is_started()
AlreadyReceiving == task = "started"

\* The datagram server_task_function sends back for the request d.
Reply(d) == [src |-> Self, dst |-> ReceivedFrom(d), kind |-> "rsp", id |-> d.id]

-----------------------------------------------------------------------------
(* Construction: UdpSocket(config) -> init().  socket() may fail, leaving    *)
(* socket_ invalid; a failed enable_reuse leaves a valid, usable socket.    *)

Init ==
    /\ sock \in {"valid", "invalid"}
    /\ shut = FALSE /\ bound = FALSE /\ mcast = FALSE /\ joined = FALSE
    /\ rcvTimeout = 0
    /\ task = "none"
    /\ serverCb = NullCallback
    /\ members = "alive"
    /\ cpc = "idle" /\ cto = 0 /\ sends = 0 /\ pending = 0 /\ responses = {}
    /\ taken = {}
    /\ wpc = "top" /\ wto = 0 /\ wdata = NoDatagram
    /\ served = {} /\ replies = {}
    /\ requests = 0
    /\ NetInit

-----------------------------------------------------------------------------
(* Application thread                                                       *)

\* send(data, send_config) up to the response wait.  Each OS call may fail
\* and aborts the call; the earlier ones have already changed the socket.
Send(cfg) ==
    LET id == sends + 1
        multicast == cfg.dst = Group
        afterTimeout == /\ mcast' = (mcast \/ multicast)
                        /\ rcvTimeout' = InstalledTimeout(cfg)
    IN
    /\ cpc = "idle" /\ "send" \in CallerOps /\ sends < MaxSends
    /\ sends' = id
    /\ \/ /\ sock = "invalid"
          /\ UNCHANGED <<mcast, rcvTimeout, net, cpc, cto, pending>>
       \/ /\ sock = "valid" /\ multicast            \* make_multicast failed
          /\ UNCHANGED <<mcast, rcvTimeout, net, cpc, cto, pending>>
       \/ /\ sock = "valid"                         \* set_receive_timeout failed
          /\ mcast' = (mcast \/ multicast)
          /\ UNCHANGED <<rcvTimeout, net, cpc, cto, pending>>
       \/ /\ sock = "valid" /\ afterTimeout         \* sendto failed
          /\ UNCHANGED <<net, cpc, cto, pending>>
       \/ /\ sock = "valid" /\ afterTimeout
          /\ Transmit(Request(cfg, id))
          /\ IF cfg.wait /\ cfg.size # 0
               THEN /\ cpc' = "wait" /\ pending' = id
                    /\ cto' = rcvTimeout'       \* receive() blocks under it
               ELSE UNCHANGED <<cpc, cto, pending>>
    /\ UNCHANGED <<sock, shut, bound, joined, task, serverCb, members, responses, taken,
                   workerVars, requests, dups, lost>>

\* receive(max_num_bytes, data, remote_info) called directly.
Receive ==
    /\ cpc = "idle" /\ "receive" \in CallerOps
    /\ \/ sock = "invalid" /\ UNCHANGED <<cpc, cto>>
       \/ sock = "valid" /\ cpc' = "recv" /\ cto' = rcvTimeout
    /\ UNCHANGED <<sockVars, sends, pending, responses, taken, workerVars,
                   requests, netVars>>

\* The application thread's recvfrom returns: a datagram from any sender,
\* or a timeout.  Inside send() the datagram goes to on_response_callback.
CallerReceiveDone ==
    /\ cpc \in {"wait", "recv"}
    /\ \/ \E d \in InFlightTo(Self) :
            /\ Take(d) /\ taken' = taken \cup {d}
            /\ responses' = IF cpc = "wait" THEN responses \cup {<<pending, d>>}
                                            ELSE responses
       \/ /\ cto > 0
          /\ UNCHANGED <<net, responses, taken>>
    /\ cpc' = "idle" /\ pending' = 0
    /\ UNCHANGED <<sockVars, cto, sends, workerVars, requests, dups, lost>>

\* start_receiving(task_config, receive_config).
StartReceiving(cfg) ==
    LET register == serverCb' = cfg.cb
        bindOk   == ~bound /\ bound' = TRUE
    IN
    /\ cpc = "idle" /\ "start_receiving" \in CallerOps
    /\ \/ /\ task = "started" \/ sock = "invalid"   \* already receiving / invalid
          /\ UNCHANGED <<bound, joined, mcast, serverCb, task>>
       \/ /\ ~AlreadyReceiving /\ sock = "valid"     \* bind failed
          /\ register
          /\ UNCHANGED <<bound, joined, mcast, task>>
       \/ /\ ~AlreadyReceiving /\ sock = "valid"     \* make_multicast failed
          /\ cfg.multicast /\ register /\ bindOk
          /\ UNCHANGED <<joined, mcast, task>>
       \/ /\ ~AlreadyReceiving /\ sock = "valid"     \* add_multicast_group failed
          /\ cfg.multicast /\ register /\ bindOk /\ mcast' = TRUE
          /\ UNCHANGED <<joined, task>>
       \/ /\ ~AlreadyReceiving /\ sock = "valid"     \* task_ made and started
          /\ register /\ bindOk
          /\ mcast' = (mcast \/ cfg.multicast)
          /\ joined' = (joined \/ cfg.multicast)
          /\ task' = "started"
    /\ UNCHANGED <<sock, shut, rcvTimeout, members, callerVars, wpc, wto, wdata,
                   served, replies, requests, netVars>>

\* Faulty variant: cleanup() closes the descriptor without shutting it down.
CleanupShutNoShutdown == shut

\* if (Socket::is_valid(socket_)) shutdown(socket_, 0): the read side of a
\* valid descriptor is shut, which wakes a recvfrom blocked on it.
CleanupShut == shut \/ sock = "valid"

\* ~UdpSocket(): the body runs cleanup() (shutdown, close, socket_ = -1);
\* then the members are destroyed in reverse order of declaration:
\* logger_, server_receive_callback_, and last task_, whose destructor
\* stops the Task and joins its thread.
DestroyCleanup ==
    /\ cpc = "idle" /\ "destroy" \in CallerOps
    /\ shut' = CleanupShut /\ sock' = "invalid" /\ cpc' = "cleaned"
    /\ UNCHANGED <<bound, mcast, joined, rcvTimeout, task, serverCb, members,
                   cto, sends, pending, responses, taken, workerVars, requests, netVars>>

DestroyMembers ==
    /\ cpc = "cleaned"
    /\ members' = "destroyed" /\ cpc' = "destroyed"
    /\ UNCHANGED <<sock, shut, bound, mcast, joined, rcvTimeout, task, serverCb,
                   cto, sends, pending, responses, taken, workerVars, requests, netVars>>

\* task_'s destructor: Task::stop() clears the started flag and wakes the
\* Task's condition variable ...
DestroyTask ==
    /\ cpc = "destroyed"
    /\ task' = IF task = "started" THEN "stopped" ELSE task
    /\ cpc' = "joining"
    /\ UNCHANGED <<sock, shut, bound, mcast, joined, rcvTimeout, serverCb, members,
                   cto, sends, pending, responses, taken, workerVars, requests, netVars>>

\* ... and joins the Task thread, if one was started.
DestroyJoin ==
    /\ cpc = "joining" /\ (task = "none" \/ wpc = "exited")
    /\ cpc' = "gone"
    /\ UNCHANGED <<sockVars, cto, sends, pending, responses, taken, workerVars,
                   requests, netVars>>

-----------------------------------------------------------------------------
(* Task thread: one call of server_task_function per loop of the Task.      *)

\* The Task loop finds its started flag cleared between two iterations and
\* its thread ends.
TaskExit ==
    /\ task = "stopped" /\ wpc = "top"
    /\ wpc' = "exited"
    /\ UNCHANGED <<sockVars, callerVars, wto, wdata, served, replies,
                   requests, netVars>>

\* receive(): is_valid check, then block in recvfrom.
WorkerEnter ==
    /\ task = "started" /\ wpc = "top"
    /\ \/ sock = "valid" /\ wpc' = "recv" /\ wto' = rcvTimeout
       \/ sock = "invalid" /\ wpc' = "backoff" /\ UNCHANGED wto
    /\ UNCHANGED <<sockVars, callerVars, wdata, served, replies,
                   requests, netVars>>

WorkerReceiveDatagram ==
    /\ wpc = "recv"
    /\ \E d \in InFlightTo(Self) : Take(d) /\ wdata' = d
    /\ wpc' = "got"
    /\ UNCHANGED <<sockVars, callerVars, wto, served, replies,
                   requests, dups, lost>>

\* Faulty variant: receive() without the num_bytes_received < 0 check; a
\* failed recvfrom is reported as an empty datagram from no sender.
WorkerReceiveFailedUnchecked ==
    /\ wpc = "recv"
    /\ wto > 0 \/ shut
    /\ wpc' = "got" /\ wdata' = EmptyDatagram
    /\ UNCHANGED <<sockVars, callerVars, wto, served, replies,
                   requests, netVars>>

\* recvfrom returns < 0: timeout, or the descriptor was shut down and closed
\* under it.  After shutdown(socket_, SHUT_RD) recvfrom may instead return
\* 0 bytes, which receive() reports as success with an unspecified sender.
\* Closing a descriptor does not wake a recvfrom blocked on it; only the
\* shutdown does.
WorkerReceiveFailed ==
    /\ wpc = "recv"
    /\ \/ wto > 0 /\ wpc' = "backoff" /\ UNCHANGED wdata
       \/ shut /\ wpc' = "backoff" /\ UNCHANGED wdata
       \/ shut /\ wpc' = "got" /\ wdata' = EmptyDatagram
    /\ UNCHANGED <<sockVars, callerVars, wto, served, replies,
                   requests, netVars>>

\* Faulty variant: cv.wait(lk) instead of cv.wait_for(lk, 1ms); only the
\* notification of Task::stop ends the wait.
WorkerBackoffUntilNotified ==
    /\ wpc = "backoff" /\ task # "started"
    /\ wpc' = "top"
    /\ UNCHANGED <<sockVars, callerVars, wto, wdata, served, replies,
                   requests, netVars>>

\* cv.wait_for(lk, 1ms), then return to the Task loop.
WorkerBackoff ==
    /\ wpc = "backoff"
    /\ wpc' = "top"
    /\ UNCHANGED <<sockVars, callerVars, wto, wdata, served, replies,
                   requests, netVars>>

\* Callback dispatch and the optional reply to the sender.
WorkerDispatch ==
    /\ wpc = "got"
    /\ \/ /\ serverCb = NullCallback                 \* logged, no-op cycle
          /\ UNCHANGED <<served, replies, net>>
       \/ /\ serverCb # NullCallback
          /\ served' = served \cup {wdata}
          /\ \/ UNCHANGED <<replies, net>>           \* callback returned nullopt
             \/ UNCHANGED <<replies, net>>           \* sendto failed, logged
             \/ /\ sock = "valid"
                /\ Transmit({Reply(wdata)})
                /\ replies' = replies \cup {Reply(wdata)}
    /\ wpc' = "top" /\ wdata' = NoDatagram
    /\ UNCHANGED <<sockVars, callerVars, wto, requests, dups, lost>>

-----------------------------------------------------------------------------
(* Remote peers                                                             *)

\* A remote server takes a datagram and answers a request with its id.
ServerAnswer(s) ==
    /\ \E d \in InFlightTo(s) :
         TakeAndTransmit(d, IF d.kind = "req"
                            THEN {[src |-> s, dst |-> d.src, kind |-> "rsp",
                                   id |-> d.id]}
                            ELSE {})
    /\ UNCHANGED <<sockVars, callerVars, workerVars, requests, dups, lost>>

ClientRequest(c) ==
    /\ requests < MaxRequests
    /\ requests' = requests + 1
    /\ Transmit({[src |-> c, dst |-> Self, kind |-> "req", id |-> requests + 1]})
    /\ UNCHANGED <<sockVars, callerVars, workerVars, dups, lost>>

ClientConsume(c) ==
    /\ \E d \in InFlightTo(c) : Take(d)
    /\ UNCHANGED <<sockVars, callerVars, workerVars, requests, dups, lost>>

-----------------------------------------------------------------------------

Caller ==
    \/ \E cfg \in SendConfig : Send(cfg)
    \/ Receive
    \/ CallerReceiveDone
    \/ \E cfg \in ReceiveConfig : StartReceiving(cfg)
    \/ DestroyCleanup \/ DestroyMembers \/ DestroyTask \/ DestroyJoin

Worker ==
    \/ WorkerEnter \/ WorkerReceiveDatagram \/ WorkerReceiveFailed
    \/ WorkerBackoff \/ WorkerDispatch

Remote ==
    \/ \E s \in Servers : ServerAnswer(s)
    \/ \E c \in Clients : ClientRequest(c) \/ ClientConsume(c)

Next ==
    \/ Caller \/ Worker \/ TaskExit \/ Remote
    \/ NetFault /\ UNCHANGED <<sockVars, callerVars, workerVars, requests>>

Spec == Init /\ [][Next]_vars

\* The Task thread is scheduled (weak fairness of its steps); a datagram in
\* flight eventually reaches a receiving socket unless the network drops it
\* (strong fairness: the Task thread's receive is enabled only on and off);
\* the kernel fires a configured receive timeout and ends a recvfrom on a
\* shut-down descriptor (weak fairness); once in the destructor the
\* application thread is scheduled (weak fairness).
FairSpec ==
    /\ Spec
    /\ WF_vars(WorkerEnter) /\ WF_vars(WorkerBackoff) /\ WF_vars(WorkerDispatch)
    /\ SF_vars(WorkerReceiveDatagram) /\ WF_vars(WorkerReceiveFailed)
    /\ WF_vars(TaskExit)
    /\ WF_vars(CallerReceiveDone)
    /\ WF_vars(DestroyMembers) /\ WF_vars(DestroyTask) /\ WF_vars(DestroyJoin)

-----------------------------------------------------------------------------
(* Properties                                                               *)

TypeOK ==
    /\ sock \in {"valid", "invalid"}
    /\ shut \in BOOLEAN /\ bound \in BOOLEAN /\ mcast \in BOOLEAN /\ joined \in BOOLEAN
    /\ rcvTimeout \in Timeouts \cup {0}
    /\ task \in {"none", "started", "stopped"}
    /\ serverCb \in Callbacks \cup {NullCallback}
    /\ members \in {"alive", "destroyed"}
    /\ cpc \in {"idle", "wait", "recv", "cleaned", "destroyed", "joining",
                "gone"}
    /\ cto \in Timeouts \cup {0}
    /\ sends \in 0..MaxSends /\ pending \in 0..MaxSends
    /\ responses \subseteq (1..MaxSends) \X Datagram /\ taken \subseteq Datagram
    /\ wpc \in {"top", "recv", "got", "backoff", "exited"}
    /\ wto \in Timeouts \cup {0}
    /\ wdata \in Datagram
    /\ served \subseteq Datagram /\ replies \subseteq Datagram
    /\ requests \in 0..MaxRequests
    /\ IsABag(net) /\ BagToSet(net) \subseteq Datagram

ClientRequests == [src : Clients, dst : {Self}, kind : {"req"}, id : 1..MaxRequests]

\* A client request that reaches the socket while the server loop runs with
\* a callback is eventually passed to the callback, unless the network loses
\* it, a recvfrom of the application thread (send or receive) takes it
\* first (the race spec section 5 documents), or the socket is torn down:
\* receive failures (timeouts left behind by send()) only back off for 1 ms
\* and never stall the loop (spec 4.5).  An empty callback drops every
\* datagram by design.
RequestEventuallyServed ==
    \A d \in ClientRequests :
        (d \in InFlightTo(Self) /\ task = "started" /\ serverCb # NullCallback)
            ~> (d \in served \/ d \in lost \/ d \in taken \/ sock = "invalid")

\* A send() that waits for a response returns: on a response or when the
\* response_timeout it installed expires (spec sections 4.2 and 8).
SendEventuallyReturns ==
    cpc = "wait" ~> cpc = "idle"

\* The data given to on_response_callback is the response to this send():
\* a "rsp" carrying the send's own id (the comment on send(): the callback
\* "will be provided the response data").
ResponseMatchesRequest ==
    \A r \in responses : r[2].kind = "rsp" /\ r[2].id = r[1]

\* The abstract server seen through this socket: the datagram the Task
\* thread has taken with recvfrom but not yet dispatched is still, for the
\* abstract server, on the network; a 0-byte receive after shutdown is not.
Held == IF wpc = "got" /\ wdata # EmptyDatagram THEN SetToBag({wdata})
                                                ELSE EmptyBag

Server == INSTANCE UdpServer WITH net <- net (+) Held, open <- sock = "valid"

\* server_task_function implements the abstract server: receive() followed
\* by the callback and the sendto of its answer behaves as one atomic
\* serve of a datagram addressed to the socket, whatever the application
\* thread (send, receive, start_receiving, destruction) does in between;
\* an empty datagram reaches the callback only once the socket is closed.
ImplementsServer == Server!Spec

\* The destructor returns: once cleanup() has run, task_'s destructor
\* stops the Task and its join returns, even when the Task thread is
\* blocked in a recvfrom with no receive timeout; the shutdown(socket_, 0)
\* of cleanup() is what wakes it (spec section 5: teardown while a receive
\* is blocked must be safe).
TeardownCompletes == cpc = "cleaned" ~> cpc = "gone"

\* The steps of server_task_function that use logger_ or
\* server_receive_callback_: receive() logs before and after recvfrom, the
\* dispatch calls the callback.  The 1 ms backoff uses only the Task's own
\* mutex and condition variable.
UsesMembers ==
    WorkerEnter \/ WorkerReceiveDatagram \/ WorkerReceiveFailed \/ WorkerDispatch

\* No step of the Task thread uses logger_ or server_receive_callback_ after
\* they have been destroyed (spec section 5: teardown while a receive is
\* blocked must be safe).
NoMemberUseAfterDestroy ==
    [][UsesMembers => members = "alive"]_vars
=============================================================================
