------------------------------ MODULE UdpServer ------------------------------
(***************************************************************************)
(* What the server side of a UdpSocket promises (spec sections 4.4, 4.5):  *)
(* the socket serves the datagrams addressed to it one at a time, each in  *)
(* a single step that takes it off the network, hands it to the callback   *)
(* and, while the socket is open, may answer its sender once.  A datagram  *)
(* the server does not handle is simply taken.  After the socket is        *)
(* closed the callback may also be handed an empty datagram from no        *)
(* sender (a 0-byte recvfrom after shutdown).                              *)
(*                                                                         *)
(* Everything else (the application's own sends, remote peers, network    *)
(* faults) is the environment: it may add datagrams and take those not     *)
(* addressed to the socket, but never takes one addressed to it and never  *)
(* forges an answer from it.                                               *)
(***************************************************************************)
EXTENDS UdpNetwork

CONSTANTS Self, NoEndpoint

VARIABLES
    served,     \* datagrams handed to the callback
    replies,    \* answers the server sent
    open        \* the socket descriptor is open

serverVars == <<served, replies, open>>
vars == <<netVars, serverVars>>

\* The answer to d: from this socket to the sender of d.
Answer(d) == [src |-> Self, dst |-> d.src, kind |-> "rsp", id |-> d.id]

\* What recvfrom yields after shutdown: no data and no sender.
Spurious == [src |-> NoEndpoint, dst |-> Self, kind |-> "empty", id |-> 0]

Init ==
    /\ NetInit
    /\ served = {} /\ replies = {}
    /\ open \in BOOLEAN

\* The callback sees d, and the rest of the network is rest; it may answer.
Handle(d, rest) ==
    /\ served' = served \cup {d}
    /\ \/ net' = rest /\ UNCHANGED replies
       \/ /\ open
          /\ net' = rest (+) SetToBag({Answer(d)})
          /\ replies' = replies \cup {Answer(d)}
    /\ UNCHANGED <<dups, lost, open>>

Serve == \E d \in InFlightTo(Self) : Handle(d, BagRemove(net, d))

ServeSpurious == ~open /\ Handle(Spurious, net)

\* A datagram taken without reaching the callback.
Consume ==
    /\ \E d \in InFlightTo(Self) : Take(d)
    /\ UNCHANGED <<dups, lost, serverVars>>

Close ==
    /\ open /\ open' = FALSE
    /\ UNCHANGED <<netVars, served, replies>>

Environment ==
    /\ \A d \in InFlightTo(Self) : CopiesIn(d, net') >= CopiesIn(d, net)
    /\ \A d \in BagToSet(net') :
          d.src = Self /\ d.kind = "rsp" => CopiesIn(d, net') <= CopiesIn(d, net)
    /\ UNCHANGED <<dups, lost, serverVars>>

Next ==
    \/ Serve \/ ServeSpurious \/ Consume \/ Close \/ Environment
    \/ NetFault /\ UNCHANGED serverVars

Spec == Init /\ [][Next]_vars
=============================================================================
