----------------------------- MODULE UdpNetwork -----------------------------
(***************************************************************************)
(* The IPv4/UDP network the socket layer sits on.  The layer adds no       *)
(* delivery guarantee (spec section 1, non-goals), so a datagram in        *)
(* flight may be delivered in any order, lost, or duplicated.  Delivery    *)
(* itself happens when an endpoint's recvfrom takes the datagram; a        *)
(* receive may also time out while a datagram is still in flight, which    *)
(* is how a late answer is modelled.                                       *)
(*                                                                         *)
(* This is the environment of the socket, not code of the repository.      *)
(***************************************************************************)
EXTENDS Naturals, Bags, BagsExt

CONSTANT MaxDuplicates   \* bound on duplications the network performs

VARIABLES
    net,    \* bag of datagrams in flight
    dups,   \* number of duplications so far
    lost    \* datagrams the network dropped (history, for liveness)

netVars == <<net, dups, lost>>

NetInit ==
    /\ net = EmptyBag
    /\ dups = 0
    /\ lost = {}

InFlight == BagToSet(net)

InFlightTo(e) == {d \in InFlight : d.dst = e}

\* The sending endpoint hands datagrams to the network.
Transmit(ds) == net' = net (+) SetToBag(ds)

\* The receiving endpoint takes one copy of d off the network.
Take(d) == net' = BagRemove(net, d)

\* The receiving endpoint takes d and answers with the datagrams ds.
TakeAndTransmit(d, ds) == net' = BagRemove(net, d) (+) SetToBag(ds)

Lose ==
    \E d \in InFlight :
        /\ net' = BagRemove(net, d)
        /\ lost' = lost \cup {d}
        /\ UNCHANGED dups

Duplicate ==
    /\ dups < MaxDuplicates
    /\ \E d \in InFlight :
        /\ net' = BagAdd(net, d)
        /\ dups' = dups + 1
        /\ UNCHANGED lost

NetFault == Lose \/ Duplicate
=============================================================================
