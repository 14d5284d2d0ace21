-------------------------- MODULE MCPeerConnections --------------------------
(* Instances of PeerConnections for TLC: what may go wrong, and how often. *)
EXTENDS PeerConnections

Calm == [field \in Faults |-> 0]

LimitFaults == [field \in Faults |-> 1]

LimitOnePing == [Calm EXCEPT !["pingErrors"] = 1]
=============================================================================
