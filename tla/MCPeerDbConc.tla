---------------------------- MODULE MCPeerDbConc ----------------------------
(* Small instances of PeerDbConc, and what they are compared with. *)
EXTENDS PeerDbImpl, TLC

CONSTANTS w1, p1  \* a worker and a peer

AnyWorker == [p \in Workers |-> PeerIDs]

OwnPeer == [p \in Workers |-> IF p = w1 THEN {p1} ELSE PeerIDs \ {p1}]

Symmetry == Permutations(PeerIDs) \cup Permutations(Workers)
              \cup Permutations(IPs)

\* Each worker has its own peers; hashes and addresses are interchangeable
OwnSymmetry == Permutations(Hashes) \cup Permutations(IPs)
=============================================================================
