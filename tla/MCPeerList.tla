----------------------------- MODULE MCPeerList -----------------------------
(* Small instances of PeerList. *)
EXTENDS PeerList

Symmetry == Permutations(Workers)
=============================================================================
