---------------------------- MODULE MCUdpTracker ----------------------------
(* Small instances of UdpTracker, with the layout of its datagrams. *)
EXTENDS UdpWire, TLC

Symmetry == Permutations(Clients) \cup Permutations(Addrs) \cup Permutations(IDs)
=============================================================================
