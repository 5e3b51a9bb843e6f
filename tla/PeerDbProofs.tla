---------------------------- MODULE PeerDbProofs ----------------------------
(***************************************************************************)
(* For every set of hashes, peer ids and addresses and every expiry: the   *)
(* counters of PeerDb are exact, and the trimmer never takes a fresh peer; *)
(* with fewer than 2^15 slots IPStats counts the peers of each address.    *)
(***************************************************************************)
EXTENDS PeerDb, FiniteSetTheorems, TLAPS

CountsOf(pm) ==
    /\ pm.Complete = Cardinality(CompleteIDs(pm))
    /\ pm.Incomplete = Cardinality(IncompleteIDs(pm))

CountsExact == \A h \in DOMAIN hashmap : CountsOf(hashmap[h])

TrimmingPresent == trimming # NoHash => trimming \in DOMAIN hashmap

SeedSlots == {s \in Slots : PeerAt(s).Complete}
LeechSlots == {s \in Slots : ~PeerAt(s).Complete}

(* The strengthening that is inductive: the counters without the uint16     *)
(* view, and the fact that the hash being trimmed is in the map.            *)
IInv == TypeOK /\ CountsExact /\ TrimmingPresent /\ GaugesExact

-----------------------------------------------------------------------------
(* Deletion from a Go map keeps it typed.                                   *)
LEMMA DelType ==
    ASSUME NEW m, NEW K, NEW V, IsMap(m, K, V), NEW k
    PROVE  /\ IsMap(Del(m, k), K, V)
           /\ DOMAIN Del(m, k) = DOMAIN m \ {k}
           /\ \A x \in DOMAIN m : x # k => Del(m, k)[x] = m[x]
  BY DEF IsMap, Del

(* The cardinality of a finite set with one element more, and one less.     *)
LEMMA CardAdd ==
    ASSUME NEW S, NEW T, NEW x, IsFiniteSet(S), T = S \cup {x}
    PROVE  /\ IsFiniteSet(T)
           /\ Cardinality(T) = Cardinality(S) + (IF x \in S THEN 0 ELSE 1)
  <1>1. IsFiniteSet(T) /\ (x \notin S => Cardinality(T) = Cardinality(S) + 1)
    BY FS_AddElement
  <1>2. x \in S => T = S
    OBVIOUS
  <1>3. Cardinality(S) \in Nat
    BY FS_CardinalityType
  <1>4. CASE x \in S
    BY <1>1, <1>2, <1>3, <1>4
  <1>5. CASE x \notin S
    BY <1>1, <1>3, <1>5
  <1>6. QED
    BY <1>4, <1>5

LEMMA CardRemove ==
    ASSUME NEW S, NEW T, NEW x, IsFiniteSet(S), T = S \ {x}
    PROVE  /\ IsFiniteSet(T)
           /\ Cardinality(T) = Cardinality(S) - (IF x \in S THEN 1 ELSE 0)
  <1>1. IsFiniteSet(T) /\ (x \in S => Cardinality(T) = Cardinality(S) - 1)
    BY FS_RemoveElement
  <1>2. x \notin S => T = S
    OBVIOUS
  <1>3. Cardinality(S) \in Nat
    BY FS_CardinalityType
  <1>4. CASE x \in S
    BY <1>1, <1>2, <1>3, <1>4
  <1>5. CASE x \notin S
    <2>1. Cardinality(T) = Cardinality(S)
      BY <1>2, <1>5, Zenon
    <2>2. QED
      BY <1>1, <1>3, <1>5, <2>1
  <1>6. QED
    BY <1>4, <1>5

(* makePeermap builds a peermap that counts nothing and has no peers.       *)
LEMMA NewPeerMapOK == IsPeerMap(NewPeerMap) /\ CountsOf(NewPeerMap)
  <1>1. IsPeerMap(NewPeerMap)
    BY DEF IsPeerMap, NewPeerMap, EmptyMap, IsMap
  <1>2. CompleteIDs(NewPeerMap) = {} /\ IncompleteIDs(NewPeerMap) = {}
    BY DEF CompleteIDs, IncompleteIDs, NewPeerMap, EmptyMap
  <1>3. QED
    BY <1>1, <1>2, FS_EmptySet DEF CountsOf, NewPeerMap

(* The sets a peermap counts are finite.                                    *)
LEMMA FinitePeers ==
    ASSUME NEW pm, IsPeerMap(pm)
    PROVE  /\ IsFiniteSet(CompleteIDs(pm)) /\ Cardinality(CompleteIDs(pm)) \in Nat
           /\ IsFiniteSet(IncompleteIDs(pm)) /\ Cardinality(IncompleteIDs(pm)) \in Nat
  <1>1. CompleteIDs(pm) \subseteq PeerIDs /\ IncompleteIDs(pm) \subseteq PeerIDs
    BY DEF IsPeerMap, IsMap, CompleteIDs, IncompleteIDs
  <1>2. IsFiniteSet(CompleteIDs(pm)) /\ IsFiniteSet(IncompleteIDs(pm))
    BY <1>1, FS_Subset, FiniteAssumption
  <1>3. QED
    BY <1>2, FS_CardinalityType

(* An announce moves the counters of its peermap exactly as it moves the    *)
(* sets they count (Save, peer.go:32-54).                                   *)
LEMMA SavePeerOK ==
    ASSUME NEW pm, IsPeerMap(pm), CountsOf(pm),
           NEW id \in PeerIDs, NEW ip \in IPs, NEW complete \in BOOLEAN
    PROVE  /\ IsPeerMap(SavePeer(pm, id, ip, complete))
           /\ CountsOf(SavePeer(pm, id, ip, complete))
  <1> DEFINE p  == [Complete |-> complete, IP |-> ip, Age |-> 0]
             np == SavePeer(pm, id, ip, complete)
             exists == id \in DOMAIN pm.Peers
             was    == exists /\ pm.Peers[id].Complete
  <1>1. p \in Peer
    BY ExpiryAssumption DEF Peer
  <1>2. /\ IsMap(pm.Peers, PeerIDs, Peer)
        /\ pm.Complete \in Int /\ pm.Incomplete \in Int
    BY DEF IsPeerMap
  <1>3. /\ np.Peers = Put(pm.Peers, id, p)
        /\ np.Complete = pm.Complete + CompleteDelta(exists, was, complete)
        /\ np.Incomplete = pm.Incomplete + IncompleteDelta(exists, was, complete)
        /\ np = [Complete |-> np.Complete, Incomplete |-> np.Incomplete,
                 Peers |-> np.Peers]
    BY DEF SavePeer
  <1> HIDE DEF np, p
  <1>4. /\ CompleteDelta(exists, was, complete) \in Int
        /\ IncompleteDelta(exists, was, complete) \in Int
    BY DEF CompleteDelta, IncompleteDelta
  <1>5. /\ IsMap(np.Peers, PeerIDs, Peer)
        /\ DOMAIN np.Peers = DOMAIN pm.Peers \cup {id}
        /\ np.Peers[id] = p
        /\ \A x \in DOMAIN pm.Peers : x # id => np.Peers[x] = pm.Peers[x]
    <2>1. ASSUME NEW m, m = pm.Peers PROVE
            /\ IsMap(Put(m, id, p), PeerIDs, Peer)
            /\ DOMAIN Put(m, id, p) = DOMAIN m \cup {id}
            /\ Put(m, id, p)[id] = p
            /\ \A x \in DOMAIN m : x # id => Put(m, id, p)[x] = m[x]
      BY <1>1, <1>2, <2>1 DEF IsMap, Put
    <2>2. QED
      BY <1>3, <2>1
  <1>6. IsPeerMap(np)
    BY <1>2, <1>3, <1>4, <1>5 DEF IsPeerMap
  <1>7. /\ CompleteIDs(np) = IF complete THEN CompleteIDs(pm) \cup {id}
                                         ELSE CompleteIDs(pm) \ {id}
        /\ IncompleteIDs(np) = IF complete THEN IncompleteIDs(pm) \ {id}
                                           ELSE IncompleteIDs(pm) \cup {id}
    BY <1>5 DEF CompleteIDs, IncompleteIDs, p
  <1>8. /\ id \in CompleteIDs(pm) <=> exists /\ was
        /\ id \in IncompleteIDs(pm) <=> exists /\ ~was
    BY DEF CompleteIDs, IncompleteIDs
  <1>9. CountsOf(np)
    <2>1. CASE complete
      <3>1. Cardinality(CompleteIDs(np)) = Cardinality(CompleteIDs(pm))
                + (IF id \in CompleteIDs(pm) THEN 0 ELSE 1)
        BY <2>1, <1>7, FinitePeers, CardAdd
      <3>2. Cardinality(IncompleteIDs(np)) = Cardinality(IncompleteIDs(pm))
                - (IF id \in IncompleteIDs(pm) THEN 1 ELSE 0)
        BY <2>1, <1>7, FinitePeers, CardRemove
      <3>3. /\ CompleteDelta(exists, was, complete) = IF id \in CompleteIDs(pm) THEN 0 ELSE 1
            /\ IncompleteDelta(exists, was, complete) = IF id \in IncompleteIDs(pm) THEN -1 ELSE 0
        BY <2>1, <1>8 DEF CompleteDelta, IncompleteDelta
      <3>4. QED
        BY <3>1, <3>2, <3>3, <1>3, FinitePeers DEF CountsOf
    <2>2. CASE ~complete
      <3>1. Cardinality(IncompleteIDs(np)) = Cardinality(IncompleteIDs(pm))
                + (IF id \in IncompleteIDs(pm) THEN 0 ELSE 1)
        BY <2>2, <1>7, FinitePeers, CardAdd
      <3>2. Cardinality(CompleteIDs(np)) = Cardinality(CompleteIDs(pm))
                - (IF id \in CompleteIDs(pm) THEN 1 ELSE 0)
        BY <2>2, <1>7, FinitePeers, CardRemove
      <3>3. /\ CompleteDelta(exists, was, complete) = IF id \in CompleteIDs(pm) THEN -1 ELSE 0
            /\ IncompleteDelta(exists, was, complete) = IF id \in IncompleteIDs(pm) THEN 0 ELSE 1
        BY <2>2, <1>8 DEF CompleteDelta, IncompleteDelta
      <3>4. QED
        BY <3>1, <3>2, <3>3, <1>3, FinitePeers DEF CountsOf
    <2>3. QED
      BY <2>1, <2>2
  <1>10. QED
    BY <1>6, <1>9 DEF np

(* A removal moves them likewise (delete, peer.go:96-102; Drop, :136-142).  *)
LEMMA RemovePeerOK ==
    ASSUME NEW pm, IsPeerMap(pm), CountsOf(pm), NEW id \in DOMAIN pm.Peers
    PROVE  /\ IsPeerMap(RemovePeer(pm, id))
           /\ CountsOf(RemovePeer(pm, id))
  <1> DEFINE np == RemovePeer(pm, id)
  <1>1. /\ IsMap(pm.Peers, PeerIDs, Peer)
        /\ pm.Complete \in Int /\ pm.Incomplete \in Int
    BY DEF IsPeerMap
  <1>2. /\ np.Peers = Del(pm.Peers, id)
        /\ np.Complete = pm.Complete - (IF pm.Peers[id].Complete THEN 1 ELSE 0)
        /\ np.Incomplete = pm.Incomplete - (IF pm.Peers[id].Complete THEN 0 ELSE 1)
        /\ np = [Complete |-> np.Complete, Incomplete |-> np.Incomplete,
                 Peers |-> np.Peers]
    BY DEF RemovePeer
  <1> HIDE DEF np
  <1>3. /\ IsMap(np.Peers, PeerIDs, Peer)
        /\ DOMAIN np.Peers = DOMAIN pm.Peers \ {id}
        /\ \A x \in DOMAIN pm.Peers : x # id => np.Peers[x] = pm.Peers[x]
    <2>1. ASSUME NEW m, m = pm.Peers PROVE
            /\ IsMap(Del(m, id), PeerIDs, Peer)
            /\ DOMAIN Del(m, id) = DOMAIN m \ {id}
            /\ \A x \in DOMAIN m : x # id => Del(m, id)[x] = m[x]
      BY <1>1, <2>1, DelType
    <2>2. QED
      BY <1>2, <2>1
  <1>4. IsPeerMap(np)
    BY <1>1, <1>2, <1>3 DEF IsPeerMap
  <1>5. /\ CompleteIDs(np) = CompleteIDs(pm) \ {id}
        /\ IncompleteIDs(np) = IncompleteIDs(pm) \ {id}
    BY <1>3 DEF CompleteIDs, IncompleteIDs
  <1>6. /\ id \in CompleteIDs(pm) <=> pm.Peers[id].Complete
        /\ id \in IncompleteIDs(pm) <=> ~pm.Peers[id].Complete
    BY DEF CompleteIDs, IncompleteIDs
  <1>7. /\ Cardinality(CompleteIDs(np)) = Cardinality(CompleteIDs(pm))
                - (IF id \in CompleteIDs(pm) THEN 1 ELSE 0)
        /\ Cardinality(IncompleteIDs(np)) = Cardinality(IncompleteIDs(pm))
                - (IF id \in IncompleteIDs(pm) THEN 1 ELSE 0)
    BY <1>5, FinitePeers, CardRemove
  <1>8. CountsOf(np)
    BY <1>2, <1>6, <1>7, FinitePeers DEF CountsOf
  <1>9. QED
    BY <1>4, <1>8 DEF np

-----------------------------------------------------------------------------
(* The slots of the whole database are finite in number.                    *)
LEMMA FiniteSlots ==
    /\ IsFiniteSet(SeedSlots) /\ Cardinality(SeedSlots) \in Nat
    /\ IsFiniteSet(LeechSlots) /\ Cardinality(LeechSlots) \in Nat
  <1>1. IsFiniteSet(Hashes \X PeerIDs)
    BY FiniteAssumption, FS_Product
  <1>2. SeedSlots \subseteq Hashes \X PeerIDs /\ LeechSlots \subseteq Hashes \X PeerIDs
    BY DEF SeedSlots, LeechSlots, Slots
  <1>3. IsFiniteSet(SeedSlots) /\ IsFiniteSet(LeechSlots)
    BY <1>1, <1>2, FS_Subset
  <1>4. QED
    BY <1>3, FS_CardinalityType

(* Storing a well-formed peermap under a hash keeps the map well formed.    *)
LEMMA PutHashOK ==
    ASSUME TypeOK, CountsExact, NEW h \in Hashes, NEW np,
           IsPeerMap(np), CountsOf(np), hashmap' = Put(hashmap, h, np)
    PROVE  /\ hashmap' = [x \in DOMAIN hashmap' |-> hashmap'[x]]
           /\ DOMAIN hashmap' = DOMAIN hashmap \cup {h}
           /\ DOMAIN hashmap' \subseteq Hashes
           /\ \A x \in DOMAIN hashmap' : IsPeerMap(hashmap'[x])
           /\ CountsExact'
           /\ hashmap'[h] = np
           /\ \A x \in DOMAIN hashmap : x # h => hashmap'[x] = hashmap[x]
  <1>1. /\ hashmap' = [x \in DOMAIN hashmap' |-> hashmap'[x]]
        /\ DOMAIN hashmap' = DOMAIN hashmap \cup {h}
        /\ hashmap'[h] = np
        /\ \A x \in DOMAIN hashmap : x # h => hashmap'[x] = hashmap[x]
    BY DEF Put
  <1>2. \A x \in DOMAIN hashmap' : IsPeerMap(hashmap'[x]) /\ CountsOf(hashmap'[x])
    <2>1. TAKE x \in DOMAIN hashmap'
    <2>2. CASE x = h
      BY <1>1, <2>2
    <2>3. CASE x # h
      <3>1. x \in DOMAIN hashmap /\ hashmap'[x] = hashmap[x]
        BY <1>1, <2>3
      <3>2. IsPeerMap(hashmap[x]) /\ CountsOf(hashmap[x])
        BY <3>1 DEF TypeOK, CountsExact
      <3>3. QED
        BY <3>1, <3>2, Zenon
    <2>4. QED
      BY <2>2, <2>3
  <1>3. CountsExact'
    BY <1>2 DEF CountsExact, CountsOf, CompleteIDs, IncompleteIDs
  <1>4. QED
    BY <1>1, <1>2, <1>3 DEF TypeOK

(* The peermap an operation works on is well formed, there or new.          *)
LEMMA LookupOK ==
    ASSUME TypeOK, CountsExact, NEW h \in Hashes
    PROVE  IsPeerMap(Lookup(h)) /\ CountsOf(Lookup(h))
  <1>1. CASE h \in DOMAIN hashmap
    <2>1. Lookup(h) = hashmap[h]
      BY <1>1 DEF Lookup
    <2>2. IsPeerMap(hashmap[h]) /\ CountsOf(hashmap[h])
      BY <1>1 DEF TypeOK, CountsExact
    <2>3. QED
      BY <2>1, <2>2, Zenon
  <1>2. CASE h \notin DOMAIN hashmap
    <2>1. Lookup(h) = NewPeerMap
      BY <1>2 DEF Lookup
    <2>2. QED
      BY <2>1, NewPeerMapOK, Zenon
  <1>3. QED
    BY <1>1, <1>2

(* Init establishes the invariant.                                          *)
LEMMA InitOK == Init => IInv
  <1> SUFFICES ASSUME Init PROVE IInv
    OBVIOUS
  <1>1. /\ DOMAIN hashmap = Loaded
        /\ \A h \in Loaded : hashmap[h] = NewPeerMap
    BY DEF Init
  <1>2. TypeOK /\ CountsExact /\ TrimmingPresent
    <2>1. \A h \in DOMAIN hashmap : IsPeerMap(hashmap[h]) /\ CountsOf(hashmap[h])
      BY <1>1, NewPeerMapOK, Zenon
    <2>2. QED
      BY <1>1, <2>1, LoadedAssumption
      DEF Init, TypeOK, CountsExact, TrimmingPresent
  <1>3. SeedSlots = {} /\ LeechSlots = {}
    BY <1>1 DEF SeedSlots, LeechSlots, Slots, NewPeerMap, EmptyMap
  <1>4. GaugesExact
    BY <1>3, FS_EmptySet DEF Init, GaugesExact, SeedSlots, LeechSlots
  <1>5. QED
    BY <1>2, <1>4 DEF IInv

(* Memory.Save keeps it.                                                    *)
LEMMA SaveOK ==
    ASSUME IInv, NEW h \in Hashes, NEW id \in PeerIDs, NEW ip \in IPs,
           NEW complete \in BOOLEAN, Save(h, id, ip, complete)
    PROVE  IInv'
  <1> DEFINE pm == Lookup(h)
             np == SavePeer(pm, id, ip, complete)
             exists == id \in DOMAIN pm.Peers
             was    == exists /\ pm.Peers[id].Complete
             slot   == <<h, id>>
  <1>1. TypeOK /\ CountsExact /\ TrimmingPresent /\ GaugesExact
    BY DEF IInv
  <1>2. IsPeerMap(pm) /\ CountsOf(pm)
    BY <1>1, LookupOK
  <1>3. IsPeerMap(np) /\ CountsOf(np)
    BY <1>2, SavePeerOK
  <1>4. /\ hashmap' = Put(hashmap, h, np)
        /\ seeds' = seeds + CompleteDelta(exists, was, complete)
        /\ leeches' = leeches + IncompleteDelta(exists, was, complete)
        /\ trimming' = trimming
    BY DEF Save
  <1>5. /\ np.Peers = Put(pm.Peers, id, [Complete |-> complete, IP |-> ip, Age |-> 0])
    BY DEF SavePeer
  <1>6. /\ DOMAIN np.Peers = DOMAIN pm.Peers \cup {id}
        /\ np.Peers[id].Complete = complete
        /\ \A x \in DOMAIN pm.Peers : x # id => np.Peers[x] = pm.Peers[x]
    BY <1>5 DEF Put
  <1>7. h \notin DOMAIN hashmap => DOMAIN pm.Peers = {}
    BY DEF Lookup, NewPeerMap, EmptyMap
  <1>8. h \in DOMAIN hashmap => pm = hashmap[h]
    BY DEF Lookup
  <1> HIDE DEF pm, np
  <1>9. /\ hashmap' = [x \in DOMAIN hashmap' |-> hashmap'[x]]
        /\ DOMAIN hashmap' = DOMAIN hashmap \cup {h}
        /\ DOMAIN hashmap' \subseteq Hashes
        /\ \A x \in DOMAIN hashmap' : IsPeerMap(hashmap'[x])
        /\ CountsExact'
        /\ hashmap'[h] = np
        /\ \A x \in DOMAIN hashmap : x # h => hashmap'[x] = hashmap[x]
    BY <1>1, <1>3, <1>4, PutHashOK
  <1>10. seeds \in Int /\ leeches \in Int /\ trimming \in Hashes \cup {NoHash}
    BY <1>1 DEF TypeOK
  <1>11. /\ seeds' \in Int /\ leeches' \in Int
    BY <1>4, <1>10 DEF CompleteDelta, IncompleteDelta
  <1>12. TypeOK'
    BY <1>4, <1>9, <1>10, <1>11 DEF TypeOK
  <1>13. TrimmingPresent'
    BY <1>1, <1>4, <1>9 DEF TrimmingPresent
  <1>14. /\ SeedSlots' = IF complete THEN SeedSlots \cup {slot}
                                     ELSE SeedSlots \ {slot}
         /\ LeechSlots' = IF complete THEN LeechSlots \ {slot}
                                      ELSE LeechSlots \cup {slot}
    BY <1>6, <1>7, <1>8, <1>9 DEF SeedSlots, LeechSlots, Slots, PeerAt
  <1>15. /\ slot \in SeedSlots <=> exists /\ was
         /\ slot \in LeechSlots <=> exists /\ ~was
    BY <1>7, <1>8 DEF SeedSlots, LeechSlots, Slots, PeerAt
  <1>16. seeds = Cardinality(SeedSlots) /\ leeches = Cardinality(LeechSlots)
    BY <1>1 DEF GaugesExact, SeedSlots, LeechSlots
  <1>17. seeds' = Cardinality(SeedSlots') /\ leeches' = Cardinality(LeechSlots')
    <2>1. CASE complete
      <3>1. Cardinality(SeedSlots') = Cardinality(SeedSlots)
                + (IF slot \in SeedSlots THEN 0 ELSE 1)
        BY <2>1, <1>14, FiniteSlots, CardAdd
      <3>2. Cardinality(LeechSlots') = Cardinality(LeechSlots)
                - (IF slot \in LeechSlots THEN 1 ELSE 0)
        BY <2>1, <1>14, FiniteSlots, CardRemove
      <3>3. /\ CompleteDelta(exists, was, complete) = IF slot \in SeedSlots THEN 0 ELSE 1
            /\ IncompleteDelta(exists, was, complete) = IF slot \in LeechSlots THEN -1 ELSE 0
        BY <2>1, <1>15 DEF CompleteDelta, IncompleteDelta
      <3>4. QED
        BY <3>1, <3>2, <3>3, <1>4, <1>16, FiniteSlots
    <2>2. CASE ~complete
      <3>1. Cardinality(LeechSlots') = Cardinality(LeechSlots)
                + (IF slot \in LeechSlots THEN 0 ELSE 1)
        BY <2>2, <1>14, FiniteSlots, CardAdd
      <3>2. Cardinality(SeedSlots') = Cardinality(SeedSlots)
                - (IF slot \in SeedSlots THEN 1 ELSE 0)
        BY <2>2, <1>14, FiniteSlots, CardRemove
      <3>3. /\ CompleteDelta(exists, was, complete) = IF slot \in SeedSlots THEN -1 ELSE 0
            /\ IncompleteDelta(exists, was, complete) = IF slot \in LeechSlots THEN 0 ELSE 1
        BY <2>2, <1>15 DEF CompleteDelta, IncompleteDelta
      <3>4. QED
        BY <3>1, <3>2, <3>3, <1>4, <1>16, FiniteSlots
    <2>3. QED
      BY <2>1, <2>2
  <1>18. GaugesExact'
    BY <1>17 DEF GaugesExact, SeedSlots, LeechSlots
  <1>19. QED
    BY <1>9, <1>12, <1>13, <1>18 DEF IInv

(* Memory.delete and Memory.Drop keep it.                                   *)
LEMMA DeleteOK ==
    ASSUME IInv, NEW h \in DOMAIN hashmap, NEW id \in DOMAIN hashmap[h].Peers,
           Delete(h, id)
    PROVE  IInv'
  <1> DEFINE pm == hashmap[h]
             np == RemovePeer(pm, id)
             slot == <<h, id>>
  <1>1. TypeOK /\ CountsExact /\ TrimmingPresent /\ GaugesExact
    BY DEF IInv
  <1>2. IsPeerMap(pm) /\ CountsOf(pm) /\ h \in Hashes
    BY <1>1 DEF TypeOK, CountsExact
  <1>3. IsPeerMap(np) /\ CountsOf(np)
    BY <1>2, RemovePeerOK
  <1>4. /\ hashmap' = Put(hashmap, h, np)
        /\ seeds' = seeds - (IF pm.Peers[id].Complete THEN 1 ELSE 0)
        /\ leeches' = leeches - (IF pm.Peers[id].Complete THEN 0 ELSE 1)
        /\ trimming' = trimming
    BY DEF Delete
  <1>5. np.Peers = Del(pm.Peers, id)
    BY DEF RemovePeer
  <1>6. /\ DOMAIN np.Peers = DOMAIN pm.Peers \ {id}
        /\ \A x \in DOMAIN pm.Peers : x # id => np.Peers[x] = pm.Peers[x]
    BY <1>5 DEF Del
  <1>7. id \in PeerIDs
    BY <1>2 DEF IsPeerMap, IsMap
  <1> HIDE DEF np
  <1>8. /\ hashmap' = [x \in DOMAIN hashmap' |-> hashmap'[x]]
        /\ DOMAIN hashmap' = DOMAIN hashmap \cup {h}
        /\ DOMAIN hashmap' \subseteq Hashes
        /\ \A x \in DOMAIN hashmap' : IsPeerMap(hashmap'[x])
        /\ CountsExact'
        /\ hashmap'[h] = np
        /\ \A x \in DOMAIN hashmap : x # h => hashmap'[x] = hashmap[x]
    BY <1>1, <1>2, <1>3, <1>4, PutHashOK
  <1>9. seeds \in Int /\ leeches \in Int /\ trimming \in Hashes \cup {NoHash}
    BY <1>1 DEF TypeOK
  <1>10. TypeOK'
    BY <1>4, <1>8, <1>9 DEF TypeOK
  <1>11. TrimmingPresent'
    BY <1>1, <1>4, <1>8 DEF TrimmingPresent
  <1>12. SeedSlots' = SeedSlots \ {slot} /\ LeechSlots' = LeechSlots \ {slot}
    BY <1>6, <1>8 DEF SeedSlots, LeechSlots, Slots, PeerAt
  <1>13. /\ slot \in SeedSlots <=> pm.Peers[id].Complete
         /\ slot \in LeechSlots <=> ~pm.Peers[id].Complete
    BY <1>2, <1>7 DEF SeedSlots, LeechSlots, Slots, PeerAt
  <1>14. /\ Cardinality(SeedSlots') = Cardinality(SeedSlots)
                - (IF slot \in SeedSlots THEN 1 ELSE 0)
         /\ Cardinality(LeechSlots') = Cardinality(LeechSlots)
                - (IF slot \in LeechSlots THEN 1 ELSE 0)
    BY <1>12, FiniteSlots, CardRemove
  <1>15. seeds = Cardinality(SeedSlots) /\ leeches = Cardinality(LeechSlots)
    BY <1>1 DEF GaugesExact, SeedSlots, LeechSlots
  <1>16. seeds' = Cardinality(SeedSlots') /\ leeches' = Cardinality(LeechSlots')
    BY <1>4, <1>13, <1>14, <1>15, FiniteSlots
  <1>17. GaugesExact'
    BY <1>16 DEF GaugesExact, SeedSlots, LeechSlots
  <1>18. QED
    BY <1>8, <1>10, <1>11, <1>17 DEF IInv

(* Taking and releasing the peermap mutex keeps it; a hash is only dropped  *)
(* when it has no peer left to count.                                       *)
LEMMA TrimUnlockOK ==
    ASSUME IInv, TrimUnlock
    PROVE  IInv'
  <1>1. TypeOK /\ CountsExact /\ TrimmingPresent /\ GaugesExact
    BY DEF IInv
  <1>2. /\ trimming' = NoHash
        /\ seeds' = seeds /\ leeches' = leeches
        /\ hashmap' = IF DOMAIN hashmap[trimming].Peers = {}
                      THEN Del(hashmap, trimming) ELSE hashmap
    BY DEF TrimUnlock
  <1>3. /\ hashmap' = [x \in DOMAIN hashmap' |-> hashmap'[x]]
        /\ DOMAIN hashmap' \subseteq DOMAIN hashmap
        /\ \A x \in DOMAIN hashmap' : hashmap'[x] = hashmap[x]
        /\ \A x \in DOMAIN hashmap \ DOMAIN hashmap' : DOMAIN hashmap[x].Peers = {}
    BY <1>1, <1>2 DEF Del, TypeOK
  <1>4. /\ DOMAIN hashmap' \subseteq Hashes
        /\ \A x \in DOMAIN hashmap' : IsPeerMap(hashmap'[x])
    <2>1. \A x \in DOMAIN hashmap : IsPeerMap(hashmap[x])
      BY <1>1 DEF TypeOK
    <2>2. QED
      BY <1>1, <1>3, <2>1 DEF TypeOK
  <1>5. TypeOK'
    BY <1>1, <1>2, <1>3, <1>4 DEF TypeOK
  <1>6. CountsExact'
    BY <1>1, <1>3 DEF CountsExact, CountsOf, CompleteIDs, IncompleteIDs
  <1>7. SeedSlots' = SeedSlots /\ LeechSlots' = LeechSlots
    BY <1>3 DEF SeedSlots, LeechSlots, Slots, PeerAt
  <1>8. seeds = Cardinality(SeedSlots) /\ leeches = Cardinality(LeechSlots)
    BY <1>1 DEF GaugesExact, SeedSlots, LeechSlots
  <1>9. seeds' = Cardinality(SeedSlots') /\ leeches' = Cardinality(LeechSlots')
    BY <1>2, <1>7, <1>8, Zenon
  <1>10. GaugesExact'
    BY <1>9 DEF GaugesExact, SeedSlots, LeechSlots
  <1>11. QED
    BY <1>2, <1>5, <1>6, <1>10 DEF IInv, TrimmingPresent

(* A step that leaves the map and the gauges alone keeps the counts.        *)
LEMMA SameDataOK ==
    ASSUME IInv, UNCHANGED <<hashmap, seeds, leeches>>
    PROVE  CountsExact' /\ GaugesExact'
  <1>1. CountsExact'
    BY DEF IInv, CountsExact, CountsOf, CompleteIDs, IncompleteIDs
  <1>2. SeedSlots' = SeedSlots /\ LeechSlots' = LeechSlots
    BY DEF SeedSlots, LeechSlots, Slots, PeerAt
  <1>3. seeds = Cardinality(SeedSlots) /\ leeches = Cardinality(LeechSlots)
    BY DEF IInv, GaugesExact, SeedSlots, LeechSlots
  <1>4. seeds' = Cardinality(SeedSlots') /\ leeches' = Cardinality(LeechSlots')
    BY <1>2, <1>3, Zenon
  <1>5. GaugesExact'
    BY <1>4 DEF GaugesExact, SeedSlots, LeechSlots
  <1>6. QED
    BY <1>1, <1>5

(* The passing of time changes no count.                                    *)
LEMMA TickOK ==
    ASSUME IInv, Tick
    PROVE  IInv'
  <1>1. TypeOK /\ CountsExact /\ TrimmingPresent /\ GaugesExact
    BY DEF IInv
  <1>2. /\ trimming' = trimming /\ seeds' = seeds /\ leeches' = leeches
        /\ hashmap' = [h \in DOMAIN hashmap |->
                     [hashmap[h] EXCEPT !.Peers =
                        [id \in DOMAIN hashmap[h].Peers |-> Older(hashmap[h].Peers[id])]]]
    BY DEF Tick
  <1>3. DOMAIN hashmap' = DOMAIN hashmap
    BY <1>2
  <1>4. ASSUME NEW h \in DOMAIN hashmap
        PROVE  /\ hashmap'[h].Complete = hashmap[h].Complete
               /\ hashmap'[h].Incomplete = hashmap[h].Incomplete
               /\ hashmap'[h] = [Complete |-> hashmap'[h].Complete,
                                 Incomplete |-> hashmap'[h].Incomplete,
                                 Peers |-> hashmap'[h].Peers]
               /\ hashmap'[h].Peers = [id \in DOMAIN hashmap'[h].Peers |->
                                          hashmap'[h].Peers[id]]
               /\ DOMAIN hashmap'[h].Peers = DOMAIN hashmap[h].Peers
               /\ \A id \in DOMAIN hashmap[h].Peers :
                     hashmap'[h].Peers[id] = Older(hashmap[h].Peers[id])
    <2> DEFINE older == [id \in DOMAIN hashmap[h].Peers |-> Older(hashmap[h].Peers[id])]
    <2>1. hashmap[h] = [Complete |-> hashmap[h].Complete,
                        Incomplete |-> hashmap[h].Incomplete,
                        Peers |-> hashmap[h].Peers]
      BY <1>1 DEF TypeOK, IsPeerMap
    <2>2. hashmap'[h] = [hashmap[h] EXCEPT !.Peers = older]
      BY <1>2
    <2>3. /\ DOMAIN older = DOMAIN hashmap[h].Peers
          /\ older = [id \in DOMAIN older |-> older[id]]
          /\ \A id \in DOMAIN hashmap[h].Peers : older[id] = Older(hashmap[h].Peers[id])
      OBVIOUS
    <2> HIDE DEF older
    <2>4. hashmap'[h] = [Complete |-> hashmap[h].Complete,
                         Incomplete |-> hashmap[h].Incomplete,
                         Peers |-> older]
      BY <2>1, <2>2
    <2>5. /\ hashmap'[h].Complete = hashmap[h].Complete
          /\ hashmap'[h].Incomplete = hashmap[h].Incomplete
          /\ hashmap'[h].Peers = older
      BY <2>4
    <2>6. QED
      BY <2>3, <2>4, <2>5
  <1>5. ASSUME NEW h \in DOMAIN hashmap, NEW id \in DOMAIN hashmap[h].Peers
        PROVE  /\ Older(hashmap[h].Peers[id]) \in Peer
               /\ Older(hashmap[h].Peers[id]).Complete = hashmap[h].Peers[id].Complete
    <2>1. hashmap[h].Peers[id] \in Peer
      BY <1>1 DEF TypeOK, IsPeerMap, IsMap
    <2>2. QED
      BY <2>1, ExpiryAssumption DEF Older, Peer
  <1>5a. \A h \in DOMAIN hashmap :
           /\ DOMAIN hashmap'[h].Peers = DOMAIN hashmap[h].Peers
           /\ \A id \in DOMAIN hashmap[h].Peers :
                 /\ hashmap'[h].Peers[id] \in Peer
                 /\ hashmap'[h].Peers[id].Complete = hashmap[h].Peers[id].Complete
    <2>1. TAKE h \in DOMAIN hashmap
    <2>2. DOMAIN hashmap'[h].Peers = DOMAIN hashmap[h].Peers
      BY <1>4
    <2>3. ASSUME NEW id \in DOMAIN hashmap[h].Peers
          PROVE  /\ hashmap'[h].Peers[id] \in Peer
                 /\ hashmap'[h].Peers[id].Complete = hashmap[h].Peers[id].Complete
      <3>1. hashmap'[h].Peers[id] = Older(hashmap[h].Peers[id])
        BY <1>4
      <3>2. QED
        BY <1>5, <3>1, Zenon
    <2>4. QED
      BY <2>2, <2>3
  <1>6. ASSUME NEW h \in DOMAIN hashmap
        PROVE  IsPeerMap(hashmap'[h])
    <2>1. /\ hashmap[h].Complete \in Int /\ hashmap[h].Incomplete \in Int
          /\ DOMAIN hashmap[h].Peers \subseteq PeerIDs
      BY <1>1 DEF TypeOK, IsPeerMap, IsMap
    <2>2. IsMap(hashmap'[h].Peers, PeerIDs, Peer)
      <3>1. \A id \in DOMAIN hashmap'[h].Peers : hashmap'[h].Peers[id] \in Peer
        BY <1>5a
      <3>2. QED
        BY <1>4, <1>5a, <2>1, <3>1 DEF IsMap
    <2>3. QED
      BY <1>4, <2>1, <2>2 DEF IsPeerMap
  <1>7. TypeOK'
    BY <1>1, <1>2, <1>3, <1>6 DEF TypeOK
  <1>8. CountsExact'
    <2>1. ASSUME NEW h \in DOMAIN hashmap
          PROVE  /\ CompleteIDs(hashmap'[h]) = CompleteIDs(hashmap[h])
                 /\ IncompleteIDs(hashmap'[h]) = IncompleteIDs(hashmap[h])
      BY <1>5a DEF CompleteIDs, IncompleteIDs
    <2>2. ASSUME NEW h \in DOMAIN hashmap
          PROVE  CountsOf(hashmap'[h])
      <3>1. CountsOf(hashmap[h])
        BY <1>1 DEF CountsExact
      <3>2. /\ hashmap'[h].Complete = hashmap[h].Complete
            /\ hashmap'[h].Incomplete = hashmap[h].Incomplete
        BY <1>4
      <3>3. QED
        BY <2>1, <3>1, <3>2, Zenon DEF CountsOf
    <2>3. QED
      BY <1>3, <2>2 DEF CountsExact, CountsOf, CompleteIDs, IncompleteIDs
  <1>9. SeedSlots' = SeedSlots /\ LeechSlots' = LeechSlots
    BY <1>3, <1>5a DEF SeedSlots, LeechSlots, Slots, PeerAt
  <1>10. seeds = Cardinality(SeedSlots) /\ leeches = Cardinality(LeechSlots)
    BY <1>1 DEF GaugesExact, SeedSlots, LeechSlots
  <1>11. seeds' = Cardinality(SeedSlots') /\ leeches' = Cardinality(LeechSlots')
    BY <1>2, <1>9, <1>10, Zenon
  <1>12. GaugesExact'
    BY <1>11 DEF GaugesExact, SeedSlots, LeechSlots
  <1>13. QED
    BY <1>1, <1>2, <1>3, <1>7, <1>8, <1>12 DEF IInv, TrimmingPresent

-----------------------------------------------------------------------------
(* Every step keeps the invariant, one case per operation.                  *)
LEMMA NextOK == IInv /\ [Next]_vars => IInv'
  <1> SUFFICES ASSUME IInv, [Next]_vars PROVE IInv'
    OBVIOUS
  <1>1. ASSUME NEW h \in Hashes, NEW id \in PeerIDs, NEW ip \in IPs,
               NEW complete \in BOOLEAN, Save(h, id, ip, complete)
        PROVE  IInv'
    BY <1>1, SaveOK
  <1>2. ASSUME NEW h \in Hashes, NEW id \in PeerIDs, Drop(h, id)
        PROVE  IInv'
    BY <1>2, DeleteOK DEF Drop
  <1>3. ASSUME NEW h \in Hashes, TrimLock(h)
        PROVE  IInv'
    BY <1>3, SameDataOK DEF TrimLock, IInv, TypeOK, TrimmingPresent
  <1>4. ASSUME NEW id \in PeerIDs, TrimDelete(id)
        PROVE  IInv'
    BY <1>4, DeleteOK DEF TrimDelete, IInv, TrimmingPresent
  <1>5. CASE TrimUnlock
    BY <1>5, TrimUnlockOK
  <1>6. CASE Tick
    BY <1>6, TickOK
  <1>7. CASE UNCHANGED vars
    BY <1>7, SameDataOK DEF vars, IInv, TypeOK, TrimmingPresent
  <1>8. QED
    BY <1>1, <1>2, <1>3, <1>4, <1>5, <1>6, <1>7 DEF Next

(* The inductive invariant holds in every reachable state.                  *)
THEOREM Invariance == Spec => []IInv
  BY InitOK, NextOK, PTL DEF Spec

(* The peer database is always well formed.                                 *)
THEOREM TypeCorrect == Spec => []TypeOK
  <1>1. IInv => TypeOK
    BY DEF IInv
  <1>2. QED
    BY Invariance, <1>1, PTL

(* The stats gauges are a recount of the database, always.                  *)
THEOREM GaugesCorrect == Spec => []GaugesExact
  <1>1. IInv => GaugesExact
    BY DEF IInv
  <1>2. QED
    BY Invariance, <1>1, PTL

(* HashStats returns the number of complete and incomplete peers.           *)
THEOREM HashStatsCorrect == Spec => []HashStatsExact
  <1>1. IInv => HashStatsExact
    <2> SUFFICES ASSUME IInv, NEW h \in Hashes
                 PROVE  HashStats(h) = <<Uint16(Cardinality(CompleteIDs(Lookup(h)))),
                                         Uint16(Cardinality(IncompleteIDs(Lookup(h))))>>
      BY DEF HashStatsExact
    <2>1. CASE h \in DOMAIN hashmap
      BY <2>1 DEF IInv, CountsExact, CountsOf, HashStats, Lookup
    <2>2. CASE h \notin DOMAIN hashmap
      <3>1. Lookup(h) = NewPeerMap
        BY <2>2 DEF Lookup
      <3>2. CompleteIDs(NewPeerMap) = {} /\ IncompleteIDs(NewPeerMap) = {}
        BY DEF CompleteIDs, IncompleteIDs, NewPeerMap, EmptyMap
      <3>3. /\ Cardinality(CompleteIDs(Lookup(h))) = 0
            /\ Cardinality(IncompleteIDs(Lookup(h))) = 0
        BY <3>1, <3>2, FS_EmptySet
      <3>4. QED
        BY <2>2, <3>3 DEF HashStats, Uint16
    <2>3. QED
      BY <2>1, <2>2
  <1>2. QED
    BY Invariance, <1>1, PTL

(* No peer seen within Expiry is lost to the trimmer.                       *)
THEOREM TrimIsSafe == Spec => TrimKeepsFresh
  <1> DEFINE Keeps == \A s \in Slots :
                 (trimming = s[1] /\ ~Expired(PeerAt(s))) => s \in Slots'
  <1>1. IInv /\ [Next]_vars => [Keeps]_vars
    <2> SUFFICES ASSUME IInv, Next, NEW s \in Slots,
                        trimming = s[1], ~Expired(PeerAt(s))
                 PROVE  s \in Slots'
      BY DEF Keeps
    <2> USE DEF Slots
    <2>0. /\ s \in Hashes \X PeerIDs /\ s = <<s[1], s[2]>>
          /\ s[1] \in DOMAIN hashmap /\ s[2] \in DOMAIN hashmap[s[1]].Peers
      OBVIOUS
    <2>1. ASSUME NEW h \in Hashes, NEW id \in PeerIDs, NEW ip \in IPs,
                 NEW complete \in BOOLEAN, Save(h, id, ip, complete)
          PROVE  s \in Slots'
      BY <2>0, <2>1 DEF Save, Put
    <2>2. ASSUME NEW h \in Hashes, NEW id \in PeerIDs, Drop(h, id)
          PROVE  s \in Slots'
      BY <2>0, <2>2 DEF Drop, Delete, Put
    <2>3. ASSUME NEW h \in Hashes, TrimLock(h)
          PROVE  s \in Slots'
      BY <2>0, <2>3 DEF TrimLock
    <2>4. ASSUME NEW id \in PeerIDs, TrimDelete(id)
          PROVE  s \in Slots'
      BY <2>0, <2>4 DEF TrimDelete, Delete, Put, Del, RemovePeer, PeerAt
    <2>5. CASE TrimUnlock
      BY <2>0, <2>5 DEF TrimUnlock
    <2>6. CASE Tick
      BY <2>0, <2>6, NoHashAssumption DEF Tick
    <2>7. QED
      BY <2>1, <2>2, <2>3, <2>4, <2>5, <2>6 DEF Next
  <1>2. QED
    BY Invariance, <1>1, PTL DEF Spec, TrimKeepsFresh

-----------------------------------------------------------------------------
(* IPStats counts in an int16; there are few enough peers for it.           *)
Fits == Cardinality(Hashes \X PeerIDs) < 32768

SlotSets == SUBSET (Hashes \X PeerIDs)

\* The slots of the peers at each address
Users == [ip \in IPs |-> {s \in Slots : PeerAt(s).IP = ip}]

\* stats is the multiset of addresses that users tells apart
Counts(stats, users) ==
    /\ DOMAIN stats = {ip \in IPs : users[ip] # {}}
    /\ \A ip \in DOMAIN stats : stats[ip] = Cardinality(users[ip])

(* There are fewer slots than an int16 counts.                              *)
LEMMA SlotSetsOK ==
    ASSUME Fits, NEW S \in SlotSets
    PROVE  /\ IsFiniteSet(S) /\ Cardinality(S) \in Nat /\ Cardinality(S) < 32768
           /\ Cardinality(S) = 0 <=> S = {}
  <1>1. IsFiniteSet(Hashes \X PeerIDs)
    BY FiniteAssumption, FS_Product
  <1>2. IsFiniteSet(S) /\ Cardinality(S) <= Cardinality(Hashes \X PeerIDs)
    BY <1>1, FS_Subset DEF SlotSets
  <1>3. Cardinality(S) \in Nat /\ Cardinality(Hashes \X PeerIDs) \in Nat
    BY <1>1, <1>2, FS_CardinalityType
  <1>4. QED
    BY <1>2, <1>3, FS_EmptySet DEF Fits

(* Below 2^15 the int16 of IPStats does not wrap.                           *)
LEMMA Int16OK == \A n \in Nat : n < 32768 => Int16(n) = n
  BY DEF Int16

(* IPStatsExact says that IPStats counts the users of each address.         *)
LEMMA UsersOK == TypeOK => /\ Users \in [IPs -> SlotSets]
                           /\ Counts(ipstats, Users) <=> IPStatsExact
  <1> SUFFICES ASSUME TypeOK
               PROVE  /\ Users \in [IPs -> SlotSets]
                      /\ Counts(ipstats, Users) <=> IPStatsExact
    OBVIOUS
  <1>1. Users \in [IPs -> SlotSets]
    BY DEF Users, SlotSets, Slots
  <1>2. \A s \in Slots : PeerAt(s).IP \in IPs
    <2>1. ASSUME NEW s \in Slots PROVE PeerAt(s) \in Peer
      BY DEF Slots, PeerAt, TypeOK, IsPeerMap, IsMap
    <2>2. QED
      BY <2>1 DEF Peer
  <1>3. {ip \in IPs : Users[ip] # {}} = {PeerAt(s).IP : s \in Slots}
    BY <1>2 DEF Users
  <1>4. \A ip \in IPs : Users[ip] = {s \in Slots : PeerAt(s).IP = ip}
    BY DEF Users
  <1>5. QED
    BY <1>1, <1>3, <1>4 DEF Counts, IPStatsExact

(* One more peer at an address, and one less.                               *)
LEMMA IPIncOK ==
    ASSUME Fits, NEW stats, NEW u \in [IPs -> SlotSets], Counts(stats, u),
           NEW ip \in IPs, NEW x \in Hashes \X PeerIDs, x \notin u[ip],
           NEW v \in [IPs -> SlotSets], v = [u EXCEPT ![ip] = u[ip] \cup {x}]
    PROVE  Counts(IPInc(stats, ip), v)
  <1>1. /\ v[ip] = u[ip] \cup {x} /\ v[ip] # {} /\ u[ip] \in SlotSets /\ v[ip] \in SlotSets
        /\ \A i \in IPs : i # ip => v[i] = u[i]
    OBVIOUS
  <1>2. Cardinality(v[ip]) = Cardinality(u[ip]) + 1
    <2>1. IsFiniteSet(u[ip])
      BY <1>1, SlotSetsOK
    <2>2. QED
      BY <1>1, <2>1, FS_AddElement
  <1>3. Get(stats, ip) = Cardinality(u[ip])
    BY <1>1, SlotSetsOK DEF Get, Counts
  <1>4. Int16(Get(stats, ip) + 1) = Cardinality(v[ip])
    <2> DEFINE c == Cardinality(u[ip])
               d == Cardinality(v[ip])
    <2>1. c \in Nat /\ d \in Nat /\ d < 32768
      <3>1. u[ip] \in SlotSets /\ v[ip] \in SlotSets
        BY <1>1
      <3>2. \A S \in SlotSets : Cardinality(S) \in Nat /\ Cardinality(S) < 32768
        BY SlotSetsOK
      <3>3. QED
        BY <3>1, <3>2
    <2>2. d = c + 1 /\ Get(stats, ip) = c
      BY <1>2, <1>3
    <2> HIDE DEF c, d
    <2>3. Get(stats, ip) + 1 = d
      BY <2>1, <2>2
    <2>4. Int16(d) = d
      BY <2>1, Int16OK
    <2>5. QED
      BY <2>3, <2>4 DEF d
  <1>5. /\ DOMAIN IPInc(stats, ip) = DOMAIN stats \cup {ip}
        /\ IPInc(stats, ip)[ip] = Cardinality(v[ip])
        /\ \A i \in DOMAIN stats : i # ip => IPInc(stats, ip)[i] = stats[i]
    BY <1>4 DEF IPInc, Put
  <1>6. DOMAIN IPInc(stats, ip) = {i \in IPs : v[i] # {}}
    BY <1>1, <1>5 DEF Counts
  <1>7. ASSUME NEW i \in DOMAIN IPInc(stats, ip)
        PROVE  IPInc(stats, ip)[i] = Cardinality(v[i])
    <2>1. CASE i = ip
      BY <1>5, <2>1
    <2>2. CASE i # ip
      BY <1>1, <1>5, <1>7, <2>2 DEF Counts
    <2>3. QED
      BY <2>1, <2>2
  <1>8. QED
    BY <1>6, <1>7 DEF Counts

(* The count that reaches zero leaves the map (IPStats.Remove).             *)
LEMMA IPRemoveOK ==
    ASSUME Fits, NEW stats, NEW u \in [IPs -> SlotSets], Counts(stats, u),
           NEW ip \in IPs, NEW x \in u[ip],
           NEW v \in [IPs -> SlotSets], v = [u EXCEPT ![ip] = u[ip] \ {x}]
    PROVE  Counts(IPRemove(stats, ip), v)
  <1>1. /\ v[ip] = u[ip] \ {x} /\ u[ip] # {} /\ u[ip] \in SlotSets /\ v[ip] \in SlotSets
        /\ \A i \in IPs : i # ip => v[i] = u[i]
    OBVIOUS
  <1>2. Cardinality(v[ip]) = Cardinality(u[ip]) - 1
    <2>1. IsFiniteSet(u[ip])
      BY <1>1, SlotSetsOK
    <2>2. QED
      BY <1>1, <2>1, FS_RemoveElement
  <1>3. ip \in DOMAIN stats /\ Get(stats, ip) = Cardinality(u[ip])
    BY <1>1 DEF Get, Counts
  <1>4. Int16(Get(stats, ip) - 1) = Cardinality(v[ip])
    <2> DEFINE c == Cardinality(u[ip])
               d == Cardinality(v[ip])
    <2>1. c \in Nat /\ d \in Nat /\ d < 32768
      <3>1. u[ip] \in SlotSets /\ v[ip] \in SlotSets
        BY <1>1
      <3>2. \A S \in SlotSets : Cardinality(S) \in Nat /\ Cardinality(S) < 32768
        BY SlotSetsOK
      <3>3. QED
        BY <3>1, <3>2
    <2>2. d = c - 1 /\ Get(stats, ip) = c
      BY <1>2, <1>3
    <2> HIDE DEF c, d
    <2>3. Get(stats, ip) - 1 = d
      BY <2>1, <2>2
    <2>4. Int16(d) = d
      BY <2>1, Int16OK
    <2>5. QED
      BY <2>3, <2>4 DEF d
  <1>5. Cardinality(v[ip]) = 0 <=> v[ip] = {}
    BY <1>1, SlotSetsOK
  <1> DEFINE new == IPRemove(stats, ip)
  <1>6. CASE v[ip] = {}
    <2>1. new = Del(stats, ip)
      BY <1>4, <1>5, <1>6 DEF IPRemove
    <2>2. DOMAIN new = DOMAIN stats \ {ip} /\ \A i \in DOMAIN new : new[i] = stats[i]
      BY <2>1 DEF Del
    <2> HIDE DEF new
    <2>3. DOMAIN new = {i \in IPs : v[i] # {}}
      BY <1>1, <1>6, <2>2 DEF Counts
    <2>4. \A i \in DOMAIN new : new[i] = Cardinality(v[i])
      BY <1>1, <2>2 DEF Counts
    <2>5. QED
      BY <2>3, <2>4 DEF Counts, new
  <1>7. CASE v[ip] # {}
    <2>1. new = Put(stats, ip, Cardinality(v[ip]))
      BY <1>4, <1>5, <1>7 DEF IPRemove
    <2>2. /\ DOMAIN new = DOMAIN stats \cup {ip} /\ new[ip] = Cardinality(v[ip])
          /\ \A i \in DOMAIN stats : i # ip => new[i] = stats[i]
      BY <2>1 DEF Put
    <2> HIDE DEF new
    <2>3. DOMAIN new = {i \in IPs : v[i] # {}}
      BY <1>1, <1>3, <1>7, <2>2 DEF Counts
    <2>4. \A i \in DOMAIN new : new[i] = Cardinality(v[i])
      BY <1>1, <1>3, <2>2 DEF Counts
    <2>5. QED
      BY <2>3, <2>4 DEF Counts, new
  <1>8. QED
    BY <1>6, <1>7

\* Peer id of hash h has got address ip, and nobody else has moved
Moved(h, id, ip) ==
    /\ Slots' = Slots \cup {<<h, id>>}
    /\ PeerAt(<<h, id>>).IP' = ip
    /\ \A s \in Slots : s # <<h, id>> => PeerAt(s)' = PeerAt(s)

(* What an announce does to the slots, and which peer Save found there.     *)
LEMMA SaveMoves ==
    ASSUME TypeOK, NEW h \in Hashes, NEW id \in PeerIDs, NEW ip, NEW complete,
           Save(h, id, ip, complete)
    PROVE  /\ Moved(h, id, ip)
           /\ id \in DOMAIN Lookup(h).Peers <=> <<h, id>> \in Slots
           /\ <<h, id>> \in Slots => Lookup(h).Peers[id] = PeerAt(<<h, id>>)
  <1> DEFINE pm == Lookup(h)
             np == SavePeer(pm, id, ip, complete)
  <1>1. hashmap' = Put(hashmap, h, np)
    BY DEF Save
  <1>2. np.Peers = Put(pm.Peers, id, [Complete |-> complete, IP |-> ip, Age |-> 0])
    BY DEF SavePeer
  <1>3. /\ DOMAIN np.Peers = DOMAIN pm.Peers \cup {id} /\ np.Peers[id].IP = ip
        /\ \A x \in DOMAIN pm.Peers : x # id => np.Peers[x] = pm.Peers[x]
    BY <1>2 DEF Put
  <1>4. h \notin DOMAIN hashmap => DOMAIN pm.Peers = {}
    BY DEF Lookup, NewPeerMap, EmptyMap
  <1>5. h \in DOMAIN hashmap => pm = hashmap[h]
    BY DEF Lookup
  <1> HIDE DEF pm, np
  <1>6. /\ DOMAIN hashmap' = DOMAIN hashmap \cup {h} /\ hashmap'[h] = np
        /\ \A x \in DOMAIN hashmap : x # h => hashmap'[x] = hashmap[x]
    BY <1>1 DEF Put
  <1>7. Slots' = Slots \cup {<<h, id>>}
    BY <1>3, <1>4, <1>5, <1>6 DEF Slots
  <1>8. \A s \in Slots : s # <<h, id>> => PeerAt(s)' = PeerAt(s)
    BY <1>3, <1>4, <1>5, <1>6 DEF Slots, PeerAt
  <1>9. PeerAt(<<h, id>>).IP' = ip
    BY <1>3, <1>6 DEF PeerAt
  <1>10. id \in DOMAIN pm.Peers <=> <<h, id>> \in Slots
    BY <1>4, <1>5 DEF Slots
  <1>11. <<h, id>> \in Slots => pm.Peers[id] = PeerAt(<<h, id>>)
    BY <1>5 DEF Slots, PeerAt
  <1>12. QED
    BY <1>7, <1>8, <1>9, <1>10, <1>11 DEF Moved, pm


(* A function that differs from another in one place.                       *)
LEMMA OneChange ==
    ASSUME NEW u \in [IPs -> SlotSets], NEW v \in [IPs -> SlotSets],
           NEW ip \in IPs, NEW S, v[ip] = S, \A i \in IPs : i # ip => v[i] = u[i]
    PROVE  v = [u EXCEPT ![ip] = S]
  OBVIOUS

(* The users of an address after an announce from ip.                       *)
LEMMA UsersMove ==
    ASSUME NEW h \in Hashes, NEW id \in PeerIDs, NEW ip \in IPs, Moved(h, id, ip)
    PROVE  /\ Users' \in [IPs -> SlotSets]
           /\ Users'[ip] = Users[ip] \cup {<<h, id>>}
           /\ \A i \in IPs : i # ip => Users'[i] = Users[i] \ {<<h, id>>}
  <1>1. Users' \in [IPs -> SlotSets]
    BY DEF Users, SlotSets, Slots
  <1>2. \A i \in IPs : /\ Users[i] = {s \in Slots : PeerAt(s).IP = i}
                       /\ Users'[i] = {s \in Slots' : PeerAt(s)'.IP = i}
    BY DEF Users
  <1>3. /\ Slots' = Slots \cup {<<h, id>>}
        /\ PeerAt(<<h, id>>)'.IP = ip
        /\ \A s \in Slots : s # <<h, id>> => PeerAt(s)' = PeerAt(s)
    BY DEF Moved
  <1>4. \A s \in Slots' : s = <<h, id>> \/ (s \in Slots /\ PeerAt(s)' = PeerAt(s))
    BY <1>3
  <1>5. Users'[ip] = Users[ip] \cup {<<h, id>>}
    BY <1>2, <1>3, <1>4
  <1>6. ASSUME NEW i \in IPs, i # ip PROVE Users'[i] = Users[i] \ {<<h, id>>}
    BY <1>2, <1>3, <1>4, <1>6
  <1>7. QED
    BY <1>1, <1>5, <1>6

(* Memory.Save: a new peer, the same address, or another (ipmap.go:28-50).  *)
LEMMA SaveIPs ==
    ASSUME Fits, IInv, Counts(ipstats, Users),
           NEW h \in Hashes, NEW id \in PeerIDs, NEW ip \in IPs,
           NEW complete \in BOOLEAN, Save(h, id, ip, complete)
    PROVE  Counts(ipstats', Users')
  <1> DEFINE slot == <<h, id>>
  <1>1. TypeOK
    BY DEF IInv
  <1>2. /\ Users \in [IPs -> SlotSets] /\ slot \in Hashes \X PeerIDs
        /\ \A i \in IPs : Users[i] = {s \in Slots : PeerAt(s).IP = i}
    BY <1>1, UsersOK DEF Users
  <1>3. /\ Moved(h, id, ip)
        /\ id \in DOMAIN Lookup(h).Peers <=> slot \in Slots
        /\ slot \in Slots => Lookup(h).Peers[id] = PeerAt(slot)
    BY <1>1, SaveMoves
  <1>4. PICK v \in [IPs -> SlotSets] : v = Users'
    BY <1>3, UsersMove
  <1>5. /\ v[ip] = Users[ip] \cup {slot}
        /\ \A i \in IPs : i # ip => v[i] = Users[i] \ {slot}
    BY <1>3, <1>4, UsersMove
  <1>6. ipstats' = IF slot \notin Slots THEN IPInc(ipstats, ip)
                   ELSE IF PeerAt(slot).IP = ip THEN ipstats
                   ELSE IPInc(IPRemove(ipstats, PeerAt(slot).IP), ip)
    BY <1>3 DEF Save
  <1> HIDE DEF slot
  <1>7. CASE slot \notin Slots
    <2>1. \A i \in IPs : slot \notin Users[i]
      BY <1>2, <1>7
    <2>2. v[ip] = Users[ip] \cup {slot} /\ \A i \in IPs : i # ip => v[i] = Users[i]
      BY <1>5, <2>1
    <2>3. v = [Users EXCEPT ![ip] = Users[ip] \cup {slot}]
      BY <1>2, <2>2, OneChange
    <2>4. Counts(IPInc(ipstats, ip), v)
      BY <1>2, <2>1, <2>3, IPIncOK
    <2>5. QED
      BY <1>4, <1>6, <1>7, <2>4
  <1>8. CASE slot \in Slots /\ PeerAt(slot).IP = ip
    <2>1. v = Users
      BY <1>2, <1>5, <1>8
    <2>2. QED
      BY <1>4, <1>6, <1>8, <2>1
  <1>9. CASE slot \in Slots /\ PeerAt(slot).IP # ip
    <2>1. PICK old \in IPs : old = PeerAt(slot).IP
      <3>1. PeerAt(slot) \in Peer
        BY <1>1, <1>9 DEF Slots, PeerAt, TypeOK, IsPeerMap, IsMap
      <3>2. QED
        BY <3>1 DEF Peer
    <2>2. slot \in Users[old] /\ slot \notin Users[ip]
      BY <1>2, <1>9, <2>1
    <2>3. \A i \in IPs : i # old => slot \notin Users[i]
      BY <1>2, <2>1
    <2>4. PICK mid \in [IPs -> SlotSets] : mid = [Users EXCEPT ![old] = Users[old] \ {slot}]
      BY <1>2 DEF SlotSets
    <2>5. Counts(IPRemove(ipstats, old), mid)
      BY <1>2, <2>2, <2>4, IPRemoveOK
    <2>6. mid[ip] = Users[ip]
      BY <1>2, <1>9, <2>1, <2>4
    <2>7. ASSUME NEW i \in IPs, i # ip PROVE v[i] = mid[i]
      <3>1. CASE i = old
        BY <1>2, <1>5, <2>4, <2>7, <3>1
      <3>2. CASE i # old
        <4>1. mid[i] = Users[i]
          BY <1>2, <2>4, <3>2
        <4>2. v[i] = Users[i] \ {slot} /\ slot \notin Users[i]
          BY <1>5, <2>3, <2>7, <3>2
        <4>3. QED
          BY <4>1, <4>2
      <3>3. QED
        BY <3>1, <3>2
    <2>8. v[ip] = mid[ip] \cup {slot}
      BY <1>5, <2>6
    <2>9. v = [mid EXCEPT ![ip] = mid[ip] \cup {slot}]
      BY <2>7, <2>8, OneChange
    <2>10. Counts(IPInc(IPRemove(ipstats, old), ip), v)
      BY <1>2, <2>2, <2>5, <2>6, <2>9, IPIncOK
    <2>11. QED
      BY <1>4, <1>6, <1>9, <2>1, <2>10
  <1>10. QED
    BY <1>7, <1>8, <1>9

(* Memory.Drop and trim: one peer less at its address.                      *)
LEMMA DeleteIPs ==
    ASSUME Fits, IInv, Counts(ipstats, Users),
           NEW h \in DOMAIN hashmap, NEW id \in DOMAIN hashmap[h].Peers, Delete(h, id)
    PROVE  Counts(ipstats', Users')
  <1> DEFINE slot == <<h, id>>
             np == RemovePeer(hashmap[h], id)
  <1>1. TypeOK
    BY DEF IInv
  <1>2. /\ h \in Hashes /\ id \in PeerIDs
        /\ hashmap[h].Peers[id] \in Peer
    BY <1>1 DEF TypeOK, IsPeerMap, IsMap
  <1>3. hashmap' = Put(hashmap, h, np) /\ np.Peers = Del(hashmap[h].Peers, id)
    BY DEF Delete, RemovePeer
  <1>4. /\ DOMAIN np.Peers = DOMAIN hashmap[h].Peers \ {id}
        /\ \A x \in DOMAIN np.Peers : np.Peers[x] = hashmap[h].Peers[x]
    BY <1>3 DEF Del
  <1> HIDE DEF np
  <1>5. /\ DOMAIN hashmap' = DOMAIN hashmap /\ hashmap'[h] = np
        /\ \A x \in DOMAIN hashmap : x # h => hashmap'[x] = hashmap[x]
    BY <1>3 DEF Put
  <1>6. Slots' = Slots \ {slot} /\ slot \in Slots
    BY <1>2, <1>4, <1>5 DEF Slots
  <1>7. \A s \in Slots' : PeerAt(s)' = PeerAt(s)
    BY <1>4, <1>5 DEF Slots, PeerAt
  <1>8. PICK old \in IPs : old = PeerAt(slot).IP
    BY <1>2 DEF Peer, PeerAt
  <1>9. ipstats' = IPRemove(ipstats, old)
    BY <1>8 DEF Delete, PeerAt
  <1>10. /\ Users \in [IPs -> SlotSets] /\ Users' \in [IPs -> SlotSets]
         /\ \A i \in IPs : /\ Users[i] = {s \in Slots : PeerAt(s).IP = i}
                           /\ Users'[i] = {s \in Slots' : PeerAt(s)'.IP = i}
    BY DEF Users, SlotSets, Slots
  <1> HIDE DEF slot
  <1>11. \A i \in IPs : Users'[i] = Users[i] \ {slot}
    BY <1>6, <1>7, <1>10
  <1>12. slot \in Users[old] /\ \A i \in IPs : i # old => slot \notin Users[i]
    BY <1>6, <1>8, <1>10
  <1>13. PICK v \in [IPs -> SlotSets] : v = Users'
    BY <1>10
  <1>14. v = [Users EXCEPT ![old] = Users[old] \ {slot}]
    <2>1. v[old] = Users[old] \ {slot} /\ \A i \in IPs : i # old => v[i] = Users[i]
      BY <1>11, <1>12, <1>13
    <2>2. QED
      BY <1>10, <2>1, OneChange
  <1>15. Counts(IPRemove(ipstats, old), v)
    BY <1>10, <1>12, <1>14, IPRemoveOK
  <1>16. QED
    BY <1>9, <1>13, <1>15

(* A step that leaves every peer at its address leaves the users alone.     *)
LEMMA SameIPs ==
    ASSUME Counts(ipstats, Users), ipstats' = ipstats,
           Slots' = Slots, \A s \in Slots : PeerAt(s)'.IP = PeerAt(s).IP
    PROVE  Counts(ipstats', Users')
  <1>1. Users' = Users
    BY DEF Users
  <1>2. QED
    BY <1>1

(* Every step keeps IPStats in line with the users, one case per operation. *)
LEMMA IPStep ==
    ASSUME Fits, IInv, Counts(ipstats, Users), [Next]_vars
    PROVE  Counts(ipstats', Users')
  <1>0. TypeOK /\ TrimmingPresent
    BY DEF IInv
  <1>1. ASSUME NEW h \in Hashes, NEW id \in PeerIDs, NEW ip \in IPs,
               NEW complete \in BOOLEAN, Save(h, id, ip, complete)
        PROVE  Counts(ipstats', Users')
    BY <1>1, SaveIPs
  <1>2. ASSUME NEW h \in Hashes, NEW id \in PeerIDs, Drop(h, id)
        PROVE  Counts(ipstats', Users')
    BY <1>2, DeleteIPs DEF Drop
  <1>3. ASSUME NEW h \in Hashes, TrimLock(h)
        PROVE  Counts(ipstats', Users')
    BY <1>3, SameIPs DEF TrimLock, Slots, PeerAt
  <1>4. ASSUME NEW id \in PeerIDs, TrimDelete(id)
        PROVE  Counts(ipstats', Users')
    BY <1>0, <1>4, DeleteIPs DEF TrimDelete, TrimmingPresent
  <1>5. CASE TrimUnlock
    <2>1. trimming # NoHash /\ ipstats' = ipstats
      BY <1>5 DEF TrimUnlock
    <2>2. CASE DOMAIN hashmap[trimming].Peers = {}
      <3>1. hashmap' = Del(hashmap, trimming)
        BY <1>5, <2>2 DEF TrimUnlock
      <3>2. /\ DOMAIN hashmap' = DOMAIN hashmap \ {trimming}
            /\ \A x \in DOMAIN hashmap' : hashmap'[x] = hashmap[x]
        BY <3>1 DEF Del
      <3>3. Slots' = Slots
        BY <2>2, <3>2 DEF Slots
      <3>4. \A s \in Slots : PeerAt(s)' = PeerAt(s)
        BY <2>2, <3>2 DEF Slots, PeerAt
      <3>5. QED
        BY <2>1, <3>3, <3>4, SameIPs
    <2>3. CASE DOMAIN hashmap[trimming].Peers # {}
      <3>1. hashmap' = hashmap
        BY <1>5, <2>3 DEF TrimUnlock
      <3>2. Slots' = Slots /\ \A s \in Slots : PeerAt(s)' = PeerAt(s)
        BY <3>1 DEF Slots, PeerAt
      <3>3. QED
        BY <2>1, <3>2, SameIPs
    <2>4. QED
      BY <2>2, <2>3
  <1>6. CASE Tick
    <2>1. /\ hashmap' = [h \in DOMAIN hashmap |->
                          [hashmap[h] EXCEPT !.Peers =
                             [id \in DOMAIN @ |-> Older(@[id])]]]
          /\ ipstats' = ipstats
      BY <1>6 DEF Tick
    <2>2. ASSUME NEW h \in DOMAIN hashmap
          PROVE  /\ h \in DOMAIN hashmap'
                 /\ DOMAIN hashmap'[h].Peers = DOMAIN hashmap[h].Peers
                 /\ \A id \in DOMAIN hashmap[h].Peers :
                       hashmap'[h].Peers[id].IP = hashmap[h].Peers[id].IP
      <3>1. IsPeerMap(hashmap[h])
        BY <1>0 DEF TypeOK
      <3>2. hashmap'[h].Peers = [id \in DOMAIN hashmap[h].Peers |-> Older(hashmap[h].Peers[id])]
        BY <2>1, <3>1 DEF IsPeerMap
      <3>3. ASSUME NEW id \in DOMAIN hashmap[h].Peers
            PROVE  Older(hashmap[h].Peers[id]).IP = hashmap[h].Peers[id].IP
        <4>1. hashmap[h].Peers[id] \in Peer
          BY <3>1 DEF IsPeerMap, IsMap
        <4>2. QED
          BY <4>1 DEF Older, Peer
      <3>4. QED
        BY <2>1, <3>2, <3>3
    <2>3. DOMAIN hashmap' = DOMAIN hashmap
      BY <2>1
    <2>4. Slots' = Slots
      BY <2>2, <2>3 DEF Slots
    <2>5. \A s \in Slots : PeerAt(s)'.IP = PeerAt(s).IP
      BY <2>2 DEF Slots, PeerAt
    <2>6. QED
      BY <2>1, <2>4, <2>5, SameIPs
  <1>7. CASE UNCHANGED vars
    BY <1>7, SameIPs DEF vars, Slots, PeerAt
  <1>8. QED
    BY <1>1, <1>2, <1>3, <1>4, <1>5, <1>6, <1>7 DEF Next

(* A tracker starts without peers and without addresses.                    *)
LEMMA IPInit == ASSUME Init PROVE Counts(ipstats, Users)
  <1>1. Slots = {}
    BY DEF Init, Slots, NewPeerMap, EmptyMap
  <1>2. \A ip \in IPs : Users[ip] = {}
    BY <1>1 DEF Users
  <1>3. ipstats = EmptyMap /\ DOMAIN ipstats = {}
    BY DEF Init, EmptyMap
  <1>4. QED
    BY <1>2, <1>3 DEF Counts

(* IPStats is the multiset of the addresses of the peers, as long as there  *)
(* is room for fewer peers than its int16 counts.                           *)
THEOREM IPStatsCorrect == Fits => (Spec => []IPStatsExact)
  <1> SUFFICES ASSUME Fits PROVE Spec => []IPStatsExact
    OBVIOUS
  <1> DEFINE Inv == IInv /\ Counts(ipstats, Users)
  <1>1. Init => Inv
    BY InitOK, IPInit
  <1>2. Inv /\ [Next]_vars => Inv'
    <2> SUFFICES ASSUME IInv, Counts(ipstats, Users), [Next]_vars PROVE Inv'
      OBVIOUS
    <2>1. IInv'
      BY NextOK
    <2>2. Counts(ipstats', Users')
      BY IPStep
    <2>3. QED
      BY <2>1, <2>2 DEF Counts
  <1>3. Inv => IPStatsExact
    BY UsersOK DEF IInv
  <1> HIDE DEF Inv
  <1>4. QED
    BY <1>1, <1>2, <1>3, PTL DEF Spec
=============================================================================
