------------------------------- MODULE PeerDb -------------------------------
(***************************************************************************)
(* The in-memory peer database of tracker/storage/map, one operation at a  *)
(* time: what Save, Drop and trim do when no other operation runs inside   *)
(* them.  PeerDbConc splits the same operations at every lock boundary.    *)
(*                                                                         *)
(* State, and the Go state it stands for:                                  *)
(*   hashmap   Memory.hashmap; a value is a PeerMap                        *)
(*   seeds, leeches   the gauges stats.Seeds and stats.Leeches             *)
(*   ipstats   stats.IPStats.submap                                        *)
(*   trimming  the hash whose peermap mutex trim holds, or NoHash          *)
(*                                                                         *)
(* A Peer's LastSeen is kept as its age, time.Now().Unix() - LastSeen, cut *)
(* off at Expiry + 1: trim compares it with Expiry and nothing else reads  *)
(* it.  The port is left out, no operation of the database looks at it.    *)
(* PeerMap.Complete and Incomplete are kept as the integers the uint16     *)
(* fields represent modulo 2^16; HashStats, which reads them, wraps.       *)
(***************************************************************************)
EXTENDS GoMap, FiniteSets

CONSTANTS Hashes, PeerIDs, IPs,
          Expiry,    \* config DB.Expiry in seconds
          Loaded,    \* hashes a backup left in the map, without peers
          NoHash

ASSUME ExpiryAssumption == Expiry \in Nat
ASSUME NoHashAssumption == NoHash \notin Hashes
ASSUME FiniteAssumption == IsFiniteSet(Hashes) /\ IsFiniteSet(PeerIDs)
ASSUME LoadedAssumption == Loaded \subseteq Hashes

VARIABLES hashmap, seeds, leeches, ipstats, trimming

vars == <<hashmap, seeds, leeches, ipstats, trimming>>

-----------------------------------------------------------------------------
Peer == [Complete : BOOLEAN, IP : IPs, Age : 0..Expiry + 1]

\* pm is a PeerMap struct
IsPeerMap(pm) ==
    /\ pm = [Complete |-> pm.Complete, Incomplete |-> pm.Incomplete,
             Peers |-> pm.Peers]
    /\ pm.Complete \in Int
    /\ pm.Incomplete \in Int
    /\ IsMap(pm.Peers, PeerIDs, Peer)

TypeOK ==
    /\ hashmap = [h \in DOMAIN hashmap |-> hashmap[h]]
    /\ DOMAIN hashmap \subseteq Hashes
    /\ \A h \in DOMAIN hashmap : IsPeerMap(hashmap[h])
    /\ seeds \in Int
    /\ leeches \in Int
    /\ trimming \in Hashes \cup {NoHash}

\* makePeermap
NewPeerMap == [Complete |-> 0, Incomplete |-> 0, Peers |-> EmptyMap]

\* The change one announce makes to the number of complete peers, and to the
\* number of incomplete ones: PeerMap and stats are updated by the same rule.
CompleteDelta(exists, was, now) ==
    IF exists THEN (IF was = now THEN 0 ELSE IF now THEN 1 ELSE -1)
              ELSE (IF now THEN 1 ELSE 0)

\* Mutant of IncompleteDelta: a peer that completes stays counted as incomplete
IncompleteDeltaKeepsLeech(exists, was, now) ==
    IF exists THEN (IF was /\ ~now THEN 1 ELSE 0) ELSE (IF now THEN 0 ELSE 1)

IncompleteDelta(exists, was, now) ==
    IF exists THEN (IF was = now THEN 0 ELSE IF now THEN -1 ELSE 1)
              ELSE (IF now THEN 0 ELSE 1)

\* IPStats.Inc, IPStats.Remove
IPInc(s, ip) == Put(s, ip, Int16(Get(s, ip) + 1))

\* Mutant of IPRemove: addresses nobody uses stay in the map
IPRemoveKeepsZero(s, ip) == Put(s, ip, Int16(Get(s, ip) - 1))

IPRemove(s, ip) ==
    IF Int16(Get(s, ip) - 1) = 0 THEN Del(s, ip)
                                 ELSE Put(s, ip, Int16(Get(s, ip) - 1))

-----------------------------------------------------------------------------
Init ==
    /\ hashmap = [h \in Loaded |-> NewPeerMap]
    /\ seeds = 0
    /\ leeches = 0
    /\ ipstats = EmptyMap
    /\ trimming = NoHash

Lookup(h) == IF h \in DOMAIN hashmap THEN hashmap[h] ELSE NewPeerMap

\* Mutant of SavePeer: the address is only written when it changes
SavePeerNoAddress(pm, id, ip, complete) ==
    LET exists == id \in DOMAIN pm.Peers
        was    == exists /\ pm.Peers[id].Complete
    IN  [Complete   |-> pm.Complete + CompleteDelta(exists, was, complete),
         Incomplete |-> pm.Incomplete + IncompleteDelta(exists, was, complete),
         Peers      |-> Put(pm.Peers, id,
                            [Complete |-> complete, Age |-> 0,
                             IP |-> IF exists THEN ip ELSE NoHash])]

\* The peermap pm after an announce of peer id
SavePeer(pm, id, ip, complete) ==
    LET exists == id \in DOMAIN pm.Peers
        was    == exists /\ pm.Peers[id].Complete
    IN  [Complete   |-> pm.Complete + CompleteDelta(exists, was, complete),
         Incomplete |-> pm.Incomplete + IncompleteDelta(exists, was, complete),
         Peers      |-> Put(pm.Peers, id,
                            [Complete |-> complete, IP |-> ip, Age |-> 0])]

\* Memory.Save(ip, port, complete, h, id)
Save(h, id, ip, complete) ==
    LET pm     == Lookup(h)
        exists == id \in DOMAIN pm.Peers
        was    == exists /\ pm.Peers[id].Complete
    IN  /\ trimming # h
        /\ hashmap' = Put(hashmap, h, SavePeer(pm, id, ip, complete))
        /\ seeds' = seeds + CompleteDelta(exists, was, complete)
        /\ leeches' = leeches + IncompleteDelta(exists, was, complete)
        /\ ipstats' = IF ~exists THEN IPInc(ipstats, ip)
                      ELSE IF pm.Peers[id].IP = ip THEN ipstats
                      ELSE IPInc(IPRemove(ipstats, pm.Peers[id].IP), ip)
        /\ UNCHANGED trimming

\* The peermap pm without peer id
RemovePeer(pm, id) ==
    [Complete   |-> pm.Complete - (IF pm.Peers[id].Complete THEN 1 ELSE 0),
     Incomplete |-> pm.Incomplete - (IF pm.Peers[id].Complete THEN 0 ELSE 1),
     Peers      |-> Del(pm.Peers, id)]

\* Mutant of Delete: the gauges are left to the next SyncExpvars
DeleteKeepsGauges(h, id) ==
    /\ hashmap' = Put(hashmap, h, RemovePeer(hashmap[h], id))
    /\ ipstats' = IPRemove(ipstats, hashmap[h].Peers[id].IP)
    /\ UNCHANGED <<seeds, leeches, trimming>>

\* What Memory.delete and the tail of Memory.Drop do to the whole state
Delete(h, id) ==
    LET peer == hashmap[h].Peers[id]
    IN  /\ hashmap' = Put(hashmap, h, RemovePeer(hashmap[h], id))
        /\ seeds' = seeds - (IF peer.Complete THEN 1 ELSE 0)
        /\ leeches' = leeches - (IF peer.Complete THEN 0 ELSE 1)
        /\ ipstats' = IPRemove(ipstats, peer.IP)
        /\ UNCHANGED trimming

\* Memory.Drop(h, id): a hash or a peer that is not there is left alone
Drop(h, id) ==
    /\ trimming # h
    /\ h \in DOMAIN hashmap
    /\ id \in DOMAIN hashmap[h].Peers
    /\ Delete(h, id)

-----------------------------------------------------------------------------
\* Mutant of TrimLock: a swarm with seeds is passed over
TrimLockSeedless(h) ==
    /\ trimming = NoHash
    /\ h \in DOMAIN hashmap
    /\ hashmap[h].Complete = 0
    /\ trimming' = h
    /\ UNCHANGED <<hashmap, seeds, leeches, ipstats>>

\* trim visits the hashes one by one, each with its peermap mutex held
TrimLock(h) ==
    /\ trimming = NoHash
    /\ h \in DOMAIN hashmap
    /\ trimming' = h
    /\ UNCHANGED <<hashmap, seeds, leeches, ipstats>>

Expired(peer) == peer.Age > Expiry

TrimDelete(id) ==
    /\ trimming # NoHash
    /\ id \in DOMAIN hashmap[trimming].Peers
    /\ Expired(hashmap[trimming].Peers[id])
    /\ Delete(trimming, id)

\* Mutants of TrimUnlock: a swarm without seeds counts as empty; an empty
\* one stays in the map
TrimUnlockDropsSeedless ==
    /\ trimming # NoHash
    /\ \A id \in DOMAIN hashmap[trimming].Peers :
           ~Expired(hashmap[trimming].Peers[id])
    /\ hashmap' = IF hashmap[trimming].Complete = 0
                  THEN Del(hashmap, trimming) ELSE hashmap
    /\ trimming' = NoHash
    /\ UNCHANGED <<seeds, leeches, ipstats>>

TrimUnlockKeepsHash ==
    /\ trimming # NoHash
    /\ \A id \in DOMAIN hashmap[trimming].Peers :
           ~Expired(hashmap[trimming].Peers[id])
    /\ trimming' = NoHash
    /\ UNCHANGED <<hashmap, seeds, leeches, ipstats>>

\* The last expired peer is gone: unlock, and drop a hash left without peers
TrimUnlock ==
    /\ trimming # NoHash
    /\ \A id \in DOMAIN hashmap[trimming].Peers :
           ~Expired(hashmap[trimming].Peers[id])
    /\ hashmap' = IF DOMAIN hashmap[trimming].Peers = {}
                  THEN Del(hashmap, trimming) ELSE hashmap
    /\ trimming' = NoHash
    /\ UNCHANGED <<seeds, leeches, ipstats>>

\* A second passes (trim reads the clock once, before it takes any lock)
Older(peer) == [peer EXCEPT !.Age = IF @ > Expiry THEN @ ELSE @ + 1]

Tick ==
    /\ trimming = NoHash
    /\ hashmap' = [h \in DOMAIN hashmap |->
                     [hashmap[h] EXCEPT !.Peers =
                        [id \in DOMAIN @ |-> Older(@[id])]]]
    /\ UNCHANGED <<seeds, leeches, ipstats, trimming>>

Next ==
    \/ \E h \in Hashes, id \in PeerIDs, ip \in IPs, complete \in BOOLEAN :
           Save(h, id, ip, complete)
    \/ \E h \in Hashes, id \in PeerIDs : Drop(h, id)
    \/ \E h \in Hashes : TrimLock(h)
    \/ \E id \in PeerIDs : TrimDelete(id)
    \/ TrimUnlock
    \/ Tick

Spec == Init /\ [][Next]_vars

(* The clock is never held up for good (its guard only says that the time   *)
(* of a pass is the time the pass began), and Memory.Init started           *)
(* RunOn(DB.Trim, db.Trim): each pass visits every hash that stays in the   *)
(* map, so such a hash is visited again and again.  No announce and no drop *)
(* is ever promised.                                                        *)
FairSpec ==
    /\ Spec
    /\ SF_vars(Tick)
    /\ \A h \in Hashes : SF_vars(TrimLock(h))
    /\ \A id \in PeerIDs : WF_vars(TrimDelete(id))
    /\ WF_vars(TrimUnlock)

-----------------------------------------------------------------------------
HashStats(h) ==
    IF h \in DOMAIN hashmap
    THEN <<Uint16(hashmap[h].Complete), Uint16(hashmap[h].Incomplete)>>
    ELSE <<0, 0>>

CompleteIDs(pm) == {id \in DOMAIN pm.Peers : pm.Peers[id].Complete}
IncompleteIDs(pm) == {id \in DOMAIN pm.Peers : ~pm.Peers[id].Complete}

\* All peers, as <<hash, id>> pairs
Slots == {s \in Hashes \X PeerIDs :
            s[1] \in DOMAIN hashmap /\ s[2] \in DOMAIN hashmap[s[1]].Peers}
PeerAt(s) == hashmap[s[1]].Peers[s[2]]

(* "HashStats returns number of complete and incomplete peers associated    *)
(* with the hash" (hash.go:16): the counters that Save, Drop and trim move  *)
(* by increments always are the numbers a recount would give, for uint16.   *)
HashStatsExact ==
    \A h \in Hashes :
        HashStats(h) = <<Uint16(Cardinality(CompleteIDs(Lookup(h)))),
                         Uint16(Cardinality(IncompleteIDs(Lookup(h))))>>

(* The published gauges count the peers of all swarms, the number           *)
(* SyncExpvars would compute from scratch.                                  *)
GaugesExact ==
    /\ seeds = Cardinality({s \in Slots : PeerAt(s).Complete})
    /\ leeches = Cardinality({s \in Slots : ~PeerAt(s).Complete})

(* IPStats holds exactly the addresses in use, each with the number of      *)
(* peers behind it, through address changes and removals: stats.IPStats is  *)
(* the multiset of the IPs of the peers (below the int16 limit).            *)
IPStatsExact ==
    /\ DOMAIN ipstats = {PeerAt(s).IP : s \in Slots}
    /\ \A ip \in DOMAIN ipstats :
           ipstats[ip] = Cardinality({s \in Slots : PeerAt(s).IP = ip})

(* While trim works on a peermap only expired peers leave it, and the hash  *)
(* stays as long as it has a peer: no peer seen within Expiry is ever lost  *)
(* to the trimmer, not with its whole swarm either.                         *)
TrimKeepsFresh ==
    [][\A s \in Slots :
          (trimming = s[1] /\ ~Expired(PeerAt(s))) => s \in Slots']_vars

(* A peer that stops announcing is eventually removed by the trimmer, or    *)
(* announces again: nothing stays listed for ever on one announce.          *)
SilentPeersLeave ==
    \A h \in Hashes, id \in PeerIDs :
        (<<h, id>> \in Slots /\ PeerAt(<<h, id>>).Age > 0)
            ~> (<<h, id>> \notin Slots \/ PeerAt(<<h, id>>).Age = 0)

(* A swarm whose last peer left does not occupy the hash map for ever.      *)
EmptySwarmsLeave ==
    \A h \in Hashes :
        (h \in DOMAIN hashmap /\ DOMAIN hashmap[h].Peers = {})
            ~> (h \notin DOMAIN hashmap \/ DOMAIN hashmap[h].Peers # {})
=============================================================================
