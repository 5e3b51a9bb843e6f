----------------------------- MODULE PeerDbConc -----------------------------
(***************************************************************************)
(* The peer database of tracker/storage/map under concurrency: worker      *)
(* goroutines (UDP and HTTP) run Save and Drop while the trim goroutine    *)
(* runs.  A step is a critical section, or an access to shared data that   *)
(* no lock protects: the fields of a Peer are read and written by Save,    *)
(* Drop and delete outside the peermap mutex.  The heap is explicit, since *)
(* peers are recycled through pools.Peers and a worker may still hold a    *)
(* pointer to a peer that has been freed, or to a peermap that has left    *)
(* the hash map.                                                           *)
(*                                                                         *)
(*   hashmap  Memory.hashmap: hash -> address of a PeerMap                 *)
(*   pms      the PeerMaps allocated so far, reachable or not; the address *)
(*            of one is its place in the sequence                          *)
(*   objs     the Peer structs pools.Peers has created, likewise           *)
(*   pool     the addresses in pools.Peers                                 *)
(*   clock    time.Now().Unix(); it starts past Expiry, as Unix time does, *)
(*            so the zero LastSeen of a new Peer counts as expired         *)
(*   w, t     program counter and locals of each worker and of trim        *)
(*                                                                         *)
(* Only trim holds a peermap mutex across steps.  Memory accesses are      *)
(* sequentially consistent and single words; IPs stands for addresses of   *)
(* one family, whose netip.Addr values differ in one word.                 *)
(***************************************************************************)
EXTENDS GoMap, Sequences, FiniteSets

CONSTANTS Workers, Hashes, PeerIDs, IPs,
          IDsOf,        \* IDsOf[p]: the peers whose requests worker p handles
          Loaded,       \* hashes a backup left in the map, without peers
          Expiry,       \* config DB.Expiry in seconds
          TrimOn,       \* config DB.Trim > 0
          None,         \* an unset local, and the zero netip.Addr
          MaxOps,       \* bound on the requests and passes of trim, together
          MaxTicks      \* bound on the number of steps of the clock

ASSUME ExpiryAssumption == Expiry \in Nat
ASSUME BoundsAssumption == MaxOps \in Nat /\ MaxTicks \in Nat
ASSUME OwnersAssumption == IDsOf \in [Workers -> SUBSET PeerIDs]
ASSUME SetsAssumption ==
    /\ Loaded \subseteq Hashes /\ IsFiniteSet(Hashes)
    /\ IsFiniteSet(PeerIDs)
    /\ None \notin IPs \cup PeerIDs \cup Hashes
    /\ TrimOn \in BOOLEAN

VARIABLES hashmap, pms, objs, pool, seeds, leeches, ipstats, clock, ops, w, t

heap == <<hashmap, pms, objs, pool>>
metrics == <<seeds, leeches, ipstats>>
vars == <<hashmap, pms, objs, pool, seeds, leeches, ipstats, clock, ops, w, t>>

-----------------------------------------------------------------------------
NewPeerMap == [Complete |-> 0, Incomplete |-> 0, Peers |-> EmptyMap]

\* new(storage.Peer)
ZeroPeer == [Complete |-> FALSE, IP |-> None, LastSeen |-> 0]

CompleteDelta(exists, was, now) ==
    IF exists THEN (IF was = now THEN 0 ELSE IF now THEN 1 ELSE -1)
              ELSE (IF now THEN 1 ELSE 0)

IncompleteDelta(exists, was, now) ==
    IF exists THEN (IF was = now THEN 0 ELSE IF now THEN -1 ELSE 1)
              ELSE (IF now THEN 0 ELSE 1)

\* stats.IPStats.Inc, stats.IPStats.Remove
IPInc(s, ip) == Put(s, ip, Int16(Get(s, ip) + 1))

IPRemove(s, ip) ==
    IF Int16(Get(s, ip) - 1) = 0 THEN Del(s, ip)
                                 ELSE Put(s, ip, Int16(Get(s, ip) - 1))

IdleWorker == [pc |-> "idle", op |-> "none", hash |-> None, id |-> None,
               ip |-> None, complete |-> FALSE, pm |-> 0, obj |-> 0,
               exists |-> FALSE]
IdleTrim == [pc |-> "idle", now |-> 0, todo |-> {}, visited |-> {},
             hash |-> None, pm |-> 0, obj |-> 0, ids |-> {}]

Init ==
    /\ pms = [a \in 1..Cardinality(Loaded) |-> NewPeerMap]
    /\ hashmap \in [Loaded -> DOMAIN pms]
    /\ \A g, h \in Loaded : hashmap[g] = hashmap[h] => g = h
    /\ objs = <<>>
    /\ pool = {}
    /\ seeds = 0 /\ leeches = 0 /\ ipstats = EmptyMap
    /\ clock = Expiry + 1
    /\ ops = 0
    /\ w = [p \in Workers |-> IdleWorker]
    /\ t = IdleTrim

Goto(p, pc) == w' = [w EXCEPT ![p].pc = pc]
Return(p) == w' = [w EXCEPT ![p] = IdleWorker]

\* trim is inside peermap.mutex.Lock()
TrimHolds(pm) == t.pc \in {"scan", "gauges", "free"} /\ t.pm = pm

-----------------------------------------------------------------------------
(* Memory.Save                                                             *)

SaveLookup(p, h, id, ip, complete) ==
    /\ w[p].pc = "idle"
    /\ ops < MaxOps
    /\ ops' = ops + 1
    /\ w' = [w EXCEPT ![p] =
               [IdleWorker EXCEPT
                  !.pc = IF h \in DOMAIN hashmap THEN "find" ELSE "make",
                  !.op = "save", !.hash = h, !.id = id, !.ip = ip,
                  !.complete = complete, !.pm = Get(hashmap, h)]]
    /\ UNCHANGED <<heap, metrics, clock, t>>

\* Mutant of SaveMake: the variable peermap is shadowed (:= for =)
SaveMakeShadowed(p) ==
    /\ w[p].pc = "make"
    /\ pms' = Append(pms, NewPeerMap)
    /\ hashmap' = Put(hashmap, w[p].hash, Len(pms) + 1)
    /\ Goto(p, "find")
    /\ UNCHANGED <<objs, pool, metrics, clock, ops, t>>

\* makePeermap, without looking again
SaveMake(p) ==
    /\ w[p].pc = "make"
    /\ pms' = Append(pms, NewPeerMap)
    /\ hashmap' = Put(hashmap, w[p].hash, Len(pms) + 1)
    /\ w' = [w EXCEPT ![p].pc = "find", ![p].pm = Len(pms) + 1]
    /\ UNCHANGED <<objs, pool, metrics, clock, ops, t>>

\* peermap.mutex.RLock: is the peer there?
SaveFind(p) ==
    LET peers == pms[w[p].pm].Peers
    IN  /\ w[p].pc = "find"
        /\ ~TrimHolds(w[p].pm)
        /\ w' = [w EXCEPT ![p].pc = "update",
                          ![p].exists = w[p].id \in DOMAIN peers,
                          ![p].obj = Get(peers, w[p].id)]
        /\ UNCHANGED <<heap, metrics, clock, ops, t>>

\* Mutant of GetPeer: the pool keeps what it hands out
GetPeerKept(o) ==
    \/ o \in pool /\ UNCHANGED <<pool, objs>>
    \/ o = Len(objs) + 1 /\ objs' = Append(objs, ZeroPeer) /\ pool' = pool

\* pools.Peers.Get(): a pooled peer with its old contents, or a new one
GetPeer(o) ==
    \/ /\ o \in pool
       /\ pool' = pool \ {o}
       /\ objs' = objs
    \/ /\ o = Len(objs) + 1
       /\ objs' = Append(objs, ZeroPeer)
       /\ pool' = pool

\* peermap.mutex.Lock: create the peer, move the counters
SaveUpdate(p) ==
    LET pm == w[p].pm
        Count(o, was) ==
            pms' = [pms EXCEPT ![pm] =
              [Complete |-> @.Complete
                   + CompleteDelta(w[p].exists, was, w[p].complete),
               Incomplete |-> @.Incomplete
                   + IncompleteDelta(w[p].exists, was, w[p].complete),
               Peers |-> IF w[p].exists THEN @.Peers ELSE Put(@.Peers, w[p].id, o)]]
    IN  /\ w[p].pc = "update"
        /\ ~TrimHolds(pm)
        /\ \/ /\ w[p].exists
              /\ Count(w[p].obj, objs[w[p].obj].Complete)
              /\ Goto(p, "gauges")
              /\ UNCHANGED <<objs, pool>>
           \/ /\ ~w[p].exists
              /\ \E o \in pool \cup {Len(objs) + 1} :
                    /\ GetPeer(o)
                    /\ Count(o, FALSE)
                    /\ w' = [w EXCEPT ![p].pc = "ip", ![p].obj = o]
        /\ UNCHANGED <<hashmap, metrics, clock, ops, t>>

\* Mutant of SaveGauges: a peer that completes stays in stats.Leeches
SaveGaugesKeepsLeech(p) ==
    LET was == objs[w[p].obj].Complete
    IN  /\ w[p].pc = "gauges" /\ w[p].op = "save"
        /\ seeds' = seeds + CompleteDelta(w[p].exists, was, w[p].complete)
        /\ leeches' = leeches + (IF was \/ ~w[p].exists
              THEN IncompleteDelta(w[p].exists, was, w[p].complete) ELSE 0)
        /\ Goto(p, IF w[p].exists THEN "ip" ELSE "write")
        /\ UNCHANGED <<heap, ipstats, clock, ops, t>>

\* stats.Seeds, stats.Leeches: peer.Complete is read again, without a lock
SaveGauges(p) ==
    LET was == objs[w[p].obj].Complete
    IN  /\ w[p].pc = "gauges" /\ w[p].op = "save"
        /\ seeds' = seeds + CompleteDelta(w[p].exists, was, w[p].complete)
        /\ leeches' = leeches + IncompleteDelta(w[p].exists, was, w[p].complete)
        /\ Goto(p, IF w[p].exists THEN "ip" ELSE "write")
        /\ UNCHANGED <<heap, ipstats, clock, ops, t>>

\* A new peer's address is counted; for a known one, has the address changed?
SaveIP(p) ==
    /\ w[p].op = "save" /\ w[p].pc = "ip"
    /\ \/ /\ ~w[p].exists
          /\ ipstats' = IPInc(ipstats, w[p].ip)
          /\ Goto(p, "gauges")
       \/ /\ w[p].exists
          /\ ipstats' = ipstats
          /\ Goto(p, IF objs[w[p].obj].IP = w[p].ip THEN "write" ELSE "swap")
    /\ UNCHANGED <<heap, seeds, leeches, clock, ops, t>>

\* It has: peer.IP is read again, under the IPStats mutex only
SaveSwapIP(p) ==
    /\ w[p].pc = "swap"
    /\ ipstats' = IPInc(IPRemove(ipstats, objs[w[p].obj].IP), w[p].ip)
    /\ Goto(p, "write")
    /\ UNCHANGED <<heap, seeds, leeches, clock, ops, t>>

\* The fields of the peer, one word at a time, without a lock
SaveWriteComplete(p) ==
    /\ w[p].pc = "write"
    /\ objs' = [objs EXCEPT ![w[p].obj].Complete = w[p].complete]
    /\ Goto(p, "writeIP")
    /\ UNCHANGED <<hashmap, pms, pool, metrics, clock, ops, t>>

SaveWriteIP(p) ==
    /\ w[p].pc = "writeIP"
    /\ objs' = [objs EXCEPT ![w[p].obj].IP = w[p].ip]
    /\ Goto(p, "writeSeen")
    /\ UNCHANGED <<hashmap, pms, pool, metrics, clock, ops, t>>

SaveWriteSeen(p) ==
    /\ w[p].pc = "writeSeen"
    /\ objs' = [objs EXCEPT ![w[p].obj].LastSeen = clock]
    /\ Return(p)
    /\ UNCHANGED <<hashmap, pms, pool, metrics, clock, ops, t>>

-----------------------------------------------------------------------------
(* Memory.Drop                                                             *)

DropLookup(p, h, id) ==
    /\ w[p].pc = "idle"
    /\ ops < MaxOps
    /\ h \in DOMAIN hashmap
    /\ ops' = ops + 1
    /\ w' = [w EXCEPT ![p] = [IdleWorker EXCEPT
                  !.pc = "remove", !.op = "drop", !.hash = h, !.id = id,
                  !.pm = hashmap[h]]]
    /\ UNCHANGED <<heap, metrics, clock, t>>

\* Mutant of RemovePeer: the counter of incomplete peers is forgotten
RemovePeerKeepsLeech(pm, id, complete) ==
    [pm EXCEPT !.Complete = @ - (IF complete THEN 1 ELSE 0),
               !.Peers = Del(@, id)]

\* The peermap without peer id, as delete and Drop leave it
RemovePeer(pm, id, complete) ==
    [Complete   |-> pm.Complete - (IF complete THEN 1 ELSE 0),
     Incomplete |-> pm.Incomplete - (IF complete THEN 0 ELSE 1),
     Peers      |-> Del(pm.Peers, id)]

DropRemove(p) ==
    LET pm == w[p].pm
        id == w[p].id
        o  == Get(pms[pm].Peers, id)
    IN  /\ w[p].pc = "remove"
        /\ ~TrimHolds(pm)
        /\ IF id \in DOMAIN pms[pm].Peers
           THEN /\ pms' = [pms EXCEPT ![pm] = RemovePeer(@, id, objs[o].Complete)]
                /\ w' = [w EXCEPT ![p].pc = "gauges", ![p].obj = o]
           ELSE /\ pms' = pms
                /\ Return(p)
        /\ UNCHANGED <<hashmap, objs, pool, metrics, clock, ops, t>>

DropGauges(p) ==
    LET complete == objs[w[p].obj].Complete
    IN  /\ w[p].op = "drop" /\ w[p].pc = "gauges"
        /\ seeds' = seeds - (IF complete THEN 1 ELSE 0)
        /\ leeches' = leeches - (IF complete THEN 0 ELSE 1)
        /\ Goto(p, "free")
        /\ UNCHANGED <<heap, ipstats, clock, ops, t>>

\* IPStats.Remove(peer.IP), then pools.Peers.Put(peer)
DropFree(p) ==
    /\ w[p].pc = "free"
    /\ ipstats' = IPRemove(ipstats, objs[w[p].obj].IP)
    /\ pool' = pool \cup {w[p].obj}
    /\ Return(p)
    /\ UNCHANGED <<hashmap, pms, objs, seeds, leeches, clock, ops, t>>

-----------------------------------------------------------------------------
(* Memory.trim                                                             *)

TrimStart ==
    /\ TrimOn
    /\ t.pc = "idle"
    /\ ops < MaxOps
    /\ ops' = ops + 1
    /\ t' = [t EXCEPT !.pc = "next", !.now = clock, !.todo = DOMAIN hashmap]
    /\ UNCHANGED <<heap, metrics, clock, w>>

(* The range over the map: a hash present throughout is visited once; one   *)
(* stored during the pass may or may not be, and one deleted and stored     *)
(* again may be visited again.  The lock is held while the next is found.   *)
TrimNext(h) ==
    /\ t.pc = "next"
    /\ h \in DOMAIN hashmap
    /\ h \notin t.visited
    /\ t' = [t EXCEPT !.pc = "lock", !.todo = @ \ {h}, !.visited = @ \cup {h},
                      !.hash = h, !.pm = hashmap[h]]
    /\ UNCHANGED <<heap, metrics, clock, ops, w>>

TrimDone ==
    /\ t.pc = "next"
    /\ t.todo \cap DOMAIN hashmap = {}
    /\ t' = IdleTrim
    /\ UNCHANGED <<heap, metrics, clock, ops, w>>

TrimLock ==
    /\ t.pc = "lock"
    /\ t' = [t EXCEPT !.pc = "scan", !.ids = DOMAIN pms[t.pm].Peers]
    /\ UNCHANGED <<heap, metrics, clock, ops, w>>

\* delete(peer, peermap, id): the map and the counters, then the metrics
TrimCheck(id) ==
    LET o == pms[t.pm].Peers[id]
    IN  /\ t.pc = "scan"
        /\ id \in t.ids
        /\ IF t.now - objs[o].LastSeen > Expiry
           THEN /\ pms' = [pms EXCEPT ![t.pm] = RemovePeer(@, id, objs[o].Complete)]
                /\ t' = [t EXCEPT !.pc = "gauges", !.obj = o, !.ids = @ \ {id}]
           ELSE /\ pms' = pms
                /\ t' = [t EXCEPT !.ids = @ \ {id}]
        /\ UNCHANGED <<hashmap, objs, pool, metrics, clock, ops, w>>

\* Mutant of TrimGauges: only stats.Seeds is kept up to date
TrimGaugesSeedsOnly ==
    /\ t.pc = "gauges"
    /\ seeds' = seeds - (IF objs[t.obj].Complete THEN 1 ELSE 0)
    /\ t' = [t EXCEPT !.pc = "free"]
    /\ UNCHANGED <<heap, leeches, ipstats, clock, ops, w>>

TrimGauges ==
    /\ t.pc = "gauges"
    /\ seeds' = seeds - (IF objs[t.obj].Complete THEN 1 ELSE 0)
    /\ leeches' = leeches - (IF objs[t.obj].Complete THEN 0 ELSE 1)
    /\ t' = [t EXCEPT !.pc = "free"]
    /\ UNCHANGED <<heap, ipstats, clock, ops, w>>

TrimFree ==
    /\ t.pc = "free"
    /\ ipstats' = IPRemove(ipstats, objs[t.obj].IP)
    /\ pool' = pool \cup {t.obj}
    /\ t' = [t EXCEPT !.pc = "scan", !.obj = 0]
    /\ UNCHANGED <<hashmap, pms, objs, seeds, leeches, clock, ops, w>>

\* Mutant of TrimUnlock: the unlock is skipped when no peer is left
TrimUnlockSkipped ==
    /\ t.pc = "scan"
    /\ t.ids = {}
    /\ DOMAIN pms[t.pm].Peers # {}
    /\ t' = [t EXCEPT !.pc = "next", !.pm = 0]
    /\ UNCHANGED <<heap, metrics, clock, ops, w>>

\* peersize is read under the lock and acted upon after it is released
TrimUnlock ==
    /\ t.pc = "scan"
    /\ t.ids = {}
    /\ t' = [t EXCEPT !.pc = IF DOMAIN pms[t.pm].Peers = {} THEN "drop" ELSE "next",
                      !.pm = 0]
    /\ UNCHANGED <<heap, metrics, clock, ops, w>>

TrimDropHash ==
    /\ t.pc = "drop"
    /\ hashmap' = Del(hashmap, t.hash)
    /\ t' = [t EXCEPT !.pc = "next", !.visited = @ \ {t.hash}]
    /\ UNCHANGED <<pms, objs, pool, metrics, clock, ops, w>>

\* Time passes in strides that tell apart what Expiry tells apart
Tick ==
    /\ clock < (Expiry + 1) * (MaxTicks + 1)
    /\ clock' = clock + Expiry + 1
    /\ UNCHANGED <<heap, metrics, ops, w, t>>

-----------------------------------------------------------------------------
SaveStep(p) ==
    \/ SaveMake(p) \/ SaveFind(p) \/ SaveUpdate(p) \/ SaveGauges(p) \/ SaveIP(p)
    \/ SaveSwapIP(p) \/ SaveWriteComplete(p) \/ SaveWriteIP(p) \/ SaveWriteSeen(p)

DropStep(p) == DropRemove(p) \/ DropGauges(p) \/ DropFree(p)

TrimStep ==
    \/ \E h \in Hashes : TrimNext(h)
    \/ TrimDone \/ TrimLock
    \/ \E id \in PeerIDs : TrimCheck(id)
    \/ TrimGauges \/ TrimFree \/ TrimUnlock \/ TrimDropHash

Request(p) ==
    \E h \in Hashes, id \in IDsOf[p] :
        \/ \E ip \in IPs, complete \in BOOLEAN : SaveLookup(p, h, id, ip, complete)
        \/ DropLookup(p, h, id)

Next ==
    \/ \E p \in Workers : Request(p) \/ SaveStep(p) \/ DropStep(p)
    \/ TrimStart \/ TrimStep \/ Tick

Spec == Init /\ [][Next]_vars

(* Every goroutine keeps running, and the Go mutexes do not starve a        *)
(* waiter, so a step that is enabled again and again is taken.              *)
FairSpec ==
    /\ Spec
    /\ \A p \in Workers : SF_vars(SaveStep(p) \/ DropStep(p))
    /\ WF_vars(TrimStep)

-----------------------------------------------------------------------------
SaveStates == {"make", "find", "update", "gauges", "ip", "swap", "write",
               "writeIP", "writeSeen"}
DropStates == {"remove", "gauges", "free"}

Peer == [Complete : BOOLEAN, IP : IPs \cup {None}, LastSeen : Nat]

TypeOK ==
    /\ \A a \in DOMAIN pms : /\ pms[a].Complete \in Int
                             /\ pms[a].Incomplete \in Int
                             /\ IsMap(pms[a].Peers, PeerIDs, DOMAIN objs)
    /\ objs \in Seq(Peer)
    /\ pool \subseteq DOMAIN objs
    /\ IsMap(hashmap, Hashes, DOMAIN pms)
    /\ seeds \in Int /\ leeches \in Int
    /\ DOMAIN ipstats \subseteq IPs \cup {None}
    /\ clock \in Nat /\ ops \in 0..MaxOps
    /\ \A p \in Workers :
         /\ \/ w[p] = IdleWorker
            \/ w[p].op = "save" /\ w[p].pc \in SaveStates
            \/ w[p].op = "drop" /\ w[p].pc \in DropStates
         /\ w[p].pc \notin {"idle", "make"} => w[p].pm \in DOMAIN pms
         /\ w[p].pc \notin {"idle", "make", "find", "update", "remove"} =>
                w[p].obj \in DOMAIN objs
    /\ t.pc \in {"lock", "scan", "gauges", "free"} => t.pm \in DOMAIN pms

\* The peers some peermap holds, whether the hash map still reaches it or not
HeldBy(o) == {s \in (DOMAIN pms) \X PeerIDs :
                s[2] \in DOMAIN pms[s[1]].Peers /\ pms[s[1]].Peers[s[2]] = o}

\* Whoever has taken o out of a peermap and not yet put it back in the pool
FreedBy(o) == {p \in Workers : w[p].op = "drop" /\ w[p].obj = o}
                \cup (IF t.obj = o THEN {"trim"} ELSE {})

(* Drop and trim may race with each other and with Save over one peer, and  *)
(* still every Peer has at most one owner: one entry of one peermap, or one *)
(* goroutine about to free it, or the pool.  No peer is freed twice, and    *)
(* the pool never hands out a peer that is in a swarm.                      *)
NoDoubleFree ==
    \A o \in DOMAIN objs :
        /\ Cardinality(HeldBy(o)) + Cardinality(FreedBy(o)) <= 1
        /\ o \in pool => HeldBy(o) = {} /\ FreedBy(o) = {}

\* How far the counters HashStats reads are ahead of the peermap
Drift(pm) == pm.Complete + pm.Incomplete - Cardinality(DOMAIN pm.Peers)

\* A Save that found no peer is about to store one over an entry that is there
DoubleInsert(p, a) ==
    /\ w[p].pc = "update" /\ ~w[p].exists
    /\ w[p].pm = a /\ w[p].id \in DOMAIN pms[a].Peers
    /\ w'[p].pc # "update"

(* The one way the totals of a swarm go wrong: Save looks the peer up under *)
(* RLock and stores it under a later Lock, so two announces of one new peer *)
(* count it twice.  Nothing else moves Complete + Incomplete away from the  *)
(* number of peers, by more or by less, whatever the racing reads of        *)
(* peer.Complete return; and no step ever repairs the drift.                *)
DriftOnlyByDoubleInsert ==
    [][\A a \in DOMAIN pms :
          Drift(pms[a])' = Drift(pms[a])
              + Cardinality({p \in Workers : DoubleInsert(p, a)})]_vars

(* Every Save and Drop returns: no worker waits for ever on a peermap that  *)
(* trim holds, and trim, which takes the hash map and IPStats mutexes, is   *)
(* never stuck behind a worker.                                             *)
RequestsReturn == \A p \in Workers : w[p].pc # "idle" ~> w[p].pc = "idle"

TrimReturns == t.pc # "idle" ~> t.pc = "idle"
=============================================================================
