-------------------------- MODULE PeerDbConcProofs --------------------------
(***************************************************************************)
(* For any number of workers, hashes, peers and addresses, and requests of *)
(* any kind: the races of Save, Drop and trim give no Peer two owners, the *)
(* counters of a peermap drift for one reason only, and the gauges count   *)
(* what the counters count.  Where every worker has its own peers, the     *)
(* database implements PeerDb.                                             *)
(***************************************************************************)
EXTENDS PeerDbImpl, FiniteSetTheorems, WellFoundedInduction, TLAPS

Maps == UNION {[D -> Nat] : D \in SUBSET PeerIDs}

PeerMaps == [Complete : Int, Incomplete : Int, Peers : Maps]

WorkerPCs == {"idle"} \cup SaveStates \cup DropStates

Locals == [pc : WorkerPCs, op : {"none", "save", "drop"}, hash : Hashes \cup {None},
           id : PeerIDs \cup {None}, ip : IPs \cup {None}, complete : BOOLEAN,
           pm : Nat, obj : Nat, exists : BOOLEAN]

TrimLocals == [pc : {"idle", "next", "lock", "scan", "gauges", "free", "drop"}, now : Nat,
               todo : SUBSET Hashes, visited : SUBSET Hashes, hash : Hashes \cup {None},
               pm : Nat, obj : Nat, ids : SUBSET PeerIDs]

Heap ==
    /\ pms \in Seq(PeerMaps) /\ objs \in Seq(Peer) /\ pool \subseteq DOMAIN objs
    /\ IsMap(hashmap, Hashes, DOMAIN pms)

Scalars ==
    /\ seeds \in Int /\ leeches \in Int /\ DOMAIN ipstats \subseteq IPs \cup {None}
    /\ clock \in Nat /\ ops \in 0..MaxOps

Types == Heap /\ Scalars /\ w \in [Workers -> Locals] /\ t \in TrimLocals

\* What a worker has got when it is at pc
Worker(l) ==
    /\ \/ l = IdleWorker
       \/ l.op = "save" /\ l.pc \in SaveStates /\ l.hash \in Hashes /\ l.id \in PeerIDs
       \/ l.op = "drop" /\ l.pc \in DropStates /\ l.hash \in Hashes /\ l.id \in PeerIDs
    /\ l.pc \notin {"idle", "make"} => l.pm \in DOMAIN pms
    /\ l.pc \notin {"idle", "make", "find", "update", "remove"} => l.obj \in DOMAIN objs
    /\ l.pc = "update" /\ l.exists => l.obj \in DOMAIN objs
    /\ l.pc = "remove" => l.obj = 0

(* While trim is inside a peermap's mutex, the peers it has yet to look at  *)
(* stay there.                                                              *)
Trimmer ==
    /\ t.pc \in {"lock", "scan", "gauges", "free"} => t.pm \in DOMAIN pms
    /\ t.pc \in {"scan", "gauges", "free"} => t.ids \subseteq DOMAIN pms[t.pm].Peers
    /\ IF t.pc \in {"gauges", "free"} THEN t.obj \in DOMAIN objs ELSE t.obj = 0

Pointers ==
    \A a \in DOMAIN pms : \A i \in DOMAIN pms[a].Peers : pms[a].Peers[i] \in DOMAIN objs

\* Entries, the goroutines that free, and the pool have no peer in common
Drops(p) == w[p].op = "drop"

OneEntry ==
    \A a, b \in DOMAIN pms : \A i \in DOMAIN pms[a].Peers, j \in DOMAIN pms[b].Peers :
        pms[a].Peers[i] = pms[b].Peers[j] => a = b /\ i = j

EntryOnly ==
    \A a \in DOMAIN pms : \A i \in DOMAIN pms[a].Peers :
        /\ pms[a].Peers[i] \notin pool /\ pms[a].Peers[i] # t.obj
        /\ \A p \in Workers : Drops(p) => w[p].obj # pms[a].Peers[i]

OneFreer ==
    \A p \in Workers : Drops(p) /\ w[p].obj # 0 =>
        /\ w[p].obj \notin pool /\ w[p].obj # t.obj
        /\ \A q \in Workers : Drops(q) /\ q # p => w[q].obj # w[p].obj

Owners == OneEntry /\ EntryOnly /\ OneFreer /\ t.obj \notin pool

(* NoDoubleFree says nothing of workers that are about to remove an entry,  *)
(* nor that trim finds the peers it has read the ids of.                    *)
IInv == Types /\ (\A p \in Workers : Worker(w[p])) /\ Trimmer /\ Pointers /\ Owners

-----------------------------------------------------------------------------
(* Data *)

LEMMA MapsOK == \A m : m \in Maps <=> IsMap(m, PeerIDs, Nat)
  BY DEF Maps, IsMap

LEMMA EmptyOK == EmptyMap \in Maps /\ DOMAIN EmptyMap = {}
  BY MapsOK DEF EmptyMap, IsMap

LEMMA PutOK ==
    ASSUME NEW m \in Maps, NEW i \in PeerIDs, NEW o \in Nat
    PROVE  /\ Put(m, i, o) \in Maps /\ DOMAIN Put(m, i, o) = DOMAIN m \cup {i}
           /\ \A j \in DOMAIN m \cup {i} : Put(m, i, o)[j] = IF j = i THEN o ELSE m[j]
  BY MapsOK DEF Put, IsMap

LEMMA DelOK ==
    ASSUME NEW m \in Maps, NEW i
    PROVE  /\ Del(m, i) \in Maps /\ DOMAIN Del(m, i) = DOMAIN m \ {i}
           /\ \A j \in DOMAIN m \ {i} : Del(m, i)[j] = m[j]
  BY MapsOK DEF Del, IsMap

LEMMA NewPeerMapOK == NewPeerMap \in PeerMaps /\ NewPeerMap.Peers = EmptyMap
  BY EmptyOK DEF NewPeerMap, PeerMaps

LEMMA RemovePeerOK ==
    ASSUME NEW m \in PeerMaps, NEW i, NEW complete \in BOOLEAN
    PROVE  /\ RemovePeer(m, i, complete) \in PeerMaps
           /\ RemovePeer(m, i, complete).Peers = Del(m.Peers, i)
  <1>1. Del(m.Peers, i) \in Maps
    BY DelOK DEF PeerMaps
  <1>2. QED
    BY <1>1 DEF RemovePeer, PeerMaps

LEMMA IdleOK ==
    /\ IdleWorker \in Locals /\ IdleWorker.pc = "idle" /\ IdleWorker.op = "none"
    /\ IdleWorker.obj = 0 /\ ~IdleWorker.exists
  BY DEF IdleWorker, Locals, WorkerPCs

LEMMA IdleTrimOK == IdleTrim \in TrimLocals /\ IdleTrim.pc = "idle" /\ IdleTrim.obj = 0
  BY DEF IdleTrim, TrimLocals

LEMMA ZeroOK == IInv => 0 \notin DOMAIN objs
  BY DEF IInv, Types, Heap

-----------------------------------------------------------------------------
(* Steps of a worker *)

\* Nobody's view of the entries changes
SamePeers ==
    /\ DOMAIN pms' = DOMAIN pms
    /\ \A a \in DOMAIN pms : pms'[a].Peers = pms[a].Peers

LEMMA StepOK ==
    ASSUME IInv, NEW p \in Workers, NEW l \in Locals, w' = [w EXCEPT ![p] = l], t' = t,
           Heap', Scalars', DOMAIN pms \subseteq DOMAIN pms', DOMAIN objs \subseteq DOMAIN objs',
           Worker(l)', Pointers', Owners',
           t.pc \in {"scan", "gauges", "free"} => t.ids \subseteq DOMAIN pms'[t.pm].Peers
    PROVE  IInv'
  <1>1. w' \in [Workers -> Locals] /\ w'[p] = l /\ \A q \in Workers \ {p} : w'[q] = w[q]
    BY DEF IInv, Types
  <1>2. Types'
    BY <1>1 DEF IInv, Types
  <1>3. ASSUME NEW q \in Workers PROVE Worker(w[q])'
    BY <1>1 DEF IInv, Worker
  <1>4. Trimmer'
    BY DEF IInv, Trimmer
  <1>5. QED
    BY <1>2, <1>3, <1>4 DEF IInv

LEMMA OwnersOK ==
    ASSUME IInv, SamePeers, pool' = pool, DOMAIN objs' = DOMAIN objs, t'.obj = t.obj,
           \A p \in Workers : (w'[p].op = "drop" /\ w'[p].obj # 0)
                                 => w[p].op = "drop" /\ w'[p].obj = w[p].obj
    PROVE  Pointers' /\ Owners'
  <1>1. Pointers'
    BY DEF IInv, Pointers, SamePeers
  <1>2. OneEntry'
    BY DEF IInv, Owners, OneEntry, SamePeers
  <1>3. EntryOnly'
    BY ZeroOK DEF IInv, Owners, EntryOnly, Pointers, SamePeers, Drops
  <1>4. OneFreer'
    BY DEF IInv, Owners, OneFreer, Drops
  <1>5. QED
    BY <1>1, <1>2, <1>3, <1>4 DEF IInv, Owners

(* A worker that leaves the peermaps, the pool and who frees what alone.    *)
LEMMA MoveOK ==
    ASSUME IInv, NEW p \in Workers, NEW l \in Locals, w' = [w EXCEPT ![p] = l], t' = t,
           Heap', Scalars', SamePeers, DOMAIN objs' = DOMAIN objs, pool' = pool,
           Worker(l), l.op = "drop" /\ l.obj # 0 => w[p].op = "drop" /\ l.obj = w[p].obj
    PROVE  IInv'
  <1>1. Worker(l)'
    BY DEF Worker, SamePeers
  <1>2. Pointers' /\ Owners'
    BY OwnersOK DEF IInv, Types
  <1>3. t.pc \in {"scan", "gauges", "free"} => t.ids \subseteq DOMAIN pms'[t.pm].Peers
    BY DEF IInv, Trimmer, SamePeers
  <1>4. QED
    BY <1>1, <1>2, <1>3, StepOK DEF SamePeers

LEMMA LocalsOK ==
    ASSUME IInv, NEW p \in Workers
    PROVE  /\ w[p] \in Locals /\ Worker(w[p])
           /\ \A c \in WorkerPCs : [w[p] EXCEPT !.pc = c] \in Locals
  BY DEF IInv, Types, Locals

\* The heap and the metrics are left alone, or a counter of requests is moved
LEMMA SameOK ==
    ASSUME IInv
    PROVE  /\ UNCHANGED heap => Heap' /\ SamePeers /\ DOMAIN objs' = DOMAIN objs /\ pool' = pool
           /\ UNCHANGED <<metrics, clock>> /\ ops' \in 0..MaxOps => Scalars'
  <1>1. UNCHANGED heap => Heap' /\ SamePeers /\ DOMAIN objs' = DOMAIN objs /\ pool' = pool
    BY DEF heap, IInv, Types, Heap, SamePeers
  <1>2. UNCHANGED <<metrics, clock>> /\ ops' \in 0..MaxOps => Scalars'
    BY DEF metrics, IInv, Types, Scalars
  <1>3. QED
    BY <1>1, <1>2

LEMMA SaveLookupOK ==
    ASSUME IInv, NEW p \in Workers, NEW h \in Hashes, NEW id \in PeerIDs, NEW ip \in IPs,
           NEW complete \in BOOLEAN, SaveLookup(p, h, id, ip, complete)
    PROVE  IInv'
  <1> DEFINE c == IF h \in DOMAIN hashmap THEN "find" ELSE "make"
             l == [IdleWorker EXCEPT !.pc = c, !.op = "save", !.hash = h, !.id = id, !.ip = ip,
                                     !.complete = complete, !.pm = Get(hashmap, h)]
  <1>1. w' = [w EXCEPT ![p] = l]
    BY DEF SaveLookup
  <1>2. /\ Get(hashmap, h) \in Nat
        /\ c # "make" => Get(hashmap, h) \in DOMAIN pms
    BY DEF IInv, Types, Heap, IsMap, Get
  <1>3. c \in {"find", "make"} /\ c \in WorkerPCs
    BY DEF WorkerPCs, SaveStates
  <1> HIDE DEF c
  <1>4. l \in Locals
    BY <1>2, <1>3, IdleOK DEF Locals
  <1>5. l.pc = c /\ l.op = "save" /\ l.hash = h /\ l.id = id /\ l.pm = Get(hashmap, h)
    BY IdleOK DEF Locals
  <1> HIDE DEF l
  <1>6. Worker(l)
    BY <1>2, <1>3, <1>5 DEF Worker, SaveStates
  <1>7. Heap' /\ Scalars' /\ SamePeers
    <2>1. ops' \in 0..MaxOps
      BY BoundsAssumption DEF SaveLookup, IInv, Types, Scalars
    <2>2. QED
      BY <2>1, SameOK DEF SaveLookup
  <1>8. QED
    BY <1>1, <1>4, <1>5, <1>6, <1>7, MoveOK DEF SaveLookup, heap, metrics

LEMMA SaveFindOK ==
    ASSUME IInv, NEW p \in Workers, SaveFind(p)
    PROVE  IInv'
  <1> DEFINE peers == pms[w[p].pm].Peers
             here == w[p].id \in DOMAIN peers
             o == Get(peers, w[p].id)
             l == [w[p] EXCEPT !.pc = "update", !.exists = here, !.obj = o]
  <1>1. w' = [w EXCEPT ![p] = l]
    BY LocalsOK DEF SaveFind, IInv, Types
  <1>2. w[p].op = "save" /\ w[p].pm \in DOMAIN pms /\ w[p].hash \in Hashes /\ w[p].id \in PeerIDs
    BY LocalsOK, IdleOK DEF SaveFind, Worker, DropStates
  <1>3. /\ here => o \in DOMAIN objs
        /\ o \in Nat
    BY <1>2 DEF IInv, Types, Heap, Pointers, Get
  <1>4. here \in BOOLEAN
    OBVIOUS
  <1> HIDE DEF here, o
  <1>5. /\ l \in Locals /\ l.pc = "update" /\ l.op = "save" /\ l.hash = w[p].hash
        /\ l.id = w[p].id /\ l.pm = w[p].pm /\ l.exists = here /\ l.obj = o
    BY <1>2, <1>3, <1>4, LocalsOK DEF Locals, WorkerPCs, SaveStates
  <1> HIDE DEF l
  <1>6. Worker(l)
    BY <1>2, <1>3, <1>5 DEF Worker, SaveStates
  <1>7. Heap' /\ Scalars' /\ SamePeers
    BY SameOK DEF SaveFind, IInv, Types, Scalars
  <1>8. QED
    BY <1>1, <1>5, <1>6, <1>7, MoveOK DEF SaveFind, heap, metrics

(* A worker that only moves on. *)
LEMMA GotoOK ==
    ASSUME IInv, NEW p \in Workers, NEW c \in SaveStates \cup DropStates,
           w[p].pc # "idle", w[p].pc # "make",
           c \notin {"make", "find", "update", "remove"},
           w[p].op = "save" => c \in SaveStates, w[p].op = "drop" => c \in DropStates,
           w[p].obj \in DOMAIN objs,
           Goto(p, c), t' = t, Heap', Scalars', SamePeers, DOMAIN objs' = DOMAIN objs, pool' = pool
    PROVE  IInv'
  <1> DEFINE l == [w[p] EXCEPT !.pc = c]
  <1>1. w' = [w EXCEPT ![p] = l]
    BY DEF Goto, IInv, Types
  <1>2. /\ l \in Locals /\ l.pc = c /\ l.op = w[p].op /\ l.hash = w[p].hash /\ l.id = w[p].id
        /\ l.pm = w[p].pm /\ l.obj = w[p].obj /\ l.exists = w[p].exists
    BY LocalsOK DEF Locals, WorkerPCs
  <1> HIDE DEF l
  <1>3. Worker(l)
    BY <1>2, LocalsOK, IdleOK DEF Worker, SaveStates, DropStates
  <1>4. QED
    BY <1>1, <1>2, <1>3, MoveOK

(* A worker that returns. *)
LEMMA ReturnOK ==
    ASSUME IInv, NEW p \in Workers, Return(p), t' = t, Heap', Scalars', SamePeers,
           DOMAIN objs' = DOMAIN objs, pool' = pool
    PROVE  IInv'
  <1>1. Worker(IdleWorker)
    BY IdleOK DEF Worker
  <1>2. QED
    BY <1>1, IdleOK, MoveOK DEF Return

\* Where a worker that moves on is
LEMMA AtOK ==
    ASSUME IInv, NEW p \in Workers,
           w[p].pc \in {"gauges", "ip", "swap", "write", "writeIP", "writeSeen", "free"}
    PROVE  /\ w[p].pc # "idle" /\ w[p].pc # "make" /\ w[p].obj \in DOMAIN objs
           /\ objs[w[p].obj] \in Peer
           /\ w[p].op = "save" \/ w[p].op = "drop"
           /\ w[p].pc # "gauges" /\ w[p].pc # "free" => w[p].op = "save"
           /\ w[p].pc = "free" => w[p].op = "drop"
           /\ w[p].complete \in BOOLEAN /\ w[p].ip \in IPs \cup {None} /\ w[p].exists \in BOOLEAN
  <1>1. Worker(w[p]) /\ w[p] \in Locals
    BY LocalsOK
  <1>2. w[p].obj \in DOMAIN objs
    BY <1>1 DEF Worker
  <1>3. objs[w[p].obj] \in Peer
    BY <1>2 DEF IInv, Types, Heap
  <1>4. QED
    BY <1>1, <1>2, <1>3, IdleOK DEF Worker, SaveStates, DropStates, Locals

LEMMA DeltaOK ==
    ASSUME NEW exists \in BOOLEAN, NEW was \in BOOLEAN, NEW now \in BOOLEAN
    PROVE  CompleteDelta(exists, was, now) \in Int /\ IncompleteDelta(exists, was, now) \in Int
  BY DEF CompleteDelta, IncompleteDelta

LEMMA StatsOK ==
    ASSUME NEW s, NEW ip, DOMAIN s \subseteq IPs \cup {None}, ip \in IPs \cup {None}
    PROVE  /\ DOMAIN IPInc(s, ip) \subseteq IPs \cup {None}
           /\ DOMAIN IPRemove(s, ip) \subseteq IPs \cup {None}
  BY DEF IPInc, IPRemove, Put, Del

LEMMA SaveGaugesOK ==
    ASSUME IInv, NEW p \in Workers, SaveGauges(p)
    PROVE  IInv'
  <1>1. objs[w[p].obj].Complete \in BOOLEAN
    BY AtOK DEF SaveGauges, Peer
  <1>2. seeds' \in Int /\ leeches' \in Int
    BY <1>1, AtOK, DeltaOK DEF SaveGauges, IInv, Types, Scalars
  <1>3. Scalars'
    BY <1>2 DEF SaveGauges, IInv, Types, Scalars
  <1>4. Heap' /\ SamePeers /\ DOMAIN objs' = DOMAIN objs /\ pool' = pool
    BY SameOK DEF SaveGauges
  <1>5. CASE w[p].exists
    BY <1>3, <1>4, <1>5, AtOK, GotoOK DEF SaveGauges, SaveStates
  <1>6. CASE ~w[p].exists
    BY <1>3, <1>4, <1>6, AtOK, GotoOK DEF SaveGauges, SaveStates
  <1>7. QED
    BY <1>5, <1>6

LEMMA SaveIPOK ==
    ASSUME IInv, NEW p \in Workers, SaveIP(p)
    PROVE  IInv'
  <1>1. DOMAIN ipstats' \subseteq IPs \cup {None}
    BY AtOK, StatsOK DEF SaveIP, IInv, Types, Scalars
  <1>2. Scalars'
    BY <1>1 DEF SaveIP, IInv, Types, Scalars
  <1>3. Heap' /\ SamePeers /\ DOMAIN objs' = DOMAIN objs /\ pool' = pool
    BY SameOK DEF SaveIP
  <1>4. PICK c \in {"gauges", "write", "swap"} : Goto(p, c)
    BY DEF SaveIP
  <1>5. QED
    BY <1>2, <1>3, <1>4, AtOK, GotoOK DEF SaveIP, SaveStates

LEMMA SaveSwapIPOK ==
    ASSUME IInv, NEW p \in Workers, SaveSwapIP(p)
    PROVE  IInv'
  <1>1. objs[w[p].obj].IP \in IPs \cup {None} /\ w[p].ip \in IPs \cup {None}
    BY AtOK DEF SaveSwapIP, Peer
  <1>2. DOMAIN IPRemove(ipstats, objs[w[p].obj].IP) \subseteq IPs \cup {None}
    BY <1>1, StatsOK DEF IInv, Types, Scalars
  <1>3. DOMAIN ipstats' \subseteq IPs \cup {None}
    BY <1>1, <1>2, StatsOK DEF SaveSwapIP
  <1>4. Scalars'
    BY <1>3 DEF SaveSwapIP, IInv, Types, Scalars
  <1>5. Heap' /\ SamePeers /\ DOMAIN objs' = DOMAIN objs /\ pool' = pool
    BY SameOK DEF SaveSwapIP
  <1>6. QED
    BY <1>4, <1>5, AtOK, GotoOK DEF SaveSwapIP, SaveStates

\* A field of a peer is written
LEMMA WriteOK ==
    ASSUME IInv, NEW o \in DOMAIN objs, NEW n \in Peer, objs' = [objs EXCEPT ![o] = n],
           UNCHANGED <<hashmap, pms, pool>>
    PROVE  Heap' /\ SamePeers /\ DOMAIN objs' = DOMAIN objs
  BY DEF IInv, Types, Heap, SamePeers

LEMMA SaveWriteCompleteOK ==
    ASSUME IInv, NEW p \in Workers, SaveWriteComplete(p)
    PROVE  IInv'
  <1> DEFINE n == [objs[w[p].obj] EXCEPT !.Complete = w[p].complete]
  <1>1. n \in Peer
    BY AtOK DEF SaveWriteComplete, Peer
  <1>2. objs' = [objs EXCEPT ![w[p].obj] = n]
    BY DEF SaveWriteComplete
  <1> HIDE DEF n
  <1>3. Heap' /\ SamePeers /\ DOMAIN objs' = DOMAIN objs
    <2>1. w[p].obj \in DOMAIN objs /\ UNCHANGED <<hashmap, pms, pool>>
      BY AtOK DEF SaveWriteComplete
    <2>2. QED
      BY <1>1, <1>2, <2>1, WriteOK
  <1>4. Scalars'
    BY SameOK DEF SaveWriteComplete, IInv, Types, Scalars
  <1>5. QED
    BY <1>3, <1>4, AtOK, GotoOK DEF SaveWriteComplete, SaveStates

LEMMA SaveWriteIPOK ==
    ASSUME IInv, NEW p \in Workers, SaveWriteIP(p)
    PROVE  IInv'
  <1> DEFINE n == [objs[w[p].obj] EXCEPT !.IP = w[p].ip]
  <1>1. n \in Peer
    BY AtOK DEF SaveWriteIP, Peer
  <1>2. objs' = [objs EXCEPT ![w[p].obj] = n]
    BY DEF SaveWriteIP
  <1> HIDE DEF n
  <1>3. Heap' /\ SamePeers /\ DOMAIN objs' = DOMAIN objs
    <2>1. w[p].obj \in DOMAIN objs /\ UNCHANGED <<hashmap, pms, pool>>
      BY AtOK DEF SaveWriteIP
    <2>2. QED
      BY <1>1, <1>2, <2>1, WriteOK
  <1>4. Scalars'
    BY SameOK DEF SaveWriteIP, IInv, Types, Scalars
  <1>5. QED
    BY <1>3, <1>4, AtOK, GotoOK DEF SaveWriteIP, SaveStates

LEMMA SaveWriteSeenOK ==
    ASSUME IInv, NEW p \in Workers, SaveWriteSeen(p)
    PROVE  IInv'
  <1> DEFINE n == [objs[w[p].obj] EXCEPT !.LastSeen = clock]
  <1>1. n \in Peer
    BY AtOK DEF SaveWriteSeen, Peer, IInv, Types, Scalars
  <1>2. objs' = [objs EXCEPT ![w[p].obj] = n]
    BY DEF SaveWriteSeen
  <1> HIDE DEF n
  <1>3. Heap' /\ SamePeers /\ DOMAIN objs' = DOMAIN objs
    <2>1. w[p].obj \in DOMAIN objs /\ UNCHANGED <<hashmap, pms, pool>>
      BY AtOK DEF SaveWriteSeen
    <2>2. QED
      BY <1>1, <1>2, <2>1, WriteOK
  <1>4. Scalars'
    BY SameOK DEF SaveWriteSeen, IInv, Types, Scalars
  <1>5. QED
    BY <1>3, <1>4, ReturnOK DEF SaveWriteSeen

LEMMA DropLookupOK ==
    ASSUME IInv, NEW p \in Workers, NEW h \in Hashes, NEW id \in PeerIDs, DropLookup(p, h, id)
    PROVE  IInv'
  <1> DEFINE l == [IdleWorker EXCEPT !.pc = "remove", !.op = "drop", !.hash = h, !.id = id,
                                     !.pm = hashmap[h]]
  <1>1. w' = [w EXCEPT ![p] = l]
    BY DEF DropLookup
  <1>2. hashmap[h] \in DOMAIN pms /\ hashmap[h] \in Nat
    BY DEF DropLookup, IInv, Types, Heap, IsMap
  <1>3. l \in Locals
    BY <1>2, IdleOK DEF Locals, WorkerPCs, DropStates
  <1>4. /\ l.pc = "remove" /\ l.op = "drop" /\ l.hash = h /\ l.id = id /\ l.pm = hashmap[h]
        /\ l.obj = 0
    BY IdleOK DEF Locals
  <1> HIDE DEF l
  <1>5. Worker(l)
    BY <1>2, <1>4 DEF Worker, DropStates
  <1>6. ops' \in 0..MaxOps
    BY BoundsAssumption DEF DropLookup, IInv, Types, Scalars
  <1>7. Heap' /\ Scalars' /\ SamePeers /\ DOMAIN objs' = DOMAIN objs /\ pool' = pool
    BY <1>6, SameOK DEF DropLookup
  <1>8. QED
    BY <1>1, <1>3, <1>4, <1>5, <1>7, MoveOK DEF DropLookup

LEMMA DropGaugesOK ==
    ASSUME IInv, NEW p \in Workers, DropGauges(p)
    PROVE  IInv'
  <1>1. seeds' \in Int /\ leeches' \in Int
    BY DEF DropGauges, IInv, Types, Scalars
  <1>2. Scalars'
    BY <1>1 DEF DropGauges, IInv, Types, Scalars
  <1>3. Heap' /\ SamePeers /\ DOMAIN objs' = DOMAIN objs /\ pool' = pool
    BY SameOK DEF DropGauges
  <1>4. QED
    BY <1>2, <1>3, AtOK, GotoOK DEF DropGauges, DropStates

\* The peermaps but one stay
LEMMA ChangeOK ==
    ASSUME IInv, NEW a \in DOMAIN pms, NEW m \in PeerMaps, pms' = [pms EXCEPT ![a] = m]
    PROVE  /\ pms' \in Seq(PeerMaps) /\ DOMAIN pms' = DOMAIN pms /\ pms'[a] = m
           /\ \A b \in DOMAIN pms \ {a} : pms'[b] = pms[b]
           /\ IsMap(hashmap, Hashes, DOMAIN pms')
  BY DEF IInv, Types, Heap

LEMMA SaveMakeOK ==
    ASSUME IInv, NEW p \in Workers, SaveMake(p)
    PROVE  IInv'
  <1> DEFINE n == Len(pms) + 1
  <1>1. /\ pms \in Seq(PeerMaps) /\ n \in Nat /\ DOMAIN pms = 1..(n - 1)
        /\ pms' = Append(pms, NewPeerMap)
    BY DEF SaveMake, IInv, Types, Heap
  <1>2. /\ pms' \in Seq(PeerMaps) /\ DOMAIN pms' = DOMAIN pms \cup {n} /\ pms'[n] = NewPeerMap
        /\ \A a \in DOMAIN pms : pms'[a] = pms[a] /\ a # n
    BY <1>1, NewPeerMapOK
  <1>3. /\ hashmap' = Put(hashmap, w[p].hash, n) /\ UNCHANGED <<objs, pool, metrics, clock, ops, t>>
    BY DEF SaveMake
  <1>4. w[p].op = "save" /\ w[p].hash \in Hashes /\ w[p].id \in PeerIDs
    BY LocalsOK, IdleOK DEF SaveMake, Worker, DropStates
  <1>5. PICK l \in Locals :
            /\ w' = [w EXCEPT ![p] = l] /\ l.pc = "find" /\ l.op = "save"
            /\ l.hash = w[p].hash /\ l.id = w[p].id /\ l.pm = n
    <2> DEFINE l == [w[p] EXCEPT !.pc = "find", !.pm = n]
    <2>1. w' = [w EXCEPT ![p] = l]
      BY LocalsOK DEF SaveMake, IInv, Types
    <2> HIDE DEF n
    <2>2. /\ l \in Locals /\ l.pc = "find" /\ l.op = "save" /\ l.hash = w[p].hash /\ l.id = w[p].id
          /\ l.pm = n
      BY <1>1, <1>4, LocalsOK DEF Locals, WorkerPCs, SaveStates
    <2> HIDE DEF l
    <2>3. QED
      BY <2>1, <2>2
  <1> HIDE DEF n
  <1>6. Worker(l)'
    BY <1>2, <1>4, <1>5 DEF Worker, SaveStates
  <1>7. IsMap(hashmap', Hashes, DOMAIN pms')
    BY <1>2, <1>3, <1>4 DEF IInv, Types, Heap, IsMap, Put
  <1>8. Heap'
    BY <1>2, <1>3, <1>7 DEF IInv, Types, Heap
  <1>9. Scalars'
    BY <1>3, SameOK DEF IInv, Types, Scalars
  <1>10. DOMAIN pms'[n].Peers = {}
    BY <1>2, NewPeerMapOK, EmptyOK
  <1>11. \A q \in Workers : w'[q].op = "drop" => w[q].op = "drop" /\ w'[q].obj = w[q].obj
    BY <1>5 DEF IInv, Types
  <1>12. Pointers'
    BY <1>2, <1>3, <1>10 DEF IInv, Pointers
  <1>13. Owners'
    <2>1. OneEntry'
      BY <1>2, <1>10 DEF IInv, Owners, OneEntry
    <2>2. EntryOnly'
      BY <1>2, <1>3, <1>10, <1>11 DEF IInv, Owners, EntryOnly, Drops
    <2>3. OneFreer'
      BY <1>3, <1>11 DEF IInv, Owners, OneFreer, Drops
    <2>4. QED
      BY <1>3, <2>1, <2>2, <2>3 DEF IInv, Owners
  <1>14. t.pc \in {"scan", "gauges", "free"} => t.ids \subseteq DOMAIN pms'[t.pm].Peers
    BY <1>2 DEF IInv, Trimmer
  <1>15. DOMAIN pms \subseteq DOMAIN pms' /\ DOMAIN objs \subseteq DOMAIN objs' /\ t' = t
    BY <1>2, <1>3
  <1>16. QED
    BY <1>5, <1>6, <1>8, <1>9, <1>12, <1>13, <1>14, <1>15, StepOK

LEMMA CountedOK ==
    ASSUME NEW m \in PeerMaps, NEW c \in Int, NEW d \in Int, NEW peers \in Maps
    PROVE  LET n == [Complete |-> m.Complete + c, Incomplete |-> m.Incomplete + d, Peers |-> peers]
           IN  n \in PeerMaps /\ n.Peers = peers
  BY DEF PeerMaps

\* A known peer: the counters move
LEMMA SaveUpdateKnownOK ==
    ASSUME IInv, NEW p \in Workers, SaveUpdate(p), w[p].exists
    PROVE  IInv'
  <1> DEFINE a == w[p].pm
             was == objs[w[p].obj].Complete
             m == [Complete |-> pms[a].Complete + CompleteDelta(w[p].exists, was, w[p].complete),
                   Incomplete |-> pms[a].Incomplete
                                    + IncompleteDelta(w[p].exists, was, w[p].complete),
                   Peers |-> pms[a].Peers]
  <1>1. /\ w[p].op = "save" /\ a \in DOMAIN pms /\ w[p].obj \in DOMAIN objs
        /\ w[p].complete \in BOOLEAN /\ w[p].pc = "update"
    BY LocalsOK, IdleOK DEF SaveUpdate, Worker, DropStates, Locals
  <1>2. was \in BOOLEAN /\ pms[a] \in PeerMaps
    <2>1. objs[w[p].obj] \in Peer /\ pms[w[p].pm] \in PeerMaps
      BY <1>1 DEF IInv, Types, Heap
    <2>2. QED
      BY <2>1 DEF Peer
  <1>3. /\ CompleteDelta(w[p].exists, was, w[p].complete) \in Int
        /\ IncompleteDelta(w[p].exists, was, w[p].complete) \in Int
    BY <1>1, <1>2, DeltaOK
  <1>4. m \in PeerMaps /\ m.Peers = pms[a].Peers
    <2>1. pms[a].Peers \in Maps
      BY <1>2 DEF PeerMaps
    <2>2. QED
      BY <1>2, <1>3, <2>1, CountedOK
  <1>5. /\ pms' = [pms EXCEPT ![a] = m] /\ Goto(p, "gauges")
        /\ UNCHANGED <<objs, pool, hashmap, metrics, clock, ops, t>>
    BY DEF SaveUpdate
  <1> HIDE DEF m
  <1>6. /\ pms' \in Seq(PeerMaps) /\ IsMap(hashmap, Hashes, DOMAIN pms') /\ SamePeers
    BY <1>1, <1>4, <1>5, ChangeOK DEF SamePeers
  <1>7. Heap'
    BY <1>5, <1>6 DEF IInv, Types, Heap
  <1>8. Scalars'
    BY <1>5, SameOK DEF IInv, Types, Scalars
  <1>9. QED
    BY <1>1, <1>5, <1>6, <1>7, <1>8, GotoOK DEF SaveStates

\* pools.Peers.Get hands out a peer that nobody has
LEMMA GetPeerOK ==
    ASSUME IInv, NEW o \in pool \cup {Len(objs) + 1}, GetPeer(o)
    PROVE  /\ objs' \in Seq(Peer) /\ DOMAIN objs \subseteq DOMAIN objs' /\ o \in DOMAIN objs' /\ o \in Nat
           /\ pool' \subseteq pool /\ pool' \subseteq DOMAIN objs' /\ o \notin pool' /\ o # 0
           /\ o # t.obj
           /\ \A a \in DOMAIN pms : \A i \in DOMAIN pms[a].Peers : pms[a].Peers[i] # o
           /\ \A q \in Workers : Drops(q) => w[q].obj # o
  <1>1. /\ objs \in Seq(Peer) /\ pool \subseteq DOMAIN objs /\ DOMAIN objs = 1..Len(objs)
        /\ Len(objs) \in Nat
    BY DEF IInv, Types, Heap
  <1>2. ZeroPeer \in Peer
    BY DEF ZeroPeer, Peer
  <1>3. t.obj \in DOMAIN objs \cup {0}
    BY DEF IInv, Trimmer, Types, TrimLocals
  <1>4. CASE o \in pool
    <2>1. pool' = pool \ {o} /\ objs' = objs
      BY <1>1, <1>4 DEF GetPeer
    <2>2. QED
      BY <1>1, <1>4, <2>1 DEF IInv, Owners, EntryOnly, OneFreer
  <1>5. CASE o = Len(objs) + 1
    <2>1. pool' = pool /\ objs' = Append(objs, ZeroPeer)
      BY <1>1, <1>5 DEF GetPeer
    <2>2. objs' \in Seq(Peer) /\ DOMAIN objs' = DOMAIN objs \cup {o}
      BY <1>1, <1>2, <1>5, <2>1
    <2>3. o \notin DOMAIN objs /\ o # 0 /\ o \in Nat
      BY <1>1, <1>5
    <2>4. \A q \in Workers : Drops(q) => w[q].obj \in DOMAIN objs \cup {0}
      BY LocalsOK, IdleOK DEF Drops, Worker, DropStates
    <2>5. QED
      BY <1>1, <1>3, <2>1, <2>2, <2>3, <2>4 DEF IInv, Pointers
  <1>6. QED
    BY <1>4, <1>5

\* A new peer: no other entry, goroutine or pool has it
LEMMA SaveUpdateNewOK ==
    ASSUME IInv, NEW p \in Workers, SaveUpdate(p), ~w[p].exists
    PROVE  IInv'
  <1> DEFINE a == w[p].pm
             id == w[p].id
  <1>1. /\ w[p].op = "save" /\ a \in DOMAIN pms /\ id \in PeerIDs /\ w[p].hash \in Hashes
        /\ w[p].complete \in BOOLEAN /\ w[p].pc = "update" /\ w[p].exists \in BOOLEAN
    BY LocalsOK, IdleOK DEF SaveUpdate, Worker, DropStates, Locals
  <1>2. PICK o \in pool \cup {Len(objs) + 1} :
            /\ GetPeer(o) /\ w' = [w EXCEPT ![p].pc = "ip", ![p].obj = o]
            /\ pms' = [pms EXCEPT ![a] =
                 [Complete |-> pms[a].Complete
                       + CompleteDelta(w[p].exists, FALSE, w[p].complete),
                  Incomplete |-> pms[a].Incomplete
                       + IncompleteDelta(w[p].exists, FALSE, w[p].complete),
                  Peers |-> Put(pms[a].Peers, id, o)]]
    BY DEF SaveUpdate
  <1>3. UNCHANGED <<hashmap, metrics, clock, ops, t>>
    BY DEF SaveUpdate
  <1>4. /\ objs' \in Seq(Peer) /\ DOMAIN objs \subseteq DOMAIN objs' /\ o \in DOMAIN objs' /\ o \in Nat
        /\ pool' \subseteq pool /\ pool' \subseteq DOMAIN objs' /\ o \notin pool' /\ o # 0
        /\ o # t.obj
        /\ \A b \in DOMAIN pms : \A i \in DOMAIN pms[b].Peers : pms[b].Peers[i] # o
        /\ \A q \in Workers : Drops(q) => w[q].obj # o
    BY <1>2, GetPeerOK
  <1>5. PICK m \in PeerMaps : pms' = [pms EXCEPT ![a] = m] /\ m.Peers = Put(pms[a].Peers, id, o)
    <2>1. pms[a] \in PeerMaps
      BY <1>1 DEF IInv, Types, Heap
    <2>2. pms[a].Peers \in Maps
      BY <2>1 DEF PeerMaps
    <2>3. Put(pms[a].Peers, id, o) \in Maps
      BY <1>1, <1>4, <2>2, PutOK
    <2>4. /\ CompleteDelta(w[p].exists, FALSE, w[p].complete) \in Int
          /\ IncompleteDelta(w[p].exists, FALSE, w[p].complete) \in Int
      BY <1>1, DeltaOK
    <2>5. QED
      BY <1>2, <2>1, <2>3, <2>4, CountedOK
  <1>6. PICK l \in Locals :
            /\ w' = [w EXCEPT ![p] = l] /\ l.pc = "ip" /\ l.op = "save"
            /\ l.hash = w[p].hash /\ l.id = id /\ l.pm = a /\ l.obj = o
    <2> DEFINE l == [w[p] EXCEPT !.pc = "ip", !.obj = o]
    <2>1. w' = [w EXCEPT ![p] = l]
      BY <1>2, LocalsOK DEF IInv, Types
    <2>2. w[p] \in Locals /\ "ip" \in WorkerPCs /\ o \in Nat
      BY <1>4, LocalsOK DEF WorkerPCs, SaveStates
    <2>3. /\ l \in Locals /\ l.pc = "ip" /\ l.op = w[p].op /\ l.hash = w[p].hash
          /\ l.id = w[p].id /\ l.pm = w[p].pm /\ l.obj = o
      BY <2>2 DEF Locals
    <2> HIDE DEF l
    <2>4. QED
      BY <1>1, <2>1, <2>3
  <1>7. /\ pms' \in Seq(PeerMaps) /\ DOMAIN pms' = DOMAIN pms /\ pms'[a] = m
        /\ \A b \in DOMAIN pms \ {a} : pms'[b] = pms[b]
        /\ IsMap(hashmap, Hashes, DOMAIN pms')
    BY <1>1, <1>5, ChangeOK
  <1>8. /\ DOMAIN m.Peers = DOMAIN pms[a].Peers \cup {id}
        /\ \A i \in DOMAIN m.Peers : m.Peers[i] = IF i = id THEN o ELSE pms[a].Peers[i]
    <2>1. pms[a] \in PeerMaps
      BY <1>1 DEF IInv, Types, Heap
    <2>2. pms[a].Peers \in Maps
      BY <2>1 DEF PeerMaps
    <2> DEFINE n == pms[a].Peers
    <2>3. id \in PeerIDs /\ o \in Nat
      BY <1>1, <1>4
    <2>4. n \in Maps /\ m.Peers = Put(n, id, o)
      BY <1>5, <2>2
    <2> HIDE DEF n, id
    <2>5. /\ DOMAIN Put(n, id, o) = DOMAIN n \cup {id}
          /\ \A i \in DOMAIN n \cup {id} : Put(n, id, o)[i] = IF i = id THEN o ELSE n[i]
      BY DEF Put
    <2> USE DEF n, id
    <2>6. QED
      BY <2>4, <2>5
  <1> HIDE DEF a, id
  <1>9. Worker(l)'
    BY <1>1, <1>4, <1>6, <1>7 DEF Worker, SaveStates
  <1>10. Heap'
    BY <1>3, <1>4, <1>7 DEF Heap
  <1>11. Scalars'
    BY <1>3, SameOK DEF IInv, Types, Scalars
  <1>12. \A q \in Workers : w'[q].op = "drop" => w[q].op = "drop" /\ w'[q].obj = w[q].obj
    BY <1>6 DEF IInv, Types
  <1>13. \A b \in DOMAIN pms' : \A i \in DOMAIN pms'[b].Peers :
            \/ b = a /\ i = id /\ pms'[b].Peers[i] = o
            \/ b \in DOMAIN pms /\ i \in DOMAIN pms[b].Peers
                 /\ pms'[b].Peers[i] = pms[b].Peers[i]
    BY <1>7, <1>8
  <1>14. Pointers'
    BY <1>4, <1>13 DEF IInv, Pointers
  <1>15. Owners'
    <2>1. OneEntry'
      BY <1>4, <1>13 DEF IInv, Owners, OneEntry
    <2>2. EntryOnly'
      BY <1>3, <1>4, <1>12, <1>13 DEF IInv, Owners, EntryOnly, Drops
    <2>3. OneFreer'
      BY <1>3, <1>4, <1>12 DEF IInv, Owners, OneFreer, Drops
    <2>4. QED
      BY <1>3, <1>4, <2>1, <2>2, <2>3 DEF IInv, Owners
  <1>16. t.pc \in {"scan", "gauges", "free"} => t.ids \subseteq DOMAIN pms'[t.pm].Peers
    BY <1>7, <1>8 DEF IInv, Trimmer
  <1>17. QED
    BY <1>3, <1>4, <1>6, <1>7, <1>9, <1>10, <1>11, <1>14, <1>15, <1>16, StepOK

(* Peer id leaves peermap a: whoever removed it is the only one to have it. *)
Removed(a, id) ==
    /\ pms' \in Seq(PeerMaps) /\ DOMAIN pms' = DOMAIN pms
    /\ IsMap(hashmap, Hashes, DOMAIN pms')
    /\ \A b \in DOMAIN pms : DOMAIN pms'[b].Peers =
          IF b = a THEN DOMAIN pms[b].Peers \ {id} ELSE DOMAIN pms[b].Peers
    /\ \A b \in DOMAIN pms' : \A i \in DOMAIN pms'[b].Peers :
          /\ i \in DOMAIN pms[b].Peers /\ pms'[b].Peers[i] = pms[b].Peers[i]
          /\ pms[b].Peers[i] # pms[a].Peers[id]

LEMMA RemoveOK ==
    ASSUME IInv, NEW a \in DOMAIN pms, NEW id \in DOMAIN pms[a].Peers, NEW c \in BOOLEAN,
           pms' = [pms EXCEPT ![a] = RemovePeer(@, id, c)]
    PROVE  Removed(a, id)
  <1>1. pms[a] \in PeerMaps
    BY DEF IInv, Types, Heap
  <1>2. pms[a].Peers \in Maps
    BY <1>1 DEF PeerMaps
  <1>3. PICK m \in PeerMaps : pms' = [pms EXCEPT ![a] = m] /\ m.Peers = Del(pms[a].Peers, id)
    BY <1>1, RemovePeerOK
  <1>4. /\ pms' \in Seq(PeerMaps) /\ DOMAIN pms' = DOMAIN pms /\ pms'[a] = m
        /\ \A b \in DOMAIN pms \ {a} : pms'[b] = pms[b]
        /\ IsMap(hashmap, Hashes, DOMAIN pms')
    BY <1>3, ChangeOK
  <1>5. /\ DOMAIN m.Peers = DOMAIN pms[a].Peers \ {id}
        /\ \A i \in DOMAIN m.Peers : m.Peers[i] = pms[a].Peers[i]
    BY <1>3 DEF Del
  <1>6. \A b \in DOMAIN pms : DOMAIN pms'[b].Peers =
          IF b = a THEN DOMAIN pms[b].Peers \ {id} ELSE DOMAIN pms[b].Peers
    BY <1>4, <1>5
  <1>7. ASSUME NEW b \in DOMAIN pms', NEW i \in DOMAIN pms'[b].Peers
        PROVE  /\ i \in DOMAIN pms[b].Peers /\ pms'[b].Peers[i] = pms[b].Peers[i]
               /\ pms[b].Peers[i] # pms[a].Peers[id]
    <2>1. b \in DOMAIN pms /\ i \in DOMAIN pms[b].Peers /\ pms'[b].Peers[i] = pms[b].Peers[i]
      BY <1>4, <1>5
    <2>2. b # a \/ i # id
      BY <1>4, <1>5
    <2>3. QED
      BY <2>1, <2>2 DEF IInv, Owners, OneEntry
  <1>8. QED
    BY <1>4, <1>6, <1>7 DEF Removed

LEMMA DropRemoveOK ==
    ASSUME IInv, NEW p \in Workers, DropRemove(p)
    PROVE  IInv'
  <1>1. /\ w[p].op = "drop" /\ w[p].pm \in DOMAIN pms /\ w[p].id \in PeerIDs
        /\ w[p].hash \in Hashes /\ w[p].obj = 0 /\ ~TrimHolds(w[p].pm)
    BY LocalsOK, IdleOK DEF DropRemove, Worker, SaveStates
  <1>2. UNCHANGED <<hashmap, objs, pool, metrics, clock, ops, t>>
    BY DEF DropRemove
  <1>3. Scalars'
    BY <1>2, SameOK DEF IInv, Types, Scalars
  <1>4. CASE w[p].id \notin DOMAIN pms[w[p].pm].Peers
    <2>1. UNCHANGED heap /\ Return(p)
      BY <1>2, <1>4 DEF DropRemove, heap
    <2>2. QED
      BY <1>2, <1>3, <2>1, SameOK, ReturnOK
  <1>5. CASE w[p].id \in DOMAIN pms[w[p].pm].Peers
    <2> DEFINE a == w[p].pm
               id == w[p].id
               o == pms[a].Peers[id]
    <2>1. o \in DOMAIN objs /\ o \in Nat /\ o # 0
      BY <1>1, <1>5, ZeroOK DEF IInv, Pointers, Types, Heap
    <2>2. objs[o].Complete \in BOOLEAN
      <3>1. objs[o] \in Peer
        BY <2>1 DEF IInv, Types, Heap
      <3>2. QED
        BY <3>1 DEF Peer
    <2>3. /\ pms' = [pms EXCEPT ![a] = RemovePeer(@, id, objs[o].Complete)]
          /\ w' = [w EXCEPT ![p].pc = "gauges", ![p].obj = o]
      BY <1>5 DEF DropRemove, Get
    <2>4. PICK l \in Locals :
              /\ w' = [w EXCEPT ![p] = l] /\ l.pc = "gauges" /\ l.op = "drop"
              /\ l.hash = w[p].hash /\ l.id = w[p].id /\ l.pm = w[p].pm /\ l.obj = o
      <3> HIDE DEF o
      <3> DEFINE l == [w[p] EXCEPT !.pc = "gauges", !.obj = o]
      <3>1. w' = [w EXCEPT ![p] = l]
        BY <2>3 DEF IInv, Types
      <3>2. w[p] \in Locals /\ "gauges" \in WorkerPCs /\ o \in Nat
        BY <2>1, LocalsOK DEF WorkerPCs, SaveStates
      <3>3. /\ l \in Locals /\ l.pc = "gauges" /\ l.op = w[p].op /\ l.hash = w[p].hash
            /\ l.id = w[p].id /\ l.pm = w[p].pm /\ l.obj = o
        BY <3>2 DEF Locals
      <3> HIDE DEF l
      <3>4. QED
        BY <1>1, <3>1, <3>3
    <2>5. Removed(a, id)
      BY <1>1, <1>5, <2>2, <2>3, RemoveOK
    <2>6. /\ o \notin pool /\ o # t.obj
          /\ \A q \in Workers : Drops(q) => w[q].obj # o
      BY <1>1, <1>5 DEF IInv, Owners, EntryOnly
    <2>7. Worker(l)'
      BY <1>1, <1>2, <2>1, <2>4, <2>5 DEF Worker, DropStates, Removed
    <2>8. Heap'
      BY <1>2, <2>5 DEF IInv, Types, Heap, Removed
    <2>9. /\ w'[p].obj = o /\ w'[p].op = "drop"
          /\ \A q \in Workers \ {p} : w'[q] = w[q]
      BY <2>4 DEF IInv, Types
    <2>10. Pointers'
      BY <1>2, <2>5 DEF IInv, Pointers, Removed
    <2>11. Owners'
      <3>1. OneEntry'
        BY <2>5 DEF IInv, Owners, OneEntry, Removed
      <3>2. EntryOnly'
        BY <1>2, <2>5, <2>9 DEF IInv, Owners, EntryOnly, Drops, Removed
      <3>3. OneFreer'
        BY <1>2, <2>6, <2>9 DEF IInv, Owners, OneFreer, Drops
      <3>4. QED
        BY <1>2, <3>1, <3>2, <3>3 DEF IInv, Owners
    <2>12. t.pc \in {"scan", "gauges", "free"} => t.ids \subseteq DOMAIN pms'[t.pm].Peers
      BY <1>1, <2>5 DEF IInv, Trimmer, TrimHolds, Removed
    <2>13. QED
      BY <1>2, <1>3, <2>4, <2>5, <2>7, <2>8, <2>10, <2>11, <2>12, StepOK DEF Removed
  <1>6. QED
    BY <1>4, <1>5

LEMMA DropFreeOK ==
    ASSUME IInv, NEW p \in Workers, DropFree(p)
    PROVE  IInv'
  <1>1. w[p].op = "drop" /\ w[p].obj \in DOMAIN objs /\ objs[w[p].obj] \in Peer
    BY AtOK DEF DropFree
  <1>2. /\ UNCHANGED <<hashmap, pms, objs, seeds, leeches, clock, ops, t>> /\ Return(p)
        /\ pool' = pool \cup {w[p].obj} /\ ipstats' = IPRemove(ipstats, objs[w[p].obj].IP)
    BY DEF DropFree
  <1>3. objs[w[p].obj].IP \in IPs \cup {None}
    BY <1>1 DEF Peer
  <1>4. DOMAIN ipstats' \subseteq IPs \cup {None}
    BY <1>2, <1>3, StatsOK DEF IInv, Types, Scalars
  <1>5. Scalars'
    BY <1>2, <1>4 DEF IInv, Types, Scalars
  <1>6. Heap'
    BY <1>1, <1>2 DEF IInv, Types, Heap
  <1>7. w' = [w EXCEPT ![p] = IdleWorker]
    BY <1>2 DEF Return
  <1>8. /\ ~(w'[p].op = "drop") /\ \A q \in Workers \ {p} : w'[q] = w[q]
    BY <1>7, IdleOK DEF IInv, Types
  <1>9. Worker(IdleWorker)'
    BY IdleOK DEF Worker, IdleWorker
  <1>10. Pointers'
    BY <1>2 DEF IInv, Pointers
  <1>11. w[p].obj # 0
    BY <1>1, ZeroOK
  <1>12. Owners'
    <2>1. OneEntry'
      BY <1>2 DEF IInv, Owners, OneEntry
    <2>2. EntryOnly'
      BY <1>1, <1>2, <1>8 DEF IInv, Owners, EntryOnly, Drops
    <2>3. OneFreer'
      BY <1>1, <1>2, <1>8, <1>11 DEF IInv, Owners, OneFreer, Drops
    <2>4. t.obj \notin pool'
      BY <1>1, <1>2, <1>11 DEF IInv, Owners, OneFreer, Drops
    <2>5. QED
      BY <1>2, <2>1, <2>2, <2>3, <2>4 DEF Owners
  <1>13. t.pc \in {"scan", "gauges", "free"} => t.ids \subseteq DOMAIN pms'[t.pm].Peers
    BY <1>2 DEF IInv, Trimmer
  <1>14. QED
    BY <1>2, <1>5, <1>6, <1>7, <1>9, <1>10, <1>12, <1>13, IdleOK, StepOK

-----------------------------------------------------------------------------
(* Steps of trim *)

LEMMA TrimStepOK ==
    ASSUME IInv, w' = w, t' \in TrimLocals, Heap', Scalars', Trimmer', Pointers', Owners',
           DOMAIN pms' = DOMAIN pms, DOMAIN objs' = DOMAIN objs
    PROVE  IInv'
  <1>1. Types'
    BY DEF IInv, Types
  <1>2. ASSUME NEW q \in Workers PROVE Worker(w[q])'
    BY DEF IInv, Worker
  <1>3. QED
    BY <1>1, <1>2 DEF IInv

\* Trim moves on, and what it is about to free stays the same
LEMMA TrimMoveOK ==
    ASSUME IInv, w' = w, t' \in TrimLocals, UNCHANGED <<pms, objs, pool>>, t'.obj = t.obj,
           IsMap(hashmap', Hashes, DOMAIN pms), Scalars', Trimmer'
    PROVE  IInv'
  <1>1. SamePeers /\ Heap' /\ DOMAIN objs' = DOMAIN objs
    BY DEF IInv, Types, Heap, SamePeers
  <1>2. Pointers' /\ Owners'
    BY <1>1, OwnersOK
  <1>3. QED
    BY <1>1, <1>2, TrimStepOK DEF SamePeers

LEMMA TrimLocalsOK ==
    ASSUME IInv
    PROVE  /\ t \in TrimLocals /\ IsMap(hashmap, Hashes, DOMAIN pms) /\ ops \in 0..MaxOps
           /\ pms \in Seq(PeerMaps) /\ clock \in Nat
  BY DEF IInv, Types, Heap, Scalars

LEMMA TrimStartOK ==
    ASSUME IInv, TrimStart
    PROVE  IInv'
  <1>1. t' \in TrimLocals /\ t'.pc = "next" /\ t'.obj = t.obj
    BY TrimLocalsOK DEF TrimStart, TrimLocals, IsMap
  <1>2. t.obj = 0
    BY DEF TrimStart, IInv, Trimmer
  <1>3. Trimmer'
    BY <1>1, <1>2 DEF Trimmer
  <1>4. ops' \in 0..MaxOps
    BY TrimLocalsOK, BoundsAssumption DEF TrimStart
  <1>5. Scalars'
    BY <1>4, SameOK DEF TrimStart
  <1>6. QED
    BY <1>1, <1>3, <1>5, TrimLocalsOK, TrimMoveOK DEF TrimStart, heap

LEMMA TrimNextOK ==
    ASSUME IInv, NEW h \in Hashes, TrimNext(h)
    PROVE  IInv'
  <1>1. hashmap[h] \in DOMAIN pms /\ hashmap[h] \in Nat
    BY TrimLocalsOK DEF TrimNext, IsMap
  <1>2. /\ t' \in TrimLocals /\ t'.pc = "lock" /\ t'.obj = t.obj /\ t'.pm = hashmap[h]
    BY <1>1, TrimLocalsOK DEF TrimNext, TrimLocals
  <1>3. t.obj = 0
    BY DEF TrimNext, IInv, Trimmer
  <1>4. Trimmer'
    BY <1>1, <1>2, <1>3 DEF TrimNext, heap, Trimmer
  <1>5. Scalars'
    BY TrimLocalsOK, SameOK DEF TrimNext
  <1>6. QED
    BY <1>2, <1>4, <1>5, TrimLocalsOK, TrimMoveOK DEF TrimNext, heap

LEMMA TrimDoneOK ==
    ASSUME IInv, TrimDone
    PROVE  IInv'
  <1>1. t.obj = 0
    BY DEF TrimDone, IInv, Trimmer
  <1>2. Trimmer'
    BY IdleTrimOK DEF TrimDone, Trimmer
  <1>3. Scalars'
    BY TrimLocalsOK, SameOK DEF TrimDone
  <1>4. QED
    BY <1>1, <1>2, <1>3, TrimLocalsOK, TrimMoveOK, IdleTrimOK DEF TrimDone, heap

LEMMA TrimLockOK ==
    ASSUME IInv, TrimLock
    PROVE  IInv'
  <1>1. t.pm \in DOMAIN pms /\ t.obj = 0
    BY DEF TrimLock, IInv, Trimmer
  <1>2. pms[t.pm].Peers \in Maps
    <2>1. pms[t.pm] \in PeerMaps
      BY <1>1, TrimLocalsOK
    <2>2. QED
      BY <2>1 DEF PeerMaps
  <1>3. DOMAIN pms[t.pm].Peers \subseteq PeerIDs
    BY <1>2 DEF Maps
  <1>4. /\ t' \in TrimLocals /\ t'.pc = "scan" /\ t'.obj = t.obj /\ t'.pm = t.pm
        /\ t'.ids = DOMAIN pms[t.pm].Peers
    BY <1>3, TrimLocalsOK DEF TrimLock, TrimLocals
  <1>5. Trimmer'
    BY <1>1, <1>4 DEF TrimLock, heap, Trimmer
  <1>6. Scalars'
    BY TrimLocalsOK, SameOK DEF TrimLock
  <1>7. QED
    BY <1>4, <1>5, <1>6, TrimLocalsOK, TrimMoveOK DEF TrimLock, heap

LEMMA TrimCheckOK ==
    ASSUME IInv, NEW id \in PeerIDs, TrimCheck(id)
    PROVE  IInv'
  <1> DEFINE a == t.pm
             o == pms[a].Peers[id]
  <1>1. /\ a \in DOMAIN pms /\ t.obj = 0 /\ id \in DOMAIN pms[a].Peers
        /\ t.ids \subseteq DOMAIN pms[a].Peers
    BY DEF TrimCheck, IInv, Trimmer
  <1>2. UNCHANGED <<hashmap, objs, pool, metrics, clock, ops, w>>
    BY DEF TrimCheck
  <1>3. Scalars'
    BY <1>2, TrimLocalsOK, SameOK
  <1>4. CASE t.now - objs[o].LastSeen > Expiry
    <2>1. /\ pms' = [pms EXCEPT ![a] = RemovePeer(@, id, objs[o].Complete)]
          /\ t' = [t EXCEPT !.pc = "gauges", !.obj = o, !.ids = @ \ {id}]
      BY <1>4 DEF TrimCheck
    <2>2. o \in DOMAIN objs /\ o \in Nat /\ o # 0
      BY <1>1, ZeroOK DEF IInv, Pointers, Types, Heap
    <2>3. objs[o].Complete \in BOOLEAN
      <3>1. objs[o] \in Peer
        BY <2>2 DEF IInv, Types, Heap
      <3>2. QED
        BY <3>1 DEF Peer
    <2>4. Removed(a, id)
      BY <1>1, <2>1, <2>3, RemoveOK
    <2>5. /\ o \notin pool
          /\ \A q \in Workers : Drops(q) => w[q].obj # o
      BY <1>1 DEF IInv, Owners, EntryOnly
    <2>6. /\ t' \in TrimLocals /\ t'.pc = "gauges" /\ t'.obj = o /\ t'.pm = a
          /\ t'.ids = t.ids \ {id}
      <3> HIDE DEF o
      <3>1. QED
        BY <2>1, <2>2, TrimLocalsOK DEF TrimLocals
    <2>7. Trimmer'
      BY <1>1, <1>2, <2>2, <2>4, <2>6 DEF Trimmer, Removed
    <2>8. Heap'
      BY <1>2, <2>4 DEF IInv, Types, Heap, Removed
    <2>9. Pointers'
      BY <1>2, <2>4 DEF IInv, Pointers, Removed
    <2>10. Owners'
      <3>1. OneEntry'
        BY <2>4 DEF IInv, Owners, OneEntry, Removed
      <3>2. EntryOnly'
        BY <1>2, <2>4, <2>6 DEF IInv, Owners, EntryOnly, Drops, Removed
      <3>3. OneFreer'
        BY <1>2, <2>5, <2>6 DEF IInv, Owners, OneFreer, Drops
      <3>4. QED
        BY <1>2, <2>5, <2>6, <3>1, <3>2, <3>3 DEF Owners
    <2>11. QED
      BY <1>2, <1>3, <2>4, <2>6, <2>7, <2>8, <2>9, <2>10, TrimStepOK DEF Removed
  <1>5. CASE ~(t.now - objs[o].LastSeen > Expiry)
    <2>1. pms' = pms /\ t' = [t EXCEPT !.ids = @ \ {id}]
      BY <1>5 DEF TrimCheck
    <2>2. /\ t' \in TrimLocals /\ t'.pc = t.pc /\ t'.obj = t.obj /\ t'.pm = a
          /\ t'.ids = t.ids \ {id}
      BY <2>1, TrimLocalsOK DEF TrimLocals
    <2>3. Trimmer'
      BY <1>2, <2>1, <2>2 DEF IInv, Trimmer
    <2>4. QED
      BY <1>2, <1>3, <2>1, <2>2, <2>3, TrimLocalsOK, TrimMoveOK
  <1>6. QED
    BY <1>4, <1>5

LEMMA TrimGaugesOK ==
    ASSUME IInv, TrimGauges
    PROVE  IInv'
  <1>1. /\ t' \in TrimLocals /\ t'.pc = "free" /\ t'.obj = t.obj /\ t'.pm = t.pm
        /\ t'.ids = t.ids
    BY TrimLocalsOK DEF TrimGauges, TrimLocals
  <1>2. Trimmer'
    BY <1>1 DEF TrimGauges, heap, IInv, Trimmer
  <1>3. seeds' \in Int /\ leeches' \in Int
    BY DEF TrimGauges, IInv, Types, Scalars
  <1>4. Scalars'
    BY <1>3 DEF TrimGauges, IInv, Types, Scalars
  <1>5. QED
    BY <1>1, <1>2, <1>4, TrimLocalsOK, TrimMoveOK DEF TrimGauges, heap

LEMMA TrimFreeOK ==
    ASSUME IInv, TrimFree
    PROVE  IInv'
  <1>1. t.obj \in DOMAIN objs /\ objs[t.obj] \in Peer
    BY DEF TrimFree, IInv, Trimmer, Types, Heap
  <1>2. /\ UNCHANGED <<hashmap, pms, objs, seeds, leeches, clock, ops, w>>
        /\ pool' = pool \cup {t.obj} /\ ipstats' = IPRemove(ipstats, objs[t.obj].IP)
        /\ t' = [t EXCEPT !.pc = "scan", !.obj = 0]
    BY DEF TrimFree
  <1>3. /\ t' \in TrimLocals /\ t'.pc = "scan" /\ t'.obj = 0 /\ t'.pm = t.pm /\ t'.ids = t.ids
    BY <1>2, TrimLocalsOK DEF TrimLocals
  <1>4. Trimmer'
    BY <1>2, <1>3 DEF TrimFree, IInv, Trimmer
  <1>5. objs[t.obj].IP \in IPs \cup {None}
    BY <1>1 DEF Peer
  <1>6. DOMAIN ipstats' \subseteq IPs \cup {None}
    BY <1>2, <1>5, StatsOK DEF IInv, Types, Scalars
  <1>7. Scalars'
    BY <1>2, <1>6 DEF IInv, Types, Scalars
  <1>8. Heap'
    BY <1>1, <1>2 DEF IInv, Types, Heap
  <1>9. Pointers'
    BY <1>2 DEF IInv, Pointers
  <1>10. 0 \notin DOMAIN objs
    BY ZeroOK
  <1>11. Owners'
    <2>1. OneEntry'
      BY <1>2 DEF IInv, Owners, OneEntry
    <2>2. EntryOnly'
      BY <1>2, <1>3, <1>10 DEF IInv, Owners, EntryOnly, Drops, Pointers
    <2>3. OneFreer'
      BY <1>2, <1>3 DEF IInv, Owners, OneFreer, Drops
    <2>4. 0 \notin pool'
      BY <1>1, <1>2, <1>10 DEF IInv, Types, Heap
    <2>5. QED
      BY <1>3, <2>1, <2>2, <2>3, <2>4 DEF Owners
  <1>12. QED
    BY <1>2, <1>3, <1>4, <1>7, <1>8, <1>9, <1>11, TrimStepOK

LEMMA TrimUnlockOK ==
    ASSUME IInv, TrimUnlock
    PROVE  IInv'
  <1>1. t' \in TrimLocals /\ t'.pc \in {"drop", "next"} /\ t'.obj = t.obj
    BY TrimLocalsOK DEF TrimUnlock, TrimLocals
  <1>2. Trimmer'
    BY <1>1 DEF TrimUnlock, IInv, Trimmer
  <1>3. Scalars'
    BY TrimLocalsOK, SameOK DEF TrimUnlock
  <1>4. QED
    BY <1>1, <1>2, <1>3, TrimLocalsOK, TrimMoveOK DEF TrimUnlock, heap

LEMMA TrimDropHashOK ==
    ASSUME IInv, TrimDropHash
    PROVE  IInv'
  <1>1. t' \in TrimLocals /\ t'.pc = "next" /\ t'.obj = t.obj
    BY TrimLocalsOK DEF TrimDropHash, TrimLocals
  <1>2. Trimmer'
    BY <1>1 DEF TrimDropHash, IInv, Trimmer
  <1>3. Scalars'
    BY TrimLocalsOK, SameOK DEF TrimDropHash
  <1>4. IsMap(hashmap', Hashes, DOMAIN pms)
    BY TrimLocalsOK DEF TrimDropHash, IsMap, Del
  <1>5. QED
    BY <1>1, <1>2, <1>3, <1>4, TrimMoveOK DEF TrimDropHash

LEMMA TickOK ==
    ASSUME IInv, Tick
    PROVE  IInv'
  <1>1. t' = t /\ w' = w /\ UNCHANGED <<hashmap, pms, objs, pool, seeds, leeches, ipstats, ops>>
    BY DEF Tick, heap, metrics
  <1>2. Scalars'
    BY <1>1, ExpiryAssumption DEF Tick, IInv, Types, Scalars
  <1>3. Trimmer'
    BY <1>1 DEF IInv, Trimmer
  <1>4. QED
    BY <1>1, <1>2, <1>3, TrimLocalsOK, TrimMoveOK

-----------------------------------------------------------------------------
LEMMA InitOK == Init => IInv
  <1> SUFFICES ASSUME Init PROVE IInv
    OBVIOUS
  <1>1. Cardinality(Loaded) \in Nat
    BY SetsAssumption, FS_Subset, FS_CardinalityType
  <1>2. pms \in Seq(PeerMaps) /\ \A a \in DOMAIN pms : DOMAIN pms[a].Peers = {}
    BY <1>1, NewPeerMapOK, EmptyOK DEF Init
  <1>3. objs = <<>> /\ pool = {} /\ objs \in Seq(Peer) /\ DOMAIN objs = {}
    BY DEF Init
  <1>4. IsMap(hashmap, Hashes, DOMAIN pms)
    BY SetsAssumption DEF Init, IsMap
  <1>5. Heap
    BY <1>2, <1>3, <1>4 DEF Heap
  <1>6. Scalars
    BY ExpiryAssumption, BoundsAssumption DEF Init, Scalars, EmptyMap
  <1>7. /\ w \in [Workers -> Locals] /\ \A p \in Workers : w[p] = IdleWorker
        /\ t \in TrimLocals /\ t = IdleTrim
    BY IdleOK, IdleTrimOK DEF Init
  <1>8. \A p \in Workers : Worker(w[p]) /\ ~Drops(p)
    BY <1>7, IdleOK DEF Worker, Drops
  <1>9. Trimmer
    BY <1>7, IdleTrimOK DEF Trimmer
  <1>10. Pointers
    BY <1>2 DEF Pointers
  <1>11. Owners
    BY <1>2, <1>3, <1>8 DEF Owners, OneEntry, EntryOnly, OneFreer
  <1>12. QED
    BY <1>5, <1>6, <1>7, <1>8, <1>9, <1>10, <1>11 DEF IInv, Types

LEMMA NextOK == IInv /\ [Next]_vars => IInv'
  <1> SUFFICES ASSUME IInv, [Next]_vars PROVE IInv'
    OBVIOUS
  <1>1. ASSUME NEW p \in Workers, Request(p) PROVE IInv'
    <2>1. PICK h \in Hashes, id \in PeerIDs :
              \/ \E ip \in IPs, complete \in BOOLEAN : SaveLookup(p, h, id, ip, complete)
              \/ DropLookup(p, h, id)
      BY <1>1, OwnersAssumption DEF Request
    <2>2. QED
      BY <2>1, SaveLookupOK, DropLookupOK
  <1>2. ASSUME NEW p \in Workers, SaveStep(p) PROVE IInv'
    <2>1. CASE SaveUpdate(p)
      BY <2>1, SaveUpdateKnownOK, SaveUpdateNewOK
    <2>2. QED
      BY <1>2, <2>1, SaveMakeOK, SaveFindOK, SaveGaugesOK, SaveIPOK, SaveSwapIPOK,
         SaveWriteCompleteOK, SaveWriteIPOK, SaveWriteSeenOK DEF SaveStep
  <1>3. ASSUME NEW p \in Workers, DropStep(p) PROVE IInv'
    BY <1>3, DropRemoveOK, DropGaugesOK, DropFreeOK DEF DropStep
  <1>4. ASSUME TrimStep PROVE IInv'
    BY <1>4, TrimNextOK, TrimDoneOK, TrimLockOK, TrimCheckOK, TrimGaugesOK, TrimFreeOK,
       TrimUnlockOK, TrimDropHashOK DEF TrimStep
  <1>5. ASSUME UNCHANGED vars PROVE IInv'
    BY <1>5 DEF vars, IInv, Types, Heap, Scalars, Worker, Trimmer, Pointers, Owners, OneEntry,
                EntryOnly, OneFreer, Drops
  <1>6. QED
    BY <1>1, <1>2, <1>3, <1>4, <1>5, TrimStartOK, TickOK DEF Next

LEMMA IInvOK == Spec => []IInv
  BY InitOK, NextOK, PTL DEF Spec

-----------------------------------------------------------------------------
(* Every pointer a worker, trim, the hash map or a peermap uses is to a     *)
(* peermap or a peer that has been allocated.                               *)
THEOREM TypeCorrect == Spec => []TypeOK
  <1>1. IInv => TypeOK
    <2> SUFFICES ASSUME IInv PROVE TypeOK
      OBVIOUS
    <2>1. ASSUME NEW a \in DOMAIN pms
          PROVE  /\ pms[a].Complete \in Int /\ pms[a].Incomplete \in Int
                 /\ IsMap(pms[a].Peers, PeerIDs, DOMAIN objs)
      <3>1. pms[a] \in PeerMaps
        BY DEF IInv, Types, Heap
      <3>2. pms[a].Complete \in Int /\ pms[a].Incomplete \in Int /\ pms[a].Peers \in Maps
        BY <3>1 DEF PeerMaps
      <3>3. IsMap(pms[a].Peers, PeerIDs, Nat)
        BY <3>2, MapsOK
      <3>4. \A i \in DOMAIN pms[a].Peers : pms[a].Peers[i] \in DOMAIN objs
        BY DEF IInv, Pointers
      <3>5. QED
        BY <3>2, <3>3, <3>4 DEF IsMap
    <2>2. ASSUME NEW p \in Workers
          PROVE  /\ \/ w[p] = IdleWorker
                    \/ w[p].op = "save" /\ w[p].pc \in SaveStates
                    \/ w[p].op = "drop" /\ w[p].pc \in DropStates
                 /\ w[p].pc \notin {"idle", "make"} => w[p].pm \in DOMAIN pms
                 /\ w[p].pc \notin {"idle", "make", "find", "update", "remove"} =>
                        w[p].obj \in DOMAIN objs
      BY LocalsOK DEF Worker
    <2>3. t.pc \in {"lock", "scan", "gauges", "free"} => t.pm \in DOMAIN pms
      BY DEF IInv, Trimmer
    <2>4. Heap /\ Scalars
      BY DEF IInv, Types
    <2>5. QED
      BY <2>1, <2>2, <2>3, <2>4 DEF TypeOK, Heap, Scalars
  <1>2. QED
    BY <1>1, IInvOK, PTL

LEMMA AtMostOne ==
    ASSUME NEW S, \A x, y \in S : x = y
    PROVE  Cardinality(S) \in {0, 1}
  <1>1. CASE S = {}
    BY <1>1, FS_EmptySet
  <1>2. CASE S # {}
    <2>1. PICK x : x \in S
      BY <1>2
    <2>2. S = {x}
      BY <2>1
    <2>3. QED
      BY <2>2, FS_Singleton
  <1>3. QED
    BY <1>1, <1>2

(* However Save, Drop and trim interleave, a Peer has at most one owner: an *)
(* entry of a peermap, a goroutine about to free it, or the pool.           *)
THEOREM NoPeerHasTwoOwners == Spec => []NoDoubleFree
  <1>1. IInv => NoDoubleFree
    <2> SUFFICES ASSUME IInv, NEW o \in DOMAIN objs
                 PROVE  /\ Cardinality(HeldBy(o)) + Cardinality(FreedBy(o)) <= 1
                        /\ o \in pool => HeldBy(o) = {} /\ FreedBy(o) = {}
      BY DEF NoDoubleFree
    <2>1. o # 0
      BY ZeroOK
    <2>2. Cardinality(HeldBy(o)) \in {0, 1}
      <3>1. \A x, y \in HeldBy(o) : x = y
        BY DEF HeldBy, IInv, Owners, OneEntry
      <3>2. QED
        BY <3>1, AtMostOne
    <2>3. Cardinality(FreedBy(o)) \in {0, 1}
      <3>1. \A x, y \in FreedBy(o) : x = y
        BY <2>1 DEF FreedBy, IInv, Owners, OneFreer, Drops
      <3>2. QED
        BY <3>1, AtMostOne
    <2>4. HeldBy(o) # {} => FreedBy(o) = {}
      BY DEF HeldBy, FreedBy, IInv, Owners, EntryOnly, Drops
    <2>5. o \in pool => HeldBy(o) = {} /\ FreedBy(o) = {}
      BY <2>1 DEF HeldBy, FreedBy, IInv, Owners, EntryOnly, OneFreer, Drops
    <2>6. QED
      BY <2>2, <2>3, <2>4, <2>5, FS_EmptySet
  <1>2. QED
    BY <1>1, IInvOK, PTL

-----------------------------------------------------------------------------
(* What a step does to the totals of a peermap                              *)

Doubles(a) == {p \in Workers : DoubleInsert(p, a)}

Explained(a) == Drift(pms[a])' = Drift(pms[a]) + Cardinality(Doubles(a))

LEMMA PeersFinite ==
    ASSUME IInv, NEW a \in DOMAIN pms
    PROVE  /\ pms[a] \in PeerMaps /\ pms[a].Complete \in Int /\ pms[a].Incomplete \in Int
           /\ pms[a].Peers \in Maps /\ IsFiniteSet(DOMAIN pms[a].Peers)
           /\ Cardinality(DOMAIN pms[a].Peers) \in Nat
  <1>1. pms[a] \in PeerMaps
    BY DEF IInv, Types, Heap
  <1>2. pms[a].Complete \in Int /\ pms[a].Incomplete \in Int /\ pms[a].Peers \in Maps
    BY <1>1 DEF PeerMaps
  <1>3. DOMAIN pms[a].Peers \in SUBSET PeerIDs
    BY <1>2 DEF Maps
  <1>4. QED
    BY <1>1, <1>2, <1>3, SetsAssumption, FS_Subset, FS_CardinalityType

(* A step that leaves the peermap, and whoever is about to store into one,  *)
(* alone.                                                                   *)
LEMMA QuietOK ==
    ASSUME IInv, NEW a \in DOMAIN pms, pms'[a] = pms[a],
           \A p \in Workers : w[p].pc = "update" /\ w[p].pm = a => w'[p] = w[p]
    PROVE  Explained(a)
  <1>1. Doubles(a) = {}
    BY DEF Doubles, DoubleInsert
  <1>2. Cardinality(Doubles(a)) = 0
    BY <1>1, FS_EmptySet
  <1>3. Drift(pms[a])' = Drift(pms[a])
    BY DEF Drift
  <1>4. Drift(pms[a]) \in Int
    BY PeersFinite DEF Drift
  <1>5. QED
    BY <1>2, <1>3, <1>4 DEF Explained

\* Counters of a peer that leaves go down by one, together
LEMMA GoneOK ==
    ASSUME IInv, NEW a \in DOMAIN pms, NEW id \in DOMAIN pms[a].Peers, NEW c \in BOOLEAN,
           pms' = [pms EXCEPT ![a] = RemovePeer(@, id, c)],
           NEW b \in DOMAIN pms,
           \A p \in Workers : w[p].pc = "update" => w'[p] = w[p]
    PROVE  Explained(b)
  <1>1. CASE b # a
    BY <1>1, QuietOK
  <1>2. CASE b = a
    <2>1. pms'[a] = RemovePeer(pms[a], id, c)
      BY DEF IInv, Types, Heap
    <2> DEFINE D == DOMAIN pms[a].Peers
    <2>2. DOMAIN pms'[a].Peers = D \ {id}
      BY <2>1 DEF RemovePeer, Del
    <2>3. pms'[a].Complete + pms'[a].Incomplete = pms[a].Complete + pms[a].Incomplete - 1
      BY <2>1, PeersFinite DEF RemovePeer
    <2>4. Cardinality(D \ {id}) = Cardinality(D) - 1
      BY PeersFinite, FS_RemoveElement
    <2>5. Doubles(a) = {}
      BY DEF Doubles, DoubleInsert
    <2>6. Cardinality(Doubles(a)) = 0
      BY <2>5, FS_EmptySet
    <2>7. pms'[a].Complete \in Int /\ pms'[a].Incomplete \in Int
      BY <2>1, PeersFinite DEF RemovePeer
    <2>8. Drift(pms[a])' = pms'[a].Complete + pms'[a].Incomplete - Cardinality(D \ {id})
      BY <2>2 DEF Drift
    <2>9. /\ Drift(pms[a]) = pms[a].Complete + pms[a].Incomplete - Cardinality(D)
          /\ Drift(pms[a]) \in Int /\ Cardinality(D) \in Nat
      BY PeersFinite DEF Drift
    <2>10. Drift(pms[a])' = Drift(pms[a])
      BY <2>3, <2>4, <2>7, <2>8, <2>9, PeersFinite
    <2>11. QED
      BY <1>2, <2>6, <2>9, <2>10 DEF Explained
  <1>3. QED
    BY <1>1, <1>2

LEMMA DeltaSum ==
    ASSUME NEW exists \in BOOLEAN, NEW was \in BOOLEAN, NEW now \in BOOLEAN
    PROVE  CompleteDelta(exists, was, now) + IncompleteDelta(exists, was, now) =
               IF exists THEN 0 ELSE 1
  BY DEF CompleteDelta, IncompleteDelta

\* The counters and the peers of a peermap when SaveUpdate stores peer o
Stores(p, was, o) ==
    pms' = [pms EXCEPT ![w[p].pm] =
              [Complete |-> pms[w[p].pm].Complete
                   + CompleteDelta(w[p].exists, was, w[p].complete),
               Incomplete |-> pms[w[p].pm].Incomplete
                   + IncompleteDelta(w[p].exists, was, w[p].complete),
               Peers |-> IF w[p].exists THEN pms[w[p].pm].Peers
                         ELSE Put(pms[w[p].pm].Peers, w[p].id, o)]]

\* The worker at "update" stores into its own peermap, and no other moves
LEMMA StoredOK ==
    ASSUME IInv, NEW p \in Workers, NEW b \in DOMAIN pms, SaveUpdate(p)
    PROVE  Explained(b)
  <1> DEFINE a == w[p].pm
             D == DOMAIN pms[a].Peers
             here == ~w[p].exists /\ w[p].id \in D
  <1>1. /\ a \in DOMAIN pms /\ w[p].complete \in BOOLEAN /\ w[p].exists \in BOOLEAN
        /\ w[p].pc = "update" /\ (w[p].exists => w[p].obj \in DOMAIN objs)
    BY LocalsOK, IdleOK DEF SaveUpdate, Worker, Locals
  <1>2. PICK was \in BOOLEAN : \E o : Stores(p, was, o)
    <2>1. CASE w[p].exists
      <3>1. objs[w[p].obj] \in Peer
        BY <1>1, <2>1 DEF IInv, Types, Heap, SaveUpdate
      <3>2. objs[w[p].obj].Complete \in BOOLEAN
        BY <3>1 DEF Peer
      <3>3. QED
        BY <2>1, <3>2 DEF SaveUpdate, Stores
    <2>2. CASE ~w[p].exists
      BY <2>2 DEF SaveUpdate, Stores
    <2>3. QED
      BY <2>1, <2>2
  <1>3. PICK o : Stores(p, was, o)
    BY <1>2
  <1>4. w'[p].pc # "update" /\ \A q \in Workers \ {p} : w'[q] = w[q]
    <2>1. PICK free : \/ w' = [w EXCEPT ![p].pc = "gauges"]
                      \/ w' = [w EXCEPT ![p].pc = "ip", ![p].obj = free]
      BY DEF SaveUpdate, Goto
    <2>2. w \in [Workers -> Locals] /\ w[p] \in Locals
      BY DEF IInv, Types
    <2>3. CASE w' = [w EXCEPT ![p].pc = "gauges"]
      BY <2>2, <2>3 DEF Locals
    <2>4. CASE w' = [w EXCEPT ![p].pc = "ip", ![p].obj = free]
      BY <2>2, <2>4 DEF Locals
    <2>5. QED
      BY <2>1, <2>3, <2>4
  <1>5. CASE b # a
    BY <1>1, <1>3, <1>4, <1>5, QuietOK DEF Stores
  <1>6. CASE b = a
    <2> DEFINE c == CompleteDelta(w[p].exists, was, w[p].complete)
               d == IncompleteDelta(w[p].exists, was, w[p].complete)
    <2>1. /\ pms'[a].Complete = pms[a].Complete + c /\ pms'[a].Incomplete = pms[a].Incomplete + d
          /\ DOMAIN pms'[a].Peers = IF w[p].exists THEN D ELSE D \cup {w[p].id}
      <3> HIDE DEF c, d
      <3>1. pms'[a] = [Complete |-> pms[a].Complete + c, Incomplete |-> pms[a].Incomplete + d,
                       Peers |-> IF w[p].exists THEN pms[a].Peers
                                 ELSE Put(pms[a].Peers, w[p].id, o)]
        BY <1>1, <1>3 DEF IInv, Types, Heap, Stores, c, d
      <3>2. QED
        BY <3>1 DEF Put
    <2>2. c \in Int /\ d \in Int /\ c + d = IF w[p].exists THEN 0 ELSE 1
      BY <1>1, <1>2, DeltaOK, DeltaSum
    <2>3. Cardinality(DOMAIN pms'[a].Peers) =
             Cardinality(D) + (IF w[p].exists \/ here THEN 0 ELSE 1)
      <3>1. CASE w[p].exists
        BY <2>1, <3>1, <1>1, PeersFinite
      <3>2. CASE ~w[p].exists
        <4>1. Cardinality(D \cup {w[p].id}) =
                 IF w[p].id \in D THEN Cardinality(D) ELSE Cardinality(D) + 1
          BY <1>1, PeersFinite, FS_AddElement
        <4>2. QED
          BY <1>1, <2>1, <3>2, <4>1, PeersFinite
      <3>3. QED
        BY <3>1, <3>2
    <2>4. Doubles(a) = IF here THEN {p} ELSE {}
      BY <1>1, <1>4 DEF Doubles, DoubleInsert
    <2>5. Cardinality(Doubles(a)) = IF here THEN 1 ELSE 0
      BY <2>4, FS_EmptySet, FS_Singleton
    <2>6. Drift(pms[a]) \in Int
      BY <1>1, PeersFinite DEF Drift
    <2> HIDE DEF c, d
    <2>7. QED
      BY <1>1, <1>6, <2>1, <2>2, <2>3, <2>5, PeersFinite DEF Explained, Drift
  <1>7. QED
    BY <1>5, <1>6

\* One worker moves, and not from "update"
LEMMA OthersQuietOK ==
    ASSUME IInv, NEW p \in Workers, NEW l, w' = [w EXCEPT ![p] = l], w[p].pc # "update"
    PROVE  \A q \in Workers : w[q].pc = "update" => w'[q] = w[q]
  BY DEF IInv, Types

LEMMA GotoQuietOK ==
    ASSUME IInv, NEW p \in Workers, NEW c, Goto(p, c) \/ Return(p), w[p].pc # "update"
    PROVE  \A q \in Workers : w[q].pc = "update" => w'[q] = w[q]
  BY DEF Goto, Return, IInv, Types

LEMMA WorkerExplained ==
    ASSUME IInv, NEW p \in Workers, Request(p) \/ SaveStep(p) \/ DropStep(p),
           NEW b \in DOMAIN pms
    PROVE  Explained(b)
  <1>1. CASE Request(p)
    <2>1. pms' = pms /\ w[p].pc # "update" /\ \E l : w' = [w EXCEPT ![p] = l]
      <3>1. PICK h, id :
                \/ \E ip \in IPs, complete \in BOOLEAN : SaveLookup(p, h, id, ip, complete)
                \/ DropLookup(p, h, id)
        BY <1>1 DEF Request
      <3>2. QED
        BY <3>1 DEF SaveLookup, DropLookup, heap
    <2>2. QED
      BY <2>1, OthersQuietOK, QuietOK
  <1>2. CASE SaveMake(p)
    <2>1. pms'[b] = pms[b]
      BY <1>2 DEF SaveMake, IInv, Types, Heap
    <2>2. w[p].pc # "update" /\ \A q \in Workers \ {p} : w'[q] = w[q]
      BY <1>2 DEF SaveMake, IInv, Types
    <2>3. QED
      BY <2>1, <2>2, QuietOK
  <1>3. CASE SaveFind(p)
    <2>1. pms' = pms /\ w[p].pc # "update" /\ \A q \in Workers \ {p} : w'[q] = w[q]
      BY <1>3 DEF SaveFind, heap, IInv, Types
    <2>2. QED
      BY <2>1, QuietOK
  <1>4. CASE SaveUpdate(p)
    BY <1>4, StoredOK
  <1>5. CASE DropRemove(p)
    <2>1. w[p].pc # "update" /\ w[p].pm \in DOMAIN pms
      BY <1>5, LocalsOK, IdleOK DEF DropRemove, Worker
    <2>2. \A q \in Workers \ {p} : w'[q] = w[q]
      BY <1>5 DEF DropRemove, Return, IInv, Types
    <2>3. CASE w[p].id \notin DOMAIN pms[w[p].pm].Peers
      <3>1. pms' = pms
        BY <1>5, <2>3 DEF DropRemove
      <3>2. QED
        BY <2>1, <2>2, <3>1, QuietOK
    <2>4. CASE w[p].id \in DOMAIN pms[w[p].pm].Peers
      <3> DEFINE o == pms[w[p].pm].Peers[w[p].id]
                 c == objs[o].Complete
      <3>1. objs[o] \in Peer
        BY <2>1, <2>4 DEF IInv, Pointers, Types, Heap
      <3>2. c \in BOOLEAN
        BY <3>1 DEF Peer
      <3>3. pms' = [pms EXCEPT ![w[p].pm] = RemovePeer(@, w[p].id, c)]
        BY <1>5, <2>4 DEF DropRemove, Get
      <3> HIDE DEF c
      <3>4. \A q \in Workers : w[q].pc = "update" => w'[q] = w[q]
        BY <2>1, <2>2
      <3>5. QED
        BY <2>1, <2>4, <3>2, <3>3, <3>4, GoneOK
    <2>5. QED
      BY <2>3, <2>4
  <1>6. CASE SaveGauges(p) \/ SaveIP(p) \/ SaveSwapIP(p) \/ SaveWriteComplete(p)
                \/ SaveWriteIP(p) \/ SaveWriteSeen(p) \/ DropGauges(p) \/ DropFree(p)
    <2>1. pms' = pms /\ w[p].pc # "update"
      BY <1>6 DEF SaveGauges, SaveIP, SaveSwapIP, SaveWriteComplete, SaveWriteIP,
                  SaveWriteSeen, DropGauges, DropFree, heap
    <2>2. \E c : Goto(p, c) \/ Return(p)
      BY <1>6 DEF SaveGauges, SaveIP, SaveSwapIP, SaveWriteComplete, SaveWriteIP,
                  SaveWriteSeen, DropGauges, DropFree
    <2>3. QED
      BY <2>1, <2>2, GotoQuietOK, QuietOK
  <1>7. QED
    BY <1>1, <1>2, <1>3, <1>4, <1>5, <1>6 DEF SaveStep, DropStep

LEMMA TrimExplained ==
    ASSUME IInv, TrimStart \/ TrimStep \/ Tick \/ UNCHANGED vars, NEW b \in DOMAIN pms
    PROVE  Explained(b)
  <1>1. w' = w
    BY DEF TrimStart, TrimStep, Tick, vars, TrimNext, TrimDone, TrimLock, TrimCheck, TrimGauges,
           TrimFree, TrimUnlock, TrimDropHash
  <1>2. CASE pms' = pms
    BY <1>1, <1>2, QuietOK
  <1>3. CASE pms' # pms
    <2>1. PICK id \in PeerIDs : TrimCheck(id)
      BY <1>3 DEF TrimStart, TrimStep, Tick, vars, heap, TrimNext, TrimDone, TrimLock, TrimGauges,
                  TrimFree, TrimUnlock, TrimDropHash
    <2> DEFINE o == pms[t.pm].Peers[id]
               c == objs[o].Complete
    <2>2. t.pm \in DOMAIN pms /\ id \in DOMAIN pms[t.pm].Peers
      BY <2>1 DEF TrimCheck, IInv, Trimmer
    <2>3. objs[o] \in Peer
      BY <2>2 DEF IInv, Pointers, Types, Heap
    <2>4. c \in BOOLEAN
      BY <2>3 DEF Peer
    <2>5. pms' = [pms EXCEPT ![t.pm] = RemovePeer(@, id, c)]
      BY <1>3, <2>1 DEF TrimCheck
    <2> HIDE DEF c
    <2>6. QED
      BY <1>1, <2>2, <2>4, <2>5, GoneOK
  <1>4. QED
    BY <1>2, <1>3

(* The counters of a swarm part from its peers in one way only: a Save that *)
(* found no peer stores one over an entry another Save has made meanwhile.  *)
THEOREM DriftIsExplained == Spec => DriftOnlyByDoubleInsert
  <1>1. IInv /\ [Next]_vars =>
          [\A a \in DOMAIN pms :
             Drift(pms[a])' = Drift(pms[a])
                 + Cardinality({p \in Workers : DoubleInsert(p, a)})]_vars
    <2>1. ASSUME IInv, [Next]_vars, NEW b \in DOMAIN pms PROVE Explained(b)
      BY <2>1, WorkerExplained, TrimExplained DEF Next
    <2>2. QED
      BY <2>1 DEF Explained, Doubles
  <1>2. QED
    BY <1>1, IInvOK, PTL DEF Spec, DriftOnlyByDoubleInsert

-----------------------------------------------------------------------------
(* Sums over finite sets, by induction on the number of elements *)

LEMMA LeastElement ==
    ASSUME NEW T \in SUBSET Nat, T # {}
    PROVE  \E n \in T : \A m \in T : n <= m
  <1>1. IsWellFoundedOn(OpToRel(<, Nat), Nat)
    BY NatLessThanWellFounded
  <1> DEFINE R == {ss \in Nat \X Nat : ss[1] < ss[2]}
  <1>2. IsWellFoundedOn(R, Nat)
    BY <1>1 DEF OpToRel
  <1> HIDE DEF R
  <1>3. PICK n \in T : \A m \in T : ~(<<m, n>> \in R)
    BY <1>2, WFMin
  <1>4. \A m \in T : ~(m < n)
    BY <1>3 DEF R
  <1>5. QED
    BY <1>4

\* A finite set has a smallest subset among those that lack a property
LEMMA SmallestSubset ==
    ASSUME NEW S, IsFiniteSet(S), NEW B \in SUBSET SUBSET S, B # {}
    PROVE  \E U \in B : \A V \in B : Cardinality(U) <= Cardinality(V)
  <1>1. \A U \in B : Cardinality(U) \in Nat
    BY FS_Subset, FS_CardinalityType
  <1> DEFINE T == {Cardinality(U) : U \in B}
  <1>2. T \in SUBSET Nat /\ T # {}
    BY <1>1
  <1>3. PICK n \in T : \A m \in T : n <= m
    BY <1>2, LeastElement
  <1>4. QED
    BY <1>3

\* The element a fold takes first
First(S) == CHOOSE x \in S : TRUE

SumStep(f, g, U) == g[U] = IF U = {} THEN 0 ELSE f[First(U)] + g[U \ {First(U)}]

LEMMA FirstOK == \A S : S # {} => First(S) \in S
  BY DEF First

\* The partial sums of f over the subsets of S
LEMMA SumsExist ==
    ASSUME NEW S, IsFiniteSet(S), NEW f, \A x \in S : f[x] \in Int
    PROVE  \E g \in [SUBSET S -> Int] : \A U \in SUBSET S : SumStep(f, g, U)
  <1> DEFINE Small(n) == {U \in SUBSET S : Cardinality(U) <= n}
             Good(n) == \E g \in [Small(n) -> Int] : \A U \in Small(n) : SumStep(f, g, U)
             Bad == {n \in Nat : ~Good(n)}
  <1>1. \A U \in SUBSET S : IsFiniteSet(U) /\ Cardinality(U) \in Nat
    BY FS_Subset, FS_CardinalityType
  <1>2. \A U \in SUBSET S : U # {} => U \ {First(U)} \in SUBSET S
                             /\ Cardinality(U \ {First(U)}) = Cardinality(U) - 1
    BY <1>1, FirstOK, FS_RemoveElement
  <1>3. Good(0)
    <2> DEFINE g == [U \in Small(0) |-> 0]
    <2>1. \A U \in Small(0) : U = {}
      BY <1>1, FS_EmptySet
    <2>2. \A U \in Small(0) : SumStep(f, g, U)
      BY <2>1 DEF SumStep
    <2>3. g \in [Small(0) -> Int]
      OBVIOUS
    <2> HIDE DEF g
    <2>4. QED
      BY <2>2, <2>3
  <1>4. ASSUME NEW n \in Nat, Good(n) PROVE Good(n + 1)
    <2>1. PICK g \in [Small(n) -> Int] : \A U \in Small(n) : SumStep(f, g, U)
      BY <1>4
    <2> DEFINE h == [U \in Small(n + 1) |->
                       IF U = {} THEN 0 ELSE f[First(U)] + g[U \ {First(U)}]]
    <2>2. \A U \in Small(n + 1) : U # {} => U \ {First(U)} \in Small(n)
      BY <1>1, <1>2
    <2>3. \A U \in Small(n) : U \in Small(n + 1) /\ h[U] = g[U]
      <3>1. \A U \in Small(n) : U \in Small(n + 1)
        BY <1>1
      <3>2. \A U \in Small(n) : g[U] = IF U = {} THEN 0 ELSE f[First(U)] + g[U \ {First(U)}]
        BY <2>1 DEF SumStep
      <3>3. QED
        BY <3>1, <3>2
    <2>4. h \in [Small(n + 1) -> Int]
      BY <2>2, FirstOK
    <2>5. \A U \in Small(n + 1) : SumStep(f, h, U)
      BY <2>2, <2>3 DEF SumStep
    <2> HIDE DEF h
    <2>6. QED
      BY <2>4, <2>5
  <1>5. Bad = {}
    <2> HIDE DEF Good
    <2>1. SUFFICES ASSUME Bad # {} PROVE FALSE
      OBVIOUS
    <2>2. PICK n \in Bad : \A m \in Bad : n <= m
      BY <2>1, LeastElement
    <2>3. n \in Nat /\ ~Good(n)
      BY <2>2
    <2>4. n # 0
      BY <1>3, <2>3
    <2>5. n - 1 \in Nat /\ (n - 1) + 1 = n
      BY <2>3, <2>4
    <2>6. Good(n - 1)
      BY <2>2, <2>5
    <2>7. QED
      BY <1>4, <2>3, <2>5, <2>6
  <1>6. Good(Cardinality(S)) /\ Small(Cardinality(S)) = SUBSET S
    <2>1. Cardinality(S) \in Nat
      BY FS_CardinalityType
    <2>2. \A U \in SUBSET S : Cardinality(U) <= Cardinality(S)
      BY FS_Subset
    <2>3. QED
      BY <1>5, <2>1, <2>2
  <1>7. QED
    BY <1>6

\* Partial sums of functions that agree on S agree on every subset of S
LEMMA SumsAgree ==
    ASSUME NEW S, IsFiniteSet(S), NEW f, NEW g, \A x \in S : f[x] = g[x],
           NEW F, NEW G,
           \A U \in SUBSET S : SumStep(f, F, U) /\ SumStep(g, G, U)
    PROVE  \A U \in SUBSET S : F[U] = G[U]
  <1> DEFINE Bad == {U \in SUBSET S : F[U] # G[U]}
  <1>1. \A U \in SUBSET S : U # {} =>
           /\ F[U] = f[First(U)] + F[U \ {First(U)}]
           /\ G[U] = f[First(U)] + G[U \ {First(U)}]
    BY FirstOK DEF SumStep
  <1>2. F[{}] = G[{}]
    BY DEF SumStep
  <1>3. SUFFICES ASSUME Bad # {} PROVE FALSE
    OBVIOUS
  <1>4. PICK U \in Bad : \A V \in Bad : Cardinality(U) <= Cardinality(V)
    <2>1. Bad \in SUBSET SUBSET S
      OBVIOUS
    <2> HIDE DEF Bad
    <2>2. QED
      BY <1>3, <2>1, SmallestSubset
  <1>5. U \in SUBSET S /\ F[U] # G[U] /\ U # {}
    BY <1>2
  <1> DEFINE V == U \ {First(U)}
  <1>6. V \in SUBSET S /\ Cardinality(U) \in Nat /\ Cardinality(V) = Cardinality(U) - 1
    BY <1>5, FirstOK, FS_Subset, FS_RemoveElement, FS_CardinalityType
  <1>7. F[V] = G[V]
    <2>1. V \notin Bad
      <3> HIDE DEF Bad, V
      <3>1. QED
        BY <1>4, <1>6
    <2>2. QED
      BY <1>6, <2>1
  <1>8. QED
    BY <1>1, <1>5, <1>7

\* SumFunctionOnSet(f, S) is the last of the partial sums
LEMMA SumIsPartialSum ==
    ASSUME NEW S, IsFiniteSet(S), NEW f, \A x \in S : f[x] \in Int
    PROVE  \E g \in [SUBSET S -> Int] :
              /\ \A U \in SUBSET S : SumStep(f, g, U)
              /\ SumFunctionOnSet(f, S) = g[S]
  <1> DEFINE Rec(g) == g = [U \in SUBSET S |->
                              IF U = {} THEN 0
                              ELSE f[CHOOSE x \in U : TRUE]
                                     + g[U \ {CHOOSE x \in U : TRUE}]]
             iter == CHOOSE g : Rec(g)
  <1>1. SumFunctionOnSet(f, S) = iter[S]
    BY DEF SumFunctionOnSet, FoldFunctionOnSet, MapThenFoldSet
  <1>2. PICK g \in [SUBSET S -> Int] : \A U \in SUBSET S : SumStep(f, g, U)
    BY SumsExist
  <1>3. Rec(g)
    BY <1>2 DEF SumStep, First
  <1> HIDE DEF Rec
  <1>4. Rec(iter)
    BY <1>3
  <1> HIDE DEF iter
  <1>5. \A U \in SUBSET S : SumStep(f, iter, U)
    BY <1>4 DEF Rec, SumStep, First
  <1>6. \A U \in SUBSET S : SumStep(f, g, U) /\ SumStep(f, iter, U)
    BY <1>2, <1>5
  <1>7. g[S] = iter[S]
    BY <1>6, SumsAgree
  <1>8. QED
    BY <1>1, <1>2, <1>7

LEMMA SumEmpty == ASSUME NEW f PROVE SumFunctionOnSet(f, {}) = 0
  <1>1. PICK g : SumStep(f, g, {}) /\ SumFunctionOnSet(f, {}) = g[{}]
    BY SumIsPartialSum, FS_EmptySet
  <1>2. QED
    BY <1>1 DEF SumStep

\* Functions that agree on S have the same sum over S
LEMMA SumSame ==
    ASSUME NEW S, IsFiniteSet(S), NEW f, NEW g, \A x \in S : f[x] \in Int,
           \A x \in S : f[x] = g[x]
    PROVE  SumFunctionOnSet(f, S) = SumFunctionOnSet(g, S)
  <1>1. PICK F \in [SUBSET S -> Int] :
           (\A U \in SUBSET S : SumStep(f, F, U)) /\ SumFunctionOnSet(f, S) = F[S]
    BY SumIsPartialSum
  <1>2. PICK G \in [SUBSET S -> Int] :
           (\A U \in SUBSET S : SumStep(g, G, U)) /\ SumFunctionOnSet(g, S) = G[S]
    BY SumIsPartialSum
  <1>3. \A U \in SUBSET S : SumStep(f, F, U) /\ SumStep(g, G, U)
    BY <1>1, <1>2
  <1>4. F[S] = G[S]
    BY <1>3, SumsAgree
  <1>5. QED
    BY <1>1, <1>2, <1>4

\* Any element may be taken first
LEMMA SumTake ==
    ASSUME NEW S, IsFiniteSet(S), NEW f, \A x \in S : f[x] \in Int, NEW x \in S
    PROVE  /\ SumFunctionOnSet(f, S) \in Int
           /\ SumFunctionOnSet(f, S) = f[x] + SumFunctionOnSet(f, S \ {x})
  <1>1. PICK F \in [SUBSET S -> Int] :
           (\A U \in SUBSET S : SumStep(f, F, U)) /\ SumFunctionOnSet(f, S) = F[S]
    BY SumIsPartialSum
  <1>2. \A U \in SUBSET S, z \in S : z \in U => F[U] = f[z] + F[U \ {z}]
    <2> DEFINE Bad == {U \in SUBSET S : \E z \in U : F[U] # f[z] + F[U \ {z}]}
    <2>1. SUFFICES ASSUME Bad # {} PROVE FALSE
      OBVIOUS
    <2>2. PICK U \in Bad : \A V \in Bad : Cardinality(U) <= Cardinality(V)
      <3>1. Bad \in SUBSET SUBSET S
        OBVIOUS
      <3> HIDE DEF Bad
      <3>2. QED
        BY <2>1, <3>1, SmallestSubset
    <2>3. PICK z \in U : F[U] # f[z] + F[U \ {z}]
      BY <2>2
    <2>4. PICK y \in U : F[U] = f[y] + F[U \ {y}]
      <3>1. First(U) \in U
        BY <2>3, FirstOK
      <3>2. QED
        BY <1>1, <3>1 DEF SumStep
    <2>5. y # z
      BY <2>3, <2>4
    <2>6. ASSUME NEW v \in U PROVE U \ {v} \notin Bad
      <3> DEFINE V == U \ {v}
      <3>1. Cardinality(V) = Cardinality(U) - 1 /\ Cardinality(U) \in Nat
        BY FS_Subset, FS_RemoveElement, FS_CardinalityType
      <3> HIDE DEF V, Bad
      <3>2. V \notin Bad
        BY <2>2, <3>1
      <3>3. QED
        BY <3>2 DEF V
    <2>7. F[U \ {y}] = f[z] + F[(U \ {y}) \ {z}]
      BY <2>5, <2>6
    <2>8. F[U \ {z}] = f[y] + F[(U \ {z}) \ {y}]
      BY <2>5, <2>6
    <2> DEFINE c == F[(U \ {y}) \ {z}]
    <2>9. F[(U \ {z}) \ {y}] = c
      <3>1. (U \ {z}) \ {y} = (U \ {y}) \ {z}
        OBVIOUS
      <3>2. QED
        BY <3>1
    <2>10. f[y] \in Int /\ f[z] \in Int /\ c \in Int
      OBVIOUS
    <2> HIDE DEF c, Bad
    <2>11. F[U \ {y}] = f[z] + c
      BY <2>7 DEF c
    <2>12. F[U] = f[y] + (f[z] + c) /\ F[U] # f[z] + (f[y] + c)
      BY <2>3, <2>4, <2>8, <2>9, <2>11
    <2>13. QED
      BY <2>10, <2>12
  <1>3. F[S] = f[x] + F[S \ {x}]
    BY <1>2
  <1>4. SumFunctionOnSet(f, S \ {x}) = F[S \ {x}]
    <2>1. IsFiniteSet(S \ {x}) /\ \A z \in S \ {x} : f[z] \in Int
      BY FS_RemoveElement
    <2>2. PICK G \in [SUBSET (S \ {x}) -> Int] :
             /\ \A U \in SUBSET (S \ {x}) : SumStep(f, G, U)
             /\ SumFunctionOnSet(f, S \ {x}) = G[S \ {x}]
      BY <2>1, SumIsPartialSum
    <2>3. \A U \in SUBSET (S \ {x}) : SumStep(f, F, U) /\ SumStep(f, G, U)
      BY <1>1, <2>2
    <2> DEFINE T == S \ {x}
    <2>4. F[T] = G[T]
      <3>1. \A z \in T : f[z] = f[z]
        OBVIOUS
      <3>2. \A U \in SUBSET T : SumStep(f, F, U) /\ SumStep(f, G, U)
        BY <2>3
      <3> HIDE DEF T
      <3>3. \A U \in SUBSET T : F[U] = G[U]
        BY <2>1, <3>1, <3>2, SumsAgree DEF T
      <3>4. QED
        BY <3>3
    <2>5. QED
      BY <2>2, <2>4
  <1>5. QED
    BY <1>1, <1>3, <1>4

LEMMA SumType ==
    ASSUME NEW S, IsFiniteSet(S), NEW f, \A x \in S : f[x] \in Int
    PROVE  SumFunctionOnSet(f, S) \in Int
  <1>1. CASE S = {}
    BY <1>1, SumEmpty
  <1>2. CASE S # {}
    BY <1>2, SumTake
  <1>3. QED
    BY <1>1, <1>2

\* A function that changes in one place
LEMMA SumChange ==
    ASSUME NEW S, IsFiniteSet(S), NEW f, NEW g, \A x \in S : f[x] \in Int,
           \A x \in S : g[x] \in Int, NEW y \in S, \A x \in S \ {y} : g[x] = f[x]
    PROVE  SumFunctionOnSet(g, S) = SumFunctionOnSet(f, S) + (g[y] - f[y])
  <1>1. IsFiniteSet(S \ {y})
    BY FS_RemoveElement
  <1>2. SumFunctionOnSet(f, S \ {y}) = SumFunctionOnSet(g, S \ {y})
    BY <1>1, SumSame
  <1>3. SumFunctionOnSet(f, S \ {y}) \in Int
    BY <1>1, SumType
  <1>4. SumFunctionOnSet(f, S) = f[y] + SumFunctionOnSet(f, S \ {y})
    BY SumTake
  <1>5. SumFunctionOnSet(g, S) = g[y] + SumFunctionOnSet(g, S \ {y})
    BY SumTake
  <1>6. f[y] \in Int /\ g[y] \in Int
    OBVIOUS
  <1>7. QED
    BY <1>2, <1>3, <1>4, <1>5, <1>6

\* A function with one more place
LEMMA SumGrow ==
    ASSUME NEW S, IsFiniteSet(S), NEW f, NEW g, \A x \in S : f[x] \in Int,
           NEW y, y \notin S, g[y] \in Int, \A x \in S : g[x] = f[x]
    PROVE  SumFunctionOnSet(g, S \cup {y}) = SumFunctionOnSet(f, S) + g[y]
  <1> DEFINE T == S \cup {y}
  <1>1. IsFiniteSet(T) /\ y \in T /\ T \ {y} = S /\ \A x \in T : g[x] \in Int
    <2>1. IsFiniteSet(T)
      BY FS_AddElement
    <2>2. QED
      BY <2>1
  <1>2. SumFunctionOnSet(g, T) = g[y] + SumFunctionOnSet(g, S)
    <2> HIDE DEF T
    <2>1. SumFunctionOnSet(g, T) = g[y] + SumFunctionOnSet(g, T \ {y})
      BY <1>1, SumTake
    <2>2. QED
      BY <1>1, <2>1
  <1>3. SumFunctionOnSet(f, S) = SumFunctionOnSet(g, S)
    BY SumSame
  <1>4. SumFunctionOnSet(f, S) \in Int
    BY SumType
  <1> HIDE DEF T
  <1>5. SumFunctionOnSet(g, T) = SumFunctionOnSet(f, S) + g[y]
    BY <1>2, <1>3, <1>4
  <1>6. QED
    BY <1>5 DEF T

LEMMA SumZero ==
    ASSUME NEW S, IsFiniteSet(S), NEW f, \A x \in S : f[x] = 0
    PROVE  SumFunctionOnSet(f, S) = 0
  <1>0. \A x \in S : f[x] \in Int
    OBVIOUS
  <1>1. PICK F \in [SUBSET S -> Int] :
           (\A U \in SUBSET S : SumStep(f, F, U)) /\ SumFunctionOnSet(f, S) = F[S]
    BY <1>0, SumIsPartialSum
  <1> DEFINE G == [U \in SUBSET S |-> 0]
  <1>2. \A U \in SUBSET S : SumStep(f, G, U)
    BY FirstOK DEF SumStep
  <1>3. \A x \in S : f[x] = f[x]
    OBVIOUS
  <1>4. F[S] = G[S]
    <2> HIDE DEF G
    <2>1. \A U \in SUBSET S : SumStep(f, F, U) /\ SumStep(f, G, U)
      BY <1>1, <1>2
    <2>2. \A U \in SUBSET S : F[U] = G[U]
      BY <1>3, <2>1, SumsAgree
    <2>3. QED
      BY <2>2
  <1>5. QED
    BY <1>1, <1>4

-----------------------------------------------------------------------------
(* The gauges and the counters *)

Both(pm) == pm.Complete + pm.Incomplete

OwedMap == [p \in Workers |-> OwedGauges(p)]
Owed == SumFunctionOnSet(OwedMap, Workers)

BothMap == [a \in DOMAIN pms |-> Both(pms[a])]
Total == SumFunctionOnSet(BothMap, DOMAIN pms)

LEMMA GaugesUnfold ==
    GaugesFollowCounters <=>
        seeds + leeches + Owed - (IF t.pc = "gauges" THEN 1 ELSE 0) = Total
  <1>1. DOMAIN OwedMap = Workers /\ DOMAIN BothMap = DOMAIN pms
    BY DEF OwedMap, BothMap
  <1>2. SumFunction(OwedMap) = Owed /\ SumFunction(BothMap) = Total
    BY <1>1 DEF SumFunction, Owed, Total
  <1>3. QED
    BY <1>2 DEF GaugesFollowCounters, OwedMap, BothMap, Both

LEMMA OwedInt == \A p \in Workers : OwedGauges(p) \in Int
  BY DEF OwedGauges

LEMMA OwedMoves ==
    ASSUME NEW p \in Workers, \A q \in Workers \ {p} : w'[q] = w[q]
    PROVE  Owed' = Owed + (OwedGauges(p)' - OwedGauges(p)) /\ Owed \in Int
  <1>1. \A q \in Workers : OwedMap[q] \in Int /\ OwedMap'[q] \in Int
    BY DEF OwedMap, OwedGauges
  <1>2. \A q \in Workers \ {p} : OwedMap'[q] = OwedMap[q]
    BY DEF OwedMap, OwedGauges, OwesGauges, Owes
  <1>3. OwedMap[p] = OwedGauges(p) /\ OwedMap'[p] = OwedGauges(p)'
    BY DEF OwedMap
  <1> DEFINE f == OwedMap
             g == OwedMap'
  <1> HIDE DEF f, g
  <1>4. SumFunctionOnSet(g, Workers) = SumFunctionOnSet(f, Workers) + (g[p] - f[p])
    BY <1>1, <1>2, SumChange, WorkersAssumption DEF f, g
  <1>5. SumFunctionOnSet(f, Workers) \in Int
    BY <1>1, SumType, WorkersAssumption DEF f
  <1>6. QED
    BY <1>3, <1>4, <1>5 DEF Owed, f, g

LEMMA OwedKept == w' = w => Owed' = Owed
  BY DEF Owed, OwedMap, OwedGauges, OwesGauges, Owes

LEMMA BothOK ==
    ASSUME NEW s \in Seq(PeerMaps)
    PROVE  IsFiniteSet(DOMAIN s) /\ \A a \in DOMAIN s : Both(s[a]) \in Int
  <1>1. \A a \in DOMAIN s : s[a] \in PeerMaps
    OBVIOUS
  <1>2. DOMAIN s = 1..Len(s) /\ Len(s) \in Nat
    OBVIOUS
  <1>3. IsFiniteSet(DOMAIN s)
    BY <1>2, FS_Interval
  <1>4. QED
    BY <1>1, <1>3 DEF PeerMaps, Both

LEMMA TotalInt == IInv => Total \in Int
  <1>1. SUFFICES ASSUME IInv PROVE Total \in Int
    OBVIOUS
  <1>2. \A a \in DOMAIN pms : BothMap[a] \in Int
    BY <1>1, BothOK DEF BothMap, IInv, Types, Heap
  <1>3. IsFiniteSet(DOMAIN pms)
    BY <1>1, BothOK DEF IInv, Types, Heap
  <1> DEFINE f == BothMap
             S == DOMAIN pms
  <1>4. \A a \in S : f[a] \in Int
    BY <1>2
  <1> HIDE DEF f, S
  <1>5. SumFunctionOnSet(f, S) \in Int
    BY <1>3, <1>4, SumType DEF S
  <1>6. QED
    BY <1>5 DEF Total, f, S

LEMMA TotalMoves ==
    ASSUME IInv, IInv', DOMAIN pms' = DOMAIN pms, NEW a \in DOMAIN pms,
           \A b \in DOMAIN pms \ {a} : pms'[b] = pms[b]
    PROVE  Total' = Total + (Both(pms'[a]) - Both(pms[a]))
  <1> DEFINE f == BothMap
             g == BothMap'
             S == DOMAIN pms
  <1>0. pms \in Seq(PeerMaps) /\ pms' \in Seq(PeerMaps)
    BY DEF IInv, Types, Heap
  <1>1. /\ \A b \in S : f[b] \in Int /\ g[b] \in Int
        /\ f[a] = Both(pms[a]) /\ g[a] = Both(pms'[a])
    BY <1>0, BothOK DEF BothMap
  <1>2. \A b \in S \ {a} : g[b] = f[b]
    BY DEF BothMap
  <1>3. IsFiniteSet(S) /\ a \in S
    BY <1>0, BothOK
  <1>4. Total = SumFunctionOnSet(f, S) /\ Total' = SumFunctionOnSet(g, S)
    BY DEF Total
  <1> HIDE DEF f, g, S
  <1>5. SumFunctionOnSet(g, S) = SumFunctionOnSet(f, S) + (g[a] - f[a])
    BY <1>1, <1>2, <1>3, SumChange
  <1>6. QED
    BY <1>1, <1>4, <1>5

LEMMA TotalGrows ==
    ASSUME IInv, pms' = Append(pms, NewPeerMap)
    PROVE  Total' = Total
  <1> DEFINE f == BothMap
             g == BothMap'
             S == DOMAIN pms
             y == Len(pms) + 1
  <1>1. pms \in Seq(PeerMaps) /\ Len(pms) \in Nat /\ S = 1..Len(pms)
    BY DEF IInv, Types, Heap
  <1>2. DOMAIN pms' = S \cup {y} /\ (\A b \in S : pms'[b] = pms[b]) /\ pms'[y] = NewPeerMap
        /\ y \notin S
    BY <1>1
  <1>3. /\ \A b \in S : f[b] \in Int /\ g[b] = f[b]
        /\ g[y] = 0 /\ IsFiniteSet(S)
    BY <1>1, <1>2, BothOK DEF BothMap, Both, NewPeerMap
  <1>4. Total = SumFunctionOnSet(f, S) /\ Total' = SumFunctionOnSet(g, S \cup {y})
    BY <1>2 DEF Total
  <1> HIDE DEF f, g, S, y
  <1>5. SumFunctionOnSet(g, S \cup {y}) = SumFunctionOnSet(f, S) + g[y]
    BY <1>2, <1>3, SumGrow
  <1>6. SumFunctionOnSet(f, S) \in Int
    BY <1>3, SumType
  <1>7. QED
    BY <1>3, <1>4, <1>5, <1>6

\* What a step of worker p moves, it moves on both sides
LEMMA BalanceOK ==
    ASSUME IInv, GaugesFollowCounters, NEW p \in Workers, \A q \in Workers \ {p} : w'[q] = w[q],
           t' = t, seeds' \in Int, leeches' \in Int, NEW d \in Int, Total' = Total + d,
           seeds' + leeches' + OwedGauges(p)' = seeds + leeches + OwedGauges(p) + d
    PROVE  GaugesFollowCounters'
  <1> DEFINE T == IF t.pc = "gauges" THEN 1 ELSE 0
  <1>1. seeds + leeches + Owed - T = Total
    BY GaugesUnfold
  <1>2. Owed' = Owed + (OwedGauges(p)' - OwedGauges(p)) /\ Owed \in Int
    BY OwedMoves
  <1>3. Total \in Int /\ seeds \in Int /\ leeches \in Int /\ T \in Int
    BY TotalInt DEF IInv, Types, Scalars
  <1>4. OwedGauges(p) \in Int /\ OwedGauges(p)' \in Int
    BY DEF OwedGauges
  <1>5. T' = T
    OBVIOUS
  <1> HIDE DEF T
  <1>6. seeds' + leeches' + Owed' - T = Total'
    BY <1>1, <1>2, <1>3, <1>4
  <1>7. (GaugesFollowCounters <=>
           seeds + leeches + Owed - T = Total)'
    BY GaugesUnfold, PTL DEF T
  <1>8. QED
    BY <1>5, <1>6, <1>7

\* A step that leaves the counters and the gauges, and p owing what it owed
LEMMA AsideOK ==
    ASSUME IInv, GaugesFollowCounters, NEW p \in Workers, \A q \in Workers \ {p} : w'[q] = w[q],
           t' = t, UNCHANGED <<pms, seeds, leeches>>, OwedGauges(p)' = OwedGauges(p)
    PROVE  GaugesFollowCounters'
  <1>1. Total' = Total + 0
    BY TotalInt DEF Total, BothMap
  <1>2. seeds' \in Int /\ leeches' \in Int
    BY DEF IInv, Types, Scalars
  <1>3. seeds' + leeches' + OwedGauges(p)' = seeds + leeches + OwedGauges(p) + 0
    BY DEF IInv, Types, Scalars, OwedGauges
  <1>4. QED
    BY <1>1, <1>2, <1>3, BalanceOK

LEMMA RequestBalance ==
    ASSUME IInv, GaugesFollowCounters, NEW p \in Workers, Request(p)
    PROVE  GaugesFollowCounters'
  <1>1. PICK h, id :
            \/ \E ip \in IPs, complete \in BOOLEAN : SaveLookup(p, h, id, ip, complete)
            \/ DropLookup(p, h, id)
    BY DEF Request
  <1>2. UNCHANGED <<pms, seeds, leeches, t>> /\ w[p].pc = "idle"
    BY <1>1 DEF SaveLookup, DropLookup, heap, metrics
  <1>3. w'[p].pc \in {"find", "make", "remove"} /\ \A q \in Workers \ {p} : w'[q] = w[q]
    <2>1. w \in [Workers -> Locals]
      BY DEF IInv, Types
    <2>2. CASE DropLookup(p, h, id)
      BY <2>1, <2>2 DEF DropLookup, IdleWorker
    <2>3. ASSUME NEW ip, NEW complete, SaveLookup(p, h, id, ip, complete)
          PROVE  w'[p].pc \in {"find", "make"} /\ \A q \in Workers \ {p} : w'[q] = w[q]
      BY <2>1, <2>3 DEF SaveLookup, IdleWorker
    <2>4. QED
      BY <1>1, <2>2, <2>3
  <1>4. OwedGauges(p) = 0 /\ OwedGauges(p)' = 0
    BY <1>2, <1>3 DEF OwedGauges, OwesGauges, Owes
  <1>5. QED
    BY <1>2, <1>3, <1>4, AsideOK

LEMMA QuietBalance ==
    ASSUME IInv, GaugesFollowCounters, NEW p \in Workers,
           \/ SaveFind(p) \/ SaveIP(p) \/ SaveSwapIP(p) \/ SaveWriteComplete(p)
           \/ SaveWriteIP(p) \/ SaveWriteSeen(p) \/ DropFree(p)
    PROVE  GaugesFollowCounters'
  <1>1. UNCHANGED <<pms, seeds, leeches, t>>
    BY DEF SaveFind, SaveIP, SaveSwapIP, SaveWriteComplete, SaveWriteIP, SaveWriteSeen, DropFree,
           heap, metrics
  <1>2. \A q \in Workers \ {p} : w'[q] = w[q]
    BY DEF SaveFind, SaveIP, SaveSwapIP, SaveWriteComplete, SaveWriteIP, SaveWriteSeen, DropFree,
           Goto, Return, IInv, Types
  <1>3. OwedGauges(p)' = OwedGauges(p)
    <2>1. w[p] \in Locals /\ w \in [Workers -> Locals]
      BY DEF IInv, Types
    <2>2. CASE SaveIP(p)
      <3>1. w[p].pc = "ip" /\ w[p].op = "save" /\ w'[p].op = "save" /\ w'[p].exists = w[p].exists
            /\ w'[p].pc \in (IF w[p].exists THEN {"write", "swap"} ELSE {"gauges"})
        BY <2>1, <2>2 DEF SaveIP, Goto, Locals
      <3>2. QED
        BY <3>1 DEF OwedGauges, OwesGauges, Owes
    <2>3. CASE ~SaveIP(p)
      <3>1. w[p].pc \notin {"gauges", "ip"}
        BY <2>3 DEF SaveFind, SaveSwapIP, SaveWriteComplete, SaveWriteIP, SaveWriteSeen, DropFree
      <3>2. w'[p].pc \in {"update", "write", "writeIP", "writeSeen", "idle"}
        <4>1. CASE SaveFind(p)
          BY <2>1, <4>1 DEF SaveFind, Locals
        <4>2. CASE SaveSwapIP(p) \/ SaveWriteComplete(p) \/ SaveWriteIP(p)
          BY <2>1, <4>2 DEF SaveSwapIP, SaveWriteComplete, SaveWriteIP, Goto, Locals
        <4>3. CASE SaveWriteSeen(p) \/ DropFree(p)
          BY <2>1, <4>3, IdleOK DEF SaveWriteSeen, DropFree, Return
        <4>4. QED
          BY <2>3, <4>1, <4>2, <4>3
      <3>3. QED
        BY <3>1, <3>2 DEF OwedGauges, OwesGauges, Owes
    <2>4. QED
      BY <2>2, <2>3
  <1>4. QED
    BY <1>1, <1>2, <1>3, AsideOK

LEMMA MakeBalance ==
    ASSUME IInv, GaugesFollowCounters, NEW p \in Workers, SaveMake(p)
    PROVE  GaugesFollowCounters'
  <1>1. UNCHANGED <<seeds, leeches, t>> /\ w[p].pc = "make" /\ w'[p].pc = "find"
    BY DEF SaveMake, metrics, IInv, Types, Locals
  <1>2. \A q \in Workers \ {p} : w'[q] = w[q]
    BY DEF SaveMake, IInv, Types
  <1>3. Total' = Total + 0
    BY TotalGrows, TotalInt DEF SaveMake
  <1>4. OwedGauges(p) = 0 /\ OwedGauges(p)' = 0
    BY <1>1 DEF OwedGauges, OwesGauges, Owes
  <1>5. /\ seeds' \in Int /\ leeches' \in Int
        /\ seeds' + leeches' + OwedGauges(p)' = seeds + leeches + OwedGauges(p) + 0
    BY <1>1, <1>4 DEF IInv, Types, Scalars
  <1>6. QED
    BY <1>1, <1>2, <1>3, <1>5, BalanceOK

LEMMA UpdateBalance ==
    ASSUME IInv, IInv', GaugesFollowCounters, NEW p \in Workers, SaveUpdate(p)
    PROVE  GaugesFollowCounters'
  <1> DEFINE a == w[p].pm
             d == IF w[p].exists THEN 0 ELSE 1
  <1>1. /\ a \in DOMAIN pms /\ w[p].complete \in BOOLEAN /\ w[p].exists \in BOOLEAN
        /\ w[p].pc = "update" /\ (w[p].exists => w[p].obj \in DOMAIN objs)
    BY LocalsOK, IdleOK DEF SaveUpdate, Worker, Locals
  <1>2. w[p].op = "save"
    BY <1>1, LocalsOK, IdleOK DEF Worker, DropStates
  <1>3. PICK was \in BOOLEAN : \E o : Stores(p, was, o)
    <2>1. CASE w[p].exists
      <3>1. objs[w[p].obj] \in Peer
        BY <1>1, <2>1 DEF IInv, Types, Heap
      <3>2. objs[w[p].obj].Complete \in BOOLEAN
        BY <3>1 DEF Peer
      <3>3. QED
        BY <2>1, <3>2 DEF SaveUpdate, Stores
    <2>2. CASE ~w[p].exists
      BY <2>2 DEF SaveUpdate, Stores
    <2>3. QED
      BY <2>1, <2>2
  <1>4. PICK o : Stores(p, was, o)
    BY <1>3
  <1>5. /\ \A q \in Workers \ {p} : w'[q] = w[q]
        /\ w'[p].op = "save" /\ w'[p].exists = w[p].exists
        /\ w'[p].pc = IF w[p].exists THEN "gauges" ELSE "ip"
    <2>1. w \in [Workers -> Locals] /\ w[p] \in Locals
      BY DEF IInv, Types
    <2>2. CASE w[p].exists
      <3>1. w' = [w EXCEPT ![p].pc = "gauges"]
        BY <2>2 DEF SaveUpdate, Goto
      <3>2. QED
        BY <1>2, <2>1, <2>2, <3>1 DEF Locals
    <2>3. CASE ~w[p].exists
      <3>1. PICK x : w' = [w EXCEPT ![p].pc = "ip", ![p].obj = x]
        BY <2>3 DEF SaveUpdate
      <3>2. QED
        BY <1>2, <2>1, <2>3, <3>1 DEF Locals
    <2>4. QED
      BY <2>2, <2>3
  <1>6. OwedGauges(p) = 0 /\ OwedGauges(p)' = d
    BY <1>1, <1>5 DEF OwedGauges, OwesGauges, Owes
  <1>7. Both(pms'[a]) = Both(pms[a]) + d
    <2> DEFINE c == CompleteDelta(w[p].exists, was, w[p].complete)
               e == IncompleteDelta(w[p].exists, was, w[p].complete)
    <2>1. c + e = d /\ c \in Int /\ e \in Int
      BY <1>1, DeltaSum DEF CompleteDelta, IncompleteDelta
    <2> HIDE DEF c, e, d
    <2>2. pms'[a].Complete = pms[a].Complete + c /\ pms'[a].Incomplete = pms[a].Incomplete + e
      BY <1>1, <1>4 DEF IInv, Types, Heap, Stores, c, e
    <2>3. pms[a].Complete \in Int /\ pms[a].Incomplete \in Int
      BY <1>1, PeersFinite
    <2>4. QED
      BY <2>1, <2>2, <2>3 DEF Both
  <1>8. Both(pms[a]) \in Int /\ d \in Int
    BY <1>1, PeersFinite DEF Both
  <1>9. Total' = Total + d
    <2>1. DOMAIN pms' = DOMAIN pms /\ \A b \in DOMAIN pms \ {a} : pms'[b] = pms[b]
      BY <1>4 DEF Stores, IInv, Types, Heap
    <2>2. Total' = Total + (Both(pms'[a]) - Both(pms[a]))
      BY <1>1, <2>1, TotalMoves
    <2> HIDE DEF d
    <2>3. QED
      BY <1>7, <1>8, <2>2
  <1>10. UNCHANGED <<seeds, leeches, t>>
    BY DEF SaveUpdate, metrics
  <1>11. /\ seeds' \in Int /\ leeches' \in Int
         /\ seeds' + leeches' + OwedGauges(p)' = seeds + leeches + OwedGauges(p) + d
    BY <1>6, <1>8, <1>10 DEF IInv, Types, Scalars
  <1> HIDE DEF d
  <1>12. QED
    BY <1>5, <1>8, <1>9, <1>10, <1>11, BalanceOK

LEMMA GaugesBalance ==
    ASSUME IInv, IInv', GaugesFollowCounters, NEW p \in Workers, SaveGauges(p) \/ DropGauges(p)
    PROVE  GaugesFollowCounters'
  <1> DEFINE was == objs[w[p].obj].Complete
  <1>1. /\ w[p] \in Locals /\ w \in [Workers -> Locals] /\ w[p].pc = "gauges"
        /\ seeds \in Int /\ leeches \in Int
    BY DEF SaveGauges, DropGauges, IInv, Types, Scalars
  <1>2. w[p].obj \in DOMAIN objs
    BY <1>1, LocalsOK, IdleOK DEF Worker
  <1>3. was \in BOOLEAN /\ w[p].exists \in BOOLEAN /\ w[p].complete \in BOOLEAN
    <2>1. objs[w[p].obj] \in Peer
      BY <1>2 DEF IInv, Types, Heap
    <2>2. QED
      BY <1>1, <2>1 DEF Peer, Locals
  <1> HIDE DEF was
  <1>4. Total' = Total + 0
    BY TotalInt DEF Total, BothMap, SaveGauges, DropGauges, heap
  <1>5. t' = t /\ \A q \in Workers \ {p} : w'[q] = w[q]
    BY <1>1 DEF SaveGauges, DropGauges, Goto
  <1>6. w'[p].pc \in {"ip", "write", "free"} /\ w'[p].op = w[p].op /\ w'[p].exists = w[p].exists
        /\ (w'[p].pc = "ip" => w[p].exists)
    BY <1>1 DEF SaveGauges, DropGauges, Goto, Locals
  <1>7. OwedGauges(p)' = 0
    BY <1>6 DEF OwedGauges, OwesGauges, Owes
  <1>8. /\ seeds' \in Int /\ leeches' \in Int
        /\ seeds' + leeches' + OwedGauges(p)' = seeds + leeches + OwedGauges(p) + 0
    <2>1. CASE SaveGauges(p)
      <3> DEFINE c == CompleteDelta(w[p].exists, was, w[p].complete)
                 e == IncompleteDelta(w[p].exists, was, w[p].complete)
      <3>1. c + e = (IF w[p].exists THEN 0 ELSE 1) /\ c \in Int /\ e \in Int
        BY <1>3, DeltaSum DEF CompleteDelta, IncompleteDelta
      <3>2. seeds' = seeds + c /\ leeches' = leeches + e /\ w[p].op = "save"
        BY <2>1 DEF SaveGauges, was
      <3>3. OwedGauges(p) = IF w[p].exists THEN 0 ELSE 1
        BY <1>1, <3>2 DEF OwedGauges, OwesGauges, Owes
      <3> HIDE DEF c, e
      <3>4. QED
        BY <1>1, <1>7, <3>1, <3>2, <3>3
    <2>2. CASE DropGauges(p)
      <3>1. /\ seeds' = seeds - (IF was THEN 1 ELSE 0)
            /\ leeches' = leeches - (IF was THEN 0 ELSE 1) /\ w[p].op = "drop"
        BY <2>2 DEF DropGauges, was
      <3>2. OwedGauges(p) = -1
        BY <1>1, <3>1 DEF OwedGauges, OwesGauges, Owes
      <3>3. QED
        BY <1>1, <1>7, <3>1, <3>2
    <2>3. QED
      BY <2>1, <2>2
  <1>9. QED
    BY <1>4, <1>5, <1>8, BalanceOK

\* A peer that leaves a peermap takes one from its counters
LEMMA TotalFalls ==
    ASSUME IInv, IInv', NEW a \in DOMAIN pms, NEW id, NEW c \in BOOLEAN,
           pms' = [pms EXCEPT ![a] = RemovePeer(@, id, c)]
    PROVE  Total' = Total - 1
  <1>1. DOMAIN pms' = DOMAIN pms /\ \A b \in DOMAIN pms \ {a} : pms'[b] = pms[b]
    BY DEF IInv, Types, Heap
  <1>2. pms'[a] = RemovePeer(pms[a], id, c)
    BY DEF IInv, Types, Heap
  <1>3. Both(pms'[a]) = Both(pms[a]) - 1 /\ Both(pms[a]) \in Int
    BY <1>2, PeersFinite DEF RemovePeer, Both
  <1>4. Total' = Total + (Both(pms'[a]) - Both(pms[a]))
    BY <1>1, TotalMoves
  <1>5. QED
    BY <1>3, <1>4, TotalInt

LEMMA RemoveBalance ==
    ASSUME IInv, IInv', GaugesFollowCounters, NEW p \in Workers, DropRemove(p)
    PROVE  GaugesFollowCounters'
  <1> DEFINE a == w[p].pm
             o == pms[a].Peers[w[p].id]
             c == objs[o].Complete
  <1>1. w[p].pc = "remove" /\ w[p].op = "drop" /\ a \in DOMAIN pms
        /\ w \in [Workers -> Locals] /\ w[p] \in Locals
    BY LocalsOK, IdleOK DEF DropRemove, Worker, SaveStates, IInv, Types
  <1>2. UNCHANGED <<seeds, leeches, t>> /\ OwedGauges(p) = 0
    BY <1>1 DEF DropRemove, metrics, OwedGauges, OwesGauges, Owes
  <1>3. \A q \in Workers \ {p} : w'[q] = w[q]
    BY <1>1 DEF DropRemove, Return
  <1>4. CASE w[p].id \notin DOMAIN pms[a].Peers
    <2>1. pms' = pms /\ w'[p] = IdleWorker
      BY <1>1, <1>4 DEF DropRemove, Return
    <2>2. OwedGauges(p)' = 0
      BY <2>1, IdleOK DEF OwedGauges, OwesGauges, Owes
    <2>3. QED
      BY <1>2, <1>3, <2>1, <2>2, AsideOK
  <1>5. CASE w[p].id \in DOMAIN pms[a].Peers
    <2>1. objs[o] \in Peer
      BY <1>1, <1>5 DEF IInv, Pointers, Types, Heap
    <2>2. c \in BOOLEAN
      BY <2>1 DEF Peer
    <2>3. pms' = [pms EXCEPT ![a] = RemovePeer(@, w[p].id, c)]
      BY <1>5 DEF DropRemove, Get
    <2>4. w'[p].pc = "gauges" /\ w'[p].op = "drop"
      BY <1>1, <1>5 DEF DropRemove, Locals
    <2>5. OwedGauges(p)' = -1
      BY <2>4 DEF OwedGauges, OwesGauges, Owes
    <2> HIDE DEF c
    <2>6. Total' = Total + (-1)
      BY <1>1, <2>2, <2>3, TotalFalls, TotalInt
    <2>7. /\ seeds' \in Int /\ leeches' \in Int
          /\ seeds' + leeches' + OwedGauges(p)' = seeds + leeches + OwedGauges(p) + (-1)
      BY <1>2, <2>5 DEF IInv, Types, Scalars
    <2>8. QED
      BY <1>2, <1>3, <2>6, <2>7, BalanceOK
  <1>6. QED
    BY <1>4, <1>5

LEMMA TrimBalance ==
    ASSUME IInv, IInv', GaugesFollowCounters,
           TrimStart \/ TrimStep \/ Tick \/ UNCHANGED vars
    PROVE  GaugesFollowCounters'
  <1> DEFINE T == IF t.pc = "gauges" THEN 1 ELSE 0
  <1>1. w' = w
    BY DEF TrimStart, TrimStep, Tick, vars, TrimNext, TrimDone, TrimLock, TrimCheck, TrimGauges,
           TrimFree, TrimUnlock, TrimDropHash
  <1>2. seeds + leeches + Owed - T = Total
    BY GaugesUnfold
  <1>3. Owed \in Int /\ Total \in Int /\ seeds \in Int /\ leeches \in Int
    <2>1. \A p \in Workers : OwedMap[p] \in Int
      BY OwedInt DEF OwedMap
    <2> DEFINE f == OwedMap
    <2>2. \A p \in Workers : f[p] \in Int
      BY <2>1
    <2> HIDE DEF f
    <2>3. SumFunctionOnSet(f, Workers) \in Int
      BY <2>2, SumType, WorkersAssumption
    <2>4. QED
      BY <2>3, TotalInt DEF Owed, f, IInv, Types, Scalars
  <1>4. t \in TrimLocals
    BY DEF IInv, Types
  <1>5. seeds' + leeches' + Owed - T' = Total'
    <2>1. CASE TrimGauges
      <3>1. T = 1 /\ T' = 0
        BY <1>4, <2>1 DEF TrimGauges, TrimLocals
      <3>2. Total' = Total
        BY <2>1 DEF TrimGauges, heap, Total, BothMap
      <3>3. t.obj \in DOMAIN objs
        BY <2>1 DEF TrimGauges, IInv, Trimmer
      <3>4. objs[t.obj].Complete \in BOOLEAN
        <4>1. objs[t.obj] \in Peer
          BY <3>3 DEF IInv, Types, Heap
        <4>2. QED
          BY <4>1 DEF Peer
      <3>5. seeds' + leeches' = seeds + leeches - 1
        BY <1>3, <2>1, <3>4 DEF TrimGauges
      <3>6. seeds' \in Int /\ leeches' \in Int
        BY <1>3, <2>1 DEF TrimGauges
      <3> HIDE DEF T
      <3>7. seeds + leeches + Owed - 1 = Total
        BY <1>2, <3>1
      <3> DEFINE m == seeds + leeches
                 n == seeds' + leeches'
      <3>8. n + Owed - 0 = Total
        <4>1. m \in Int /\ n = m - 1 /\ m + Owed - 1 = Total
          BY <1>3, <3>5, <3>7
        <4> HIDE DEF m, n
        <4>2. QED
          BY <1>3, <4>1
      <3>9. QED
        BY <3>1, <3>2, <3>8
    <2>2. CASE pms' = pms /\ ~TrimGauges
      <3>1. UNCHANGED <<seeds, leeches>>
        BY <2>2 DEF TrimStart, TrimStep, Tick, vars, metrics, TrimNext, TrimDone, TrimLock,
                    TrimCheck, TrimFree, TrimUnlock, TrimDropHash
      <3>2. Total' = Total
        BY <2>2 DEF Total, BothMap
      <3>3. T' = T
        <4>1. CASE TrimStart \/ TrimDone \/ TrimLock \/ TrimFree \/ TrimUnlock \/ TrimDropHash
          BY <1>4, <4>1, IdleTrimOK DEF TrimStart, TrimDone, TrimLock, TrimFree, TrimUnlock,
                                        TrimDropHash, TrimLocals
        <4>2. CASE \E h \in Hashes : TrimNext(h)
          BY <1>4, <4>2 DEF TrimNext, TrimLocals
        <4>3. ASSUME NEW id \in PeerIDs, TrimCheck(id) PROVE T' = T
          <5>1. t.pc = "scan"
            BY <4>3 DEF TrimCheck
          <5>2. CASE t' = [t EXCEPT !.ids = @ \ {id}]
            BY <1>4, <5>1, <5>2 DEF TrimLocals
          <5>3. CASE pms' = [pms EXCEPT ![t.pm] =
                               RemovePeer(@, id, objs[pms[t.pm].Peers[id]].Complete)]
            <6>1. t.pm \in DOMAIN pms /\ id \in DOMAIN pms[t.pm].Peers
              BY <4>3 DEF TrimCheck, IInv, Trimmer
            <6>2. DOMAIN pms'[t.pm].Peers = DOMAIN pms[t.pm].Peers \ {id}
              BY <5>3, <6>1 DEF RemovePeer, Del, IInv, Types, Heap
            <6>3. QED
              BY <2>2, <6>1, <6>2
          <5>4. QED
            BY <4>3, <5>2, <5>3 DEF TrimCheck
        <4>4. CASE Tick \/ UNCHANGED vars
          BY <4>4 DEF Tick, vars
        <4>5. QED
          BY <2>2, <4>1, <4>2, <4>3, <4>4 DEF TrimStep
      <3> HIDE DEF T
      <3>4. QED
        BY <1>2, <3>1, <3>2, <3>3
    <2>3. CASE pms' # pms
      <3>1. PICK id \in PeerIDs : TrimCheck(id)
        BY <2>3 DEF TrimStart, TrimStep, Tick, vars, heap, TrimNext, TrimDone, TrimLock,
                    TrimGauges, TrimFree, TrimUnlock, TrimDropHash
      <3> DEFINE o == pms[t.pm].Peers[id]
                 c == objs[o].Complete
      <3>2. t.pm \in DOMAIN pms /\ id \in DOMAIN pms[t.pm].Peers
        BY <3>1 DEF TrimCheck, IInv, Trimmer
      <3>3. objs[o] \in Peer
        BY <3>2 DEF IInv, Pointers, Types, Heap
      <3>4. c \in BOOLEAN
        BY <3>3 DEF Peer
      <3>5. pms' = [pms EXCEPT ![t.pm] = RemovePeer(@, id, c)] /\ UNCHANGED <<seeds, leeches>>
        BY <2>3, <3>1 DEF TrimCheck, metrics
      <3>6. T = 0 /\ T' = 1
        BY <1>4, <2>3, <3>1 DEF TrimCheck, TrimLocals
      <3> HIDE DEF c, T
      <3>7. Total' = Total - 1
        BY <3>2, <3>4, <3>5, TotalFalls
      <3>8. QED
        BY <1>2, <1>3, <3>5, <3>6, <3>7
    <2>4. QED
      BY <2>1, <2>2, <2>3
  <1>6. Owed' = Owed
    BY <1>1, OwedKept
  <1>7. (GaugesFollowCounters <=> seeds + leeches + Owed - T = Total)'
    BY GaugesUnfold, PTL
  <1> HIDE DEF T
  <1>8. QED
    BY <1>5, <1>6, <1>7

LEMMA InitBalance == Init => GaugesFollowCounters
  <1>1. SUFFICES ASSUME Init PROVE GaugesFollowCounters
    OBVIOUS
  <1>2. \A p \in Workers : OwedMap[p] = 0
    BY <1>1 DEF Init, OwedMap, OwedGauges, OwesGauges, Owes, IdleWorker
  <1>3. \A a \in DOMAIN pms : BothMap[a] = 0
    BY <1>1 DEF Init, BothMap, Both, NewPeerMap
  <1>4. IsFiniteSet(DOMAIN pms)
    <2>1. IInv
      BY <1>1, InitOK
    <2>2. pms \in Seq(PeerMaps)
      BY <2>1 DEF IInv, Types, Heap
    <2>3. QED
      BY <2>2, BothOK
  <1> DEFINE f == OwedMap
             g == BothMap
             S == DOMAIN pms
  <1>5. /\ \A p \in Workers : f[p] = 0
        /\ \A a \in S : g[a] = 0
        /\ IsFiniteSet(S) /\ Owed = SumFunctionOnSet(f, Workers) /\ Total = SumFunctionOnSet(g, S)
    BY <1>2, <1>3, <1>4 DEF Owed, Total
  <1> HIDE DEF f, g, S
  <1>6. Owed = 0 /\ Total = 0
    BY <1>5, SumZero, WorkersAssumption
  <1>7. seeds = 0 /\ leeches = 0 /\ t.pc # "gauges"
    BY <1>1, IdleTrimOK DEF Init
  <1>8. (IF t.pc = "gauges" THEN 1 ELSE 0) = 0
    BY <1>7
  <1>9. seeds + leeches + Owed - 0 = Total
    BY <1>6, <1>7
  <1>10. QED
    BY <1>8, <1>9, GaugesUnfold

(* Seeds + Leeches is the sum of the counters of every peermap ever made,   *)
(* up to the requests in flight, for any workers, hashes, peers and times.  *)
THEOREM GaugesAgree == Spec => []GaugesFollowCounters
  <1>1. ASSUME IInv, IInv', GaugesFollowCounters, [Next]_vars PROVE GaugesFollowCounters'
    <2>1. ASSUME NEW p \in Workers, Request(p) \/ SaveStep(p) \/ DropStep(p)
          PROVE  GaugesFollowCounters'
      <3>1. CASE Request(p)
        BY <1>1, <3>1, RequestBalance
      <3>2. CASE SaveMake(p)
        BY <1>1, <3>2, MakeBalance
      <3>3. CASE SaveUpdate(p)
        BY <1>1, <3>3, UpdateBalance
      <3>4. CASE SaveGauges(p) \/ DropGauges(p)
        BY <1>1, <3>4, GaugesBalance
      <3>5. CASE DropRemove(p)
        BY <1>1, <3>5, RemoveBalance
      <3>6. CASE SaveFind(p) \/ SaveIP(p) \/ SaveSwapIP(p) \/ SaveWriteComplete(p)
                   \/ SaveWriteIP(p) \/ SaveWriteSeen(p) \/ DropFree(p)
        BY <1>1, <3>6, QuietBalance
      <3>7. QED
        BY <2>1, <3>1, <3>2, <3>3, <3>4, <3>5, <3>6 DEF SaveStep, DropStep
    <2>2. QED
      BY <1>1, <2>1, TrimBalance DEF Next
  <1>2. QED
    BY <1>1, InitBalance, IInvOK, PTL DEF Spec

-----------------------------------------------------------------------------
(* PeerDbConc implements PeerDb.                                            *)
(*                                                                          *)
(* Every hash is in the map and stays there, every worker has its own       *)
(* peers, and an IPStats count cannot reach the end of an int16.            *)
Solo ==
    /\ ~TrimOn /\ Loaded = Hashes
    /\ \A p, q \in Workers : p # q => IDsOf[p] \cap IDsOf[q] = {}
    /\ Cardinality(Hashes \X PeerIDs) + Cardinality(Workers) < 32767

Places == Hashes \X PeerIDs

PmOf(h) == pms[hashmap[h]]
Held(x) == x[2] \in DOMAIN PmOf(x[1]).Peers
ObjAt(x) == PmOf(x[1]).Peers[x[2]]

PlaceOf(l) == <<l.hash, l.id>>
Busy(p, x) == w[p].pc # "idle" /\ PlaceOf(w[p]) = x

\* A Save that has its peer in place, and a Drop that has taken its peer out
Storing(l) == l.op = "save" /\ l.pc \in {"gauges", "ip", "swap", "write", "writeIP", "writeSeen"}
Dropping(l) == l.op = "drop" /\ l.pc \in {"gauges", "free"}

\* What worker p knows of the peer it works on, that no other worker touches
Finding(p) ==
    w[p].pc = "update" =>
        /\ w[p].exists <=> Held(PlaceOf(w[p]))
        /\ w[p].exists => w[p].obj = ObjAt(PlaceOf(w[p])) /\ objs[w[p].obj].IP \in IPs

Stored(p) ==
    Storing(w[p]) =>
        /\ Held(PlaceOf(w[p])) /\ w[p].obj = ObjAt(PlaceOf(w[p]))
        /\ w[p].exists /\ w[p].pc \in {"gauges", "ip", "swap"} => objs[w[p].obj].IP \in IPs
        /\ w[p].pc = "swap" => w[p].exists /\ objs[w[p].obj].IP # w[p].ip
        /\ w[p].pc \in {"writeIP", "writeSeen"} => objs[w[p].obj].Complete = w[p].complete
        /\ w[p].pc = "writeSeen" => objs[w[p].obj].IP = w[p].ip

Dropped(p) ==
    Dropping(w[p]) => ~Held(PlaceOf(w[p])) /\ w[p].obj \in DOMAIN objs /\ objs[w[p].obj].IP \in IPs

Mine(p) ==
    /\ w[p].pc # "idle" =>
         /\ w[p].pc # "make" /\ w[p].hash \in Hashes /\ w[p].id \in IDsOf[p]
         /\ w[p].pm = hashmap[w[p].hash]
         /\ w[p].op = "save" => w[p].ip \in IPs
    /\ Finding(p) /\ Stored(p) /\ Dropped(p)

\* A peer that nobody writes has its address
Settled(x) ==
    Held(x) /\ (\A p \in Workers : Busy(p, x) => ~Storing(w[p])) => objs[ObjAt(x)].IP \in IPs

SoloInv ==
    /\ t.pc = "idle" /\ DOMAIN hashmap = Hashes
    /\ \A g, h \in Hashes : hashmap[g] = hashmap[h] => g = h
    /\ \A p \in Workers : Mine(p)
    /\ \A x \in Places : Settled(x)

-----------------------------------------------------------------------------
LEMMA PlaceOK ==
    IInv /\ SoloInv => \A x \in Places :
        /\ hashmap[x[1]] \in DOMAIN pms /\ PmOf(x[1]) \in PeerMaps
        /\ Held(x) => ObjAt(x) \in DOMAIN objs /\ objs[ObjAt(x)] \in Peer
  <1>1. SUFFICES ASSUME IInv, SoloInv, NEW x \in Places
                 PROVE  /\ hashmap[x[1]] \in DOMAIN pms /\ PmOf(x[1]) \in PeerMaps
                        /\ Held(x) => ObjAt(x) \in DOMAIN objs /\ objs[ObjAt(x)] \in Peer
    OBVIOUS
  <1>2. hashmap[x[1]] \in DOMAIN pms
    BY <1>1 DEF IInv, Types, Heap, IsMap, SoloInv, Places
  <1>3. pms \in Seq(PeerMaps) /\ objs \in Seq(Peer)
    BY <1>1 DEF IInv, Types, Heap
  <1>4. PmOf(x[1]) \in PeerMaps
    BY <1>2, <1>3 DEF PmOf
  <1>5. Held(x) => ObjAt(x) \in DOMAIN objs
    BY <1>1, <1>2 DEF IInv, Pointers, Held, ObjAt, PmOf
  <1>6. QED
    BY <1>2, <1>3, <1>4, <1>5

\* Peers in different places are different structs
LEMMA ApartOK ==
    IInv /\ SoloInv => \A x, y \in Places :
        Held(x) /\ Held(y) /\ ObjAt(x) = ObjAt(y) => x = y
  <1>1. SUFFICES ASSUME IInv, SoloInv, NEW x \in Places, NEW y \in Places,
                        Held(x), Held(y), ObjAt(x) = ObjAt(y)
                 PROVE  x = y
    OBVIOUS
  <1>2. hashmap[x[1]] \in DOMAIN pms /\ hashmap[y[1]] \in DOMAIN pms
    BY <1>1, PlaceOK
  <1>3. hashmap[x[1]] = hashmap[y[1]] /\ x[2] = y[2]
    BY <1>1, <1>2 DEF IInv, Owners, OneEntry, Held, ObjAt, PmOf
  <1>4. QED
    BY <1>1, <1>3 DEF SoloInv, Places

LEMMA MineOK ==
    SoloInv => \A p \in Workers : w[p].pc # "idle" => PlaceOf(w[p]) \in Places
  BY OwnersAssumption DEF SoloInv, Mine, Places, PlaceOf

\* Nobody but its owner is busy at a place
LEMMA AloneOK ==
    Solo /\ SoloInv => \A x \in Places, p, q \in Workers :
        x[2] \in IDsOf[p] /\ Busy(q, x) => q = p
  <1>1. SUFFICES ASSUME Solo, SoloInv, NEW x \in Places, NEW p \in Workers, NEW q \in Workers,
                        x[2] \in IDsOf[p], Busy(q, x)
                 PROVE  q = p
    OBVIOUS
  <1>2. x[2] \in IDsOf[q]
    BY <1>1 DEF SoloInv, Mine, Busy, PlaceOf
  <1>3. QED
    BY <1>1, <1>2 DEF Solo

\* The worker AbsPeer asks is the one that is storing at that place
Writers ==
    \A x \in Places : Held(x) => Writer(ObjAt(x)) = {p \in Workers : Busy(p, x) /\ Storing(w[p])}

LEMMA WriterOK == IInv /\ SoloInv => Writers
  <1>1. SUFFICES ASSUME IInv, SoloInv, NEW x \in Places, Held(x), NEW p \in Workers
                 PROVE  p \in Writer(ObjAt(x)) <=> Busy(p, x) /\ Storing(w[p])
    BY DEF Writer, Writers
  <1>2. p \in Writer(ObjAt(x)) <=> Storing(w[p]) /\ w[p].obj = ObjAt(x)
    BY DEF Writer, Owes, Storing
  <1>3. Storing(w[p]) => w[p].pc # "idle" /\ Stored(p)
    BY <1>1 DEF Storing, SoloInv, Mine
  <1>4. Storing(w[p]) => /\ PlaceOf(w[p]) \in Places /\ Held(PlaceOf(w[p]))
                         /\ w[p].obj = ObjAt(PlaceOf(w[p]))
    BY <1>1, <1>3, MineOK DEF Stored
  <1>5. QED
    BY <1>1, <1>2, <1>3, <1>4, ApartOK DEF Busy

\* What PeerDb sees at a place whose owner is p
Seen(l) == [Complete |-> l.complete, IP |-> l.ip, Age |-> 0]
Kept(o) == [Complete |-> objs[o].Complete, IP |-> objs[o].IP, Age |-> 0]

View(p, x) == IF Busy(p, x) /\ Storing(w[p]) THEN Seen(w[p]) ELSE Kept(ObjAt(x))

Views ==
    \A x \in Places, p \in Workers :
        Held(x) /\ x[2] \in IDsOf[p] =>
            AbsPeer(ObjAt(x)) = View(p, x)

LEMMA ViewOK == Solo /\ IInv /\ SoloInv => Views
  <1>1. SUFFICES ASSUME Solo, IInv, SoloInv, NEW x \in Places, NEW p \in Workers, Held(x),
                        x[2] \in IDsOf[p]
                 PROVE  AbsPeer(ObjAt(x)) = View(p, x)
    BY DEF Views
  <1>2. Writer(ObjAt(x)) = IF Busy(p, x) /\ Storing(w[p]) THEN {p} ELSE {}
    <2>1. \A q \in Workers : Busy(q, x) => q = p
      BY <1>1, AloneOK
    <2>2. Writer(ObjAt(x)) = {q \in Workers : Busy(q, x) /\ Storing(w[q])}
      BY <1>1, WriterOK DEF Writers
    <2>3. QED
      BY <2>1, <2>2
  <1>3. QED
    BY <1>2 DEF AbsPeer, Seen, Kept, View

-----------------------------------------------------------------------------
(* A step of worker p at place s, and what it leaves alone: the argument    *)
(* that requests for different peers do not disturb one another.            *)
Frame(p, s) ==
    /\ hashmap' = hashmap /\ t' = t /\ s \in Places /\ s[2] \in IDsOf[p]
    /\ \A q \in Workers : q # p => w'[q] = w[q]
    /\ w[p].pc # "idle" => PlaceOf(w[p]) = s
    /\ w'[p].pc # "idle" => PlaceOf(w'[p]) = s
    /\ \A x \in Places : x # s =>
         /\ Held(x)' <=> Held(x)
         /\ Held(x) => ObjAt(x)' = ObjAt(x) /\ objs'[ObjAt(x)] = objs[ObjAt(x)]
    /\ \A q \in Workers : q # p /\ Dropping(w[q]) => objs'[w[q].obj] = objs[w[q].obj]

LEMMA OtherPlace ==
    ASSUME Solo, SoloInv, NEW p \in Workers, NEW s, Frame(p, s),
           NEW q \in Workers, q # p, w[q].pc # "idle"
    PROVE  PlaceOf(w[q]) \in Places /\ PlaceOf(w[q]) # s
  <1>1. w[q].id \in IDsOf[q] /\ PlaceOf(w[q])[2] = w[q].id
    BY DEF SoloInv, Mine, PlaceOf
  <1>2. s[2] \in IDsOf[p] /\ IDsOf[p] \cap IDsOf[q] = {}
    BY DEF Frame, Solo
  <1>3. QED
    BY <1>1, <1>2, MineOK

LEMMA OtherMine ==
    ASSUME Solo, IInv, IInv', SoloInv, NEW p \in Workers, NEW s, Frame(p, s),
           NEW q \in Workers, q # p
    PROVE  Mine(q)'
  <1>1. w'[q] = w[q] /\ hashmap' = hashmap
    BY DEF Frame
  <1>2. CASE w[q].pc = "idle"
    BY <1>1, <1>2 DEF Mine, Finding, Stored, Dropped, Storing, Dropping
  <1>3. CASE w[q].pc # "idle"
    <2> DEFINE x == PlaceOf(w[q])
    <2>1. x \in Places /\ x # s
      BY <1>3, OtherPlace
    <2>2. /\ Held(x)' <=> Held(x)
          /\ Held(x) => ObjAt(x)' = ObjAt(x) /\ objs'[ObjAt(x)] = objs[ObjAt(x)]
      BY <2>1 DEF Frame
    <2>3. Dropping(w[q]) => objs'[w[q].obj] = objs[w[q].obj] /\ w[q].obj \in DOMAIN objs'
      <3>1. Worker(w[q])'
        BY <1>1 DEF IInv
      <3>2. QED
        BY <1>1, <3>1 DEF Frame, Dropping, Worker
    <2>4. Mine(q) /\ PlaceOf(w'[q]) = x /\ PlaceOf(w[q])' = x
      BY <1>1 DEF SoloInv, PlaceOf
    <2> HIDE DEF x
    <2>5. Finding(q)'
      BY <1>1, <2>2, <2>4 DEF Mine, Finding, x
    <2>6. Stored(q)'
      BY <1>1, <2>2, <2>4 DEF Mine, Stored, x
    <2>7. Dropped(q)'
      BY <1>1, <2>2, <2>3, <2>4 DEF Mine, Dropped, x
    <2>8. QED
      BY <1>1, <2>4, <2>5, <2>6, <2>7 DEF Mine
  <1>4. QED
    BY <1>2, <1>3

\* Who is busy at another place
LEMMA OtherBusy ==
    ASSUME NEW p \in Workers, NEW s, Frame(p, s), NEW x \in Places, x # s, NEW q \in Workers
    PROVE  /\ Busy(q, x)' <=> Busy(q, x)
           /\ Busy(q, x) => q # p /\ w'[q] = w[q]
  <1>1. CASE q = p
    BY <1>1 DEF Frame, Busy
  <1>2. CASE q # p
    BY <1>2 DEF Frame, Busy
  <1>3. QED
    BY <1>1, <1>2

LEMMA FrameSolo ==
    ASSUME Solo, IInv, IInv', SoloInv, NEW p \in Workers, NEW s, Frame(p, s), Mine(p)', Settled(s)'
    PROVE  SoloInv'
  <1>1. \A q \in Workers : Mine(q)'
    BY OtherMine
  <1>2. ASSUME NEW x \in Places, x # s PROVE Settled(x)'
    <2>1. Settled(x)
      BY DEF SoloInv
    <2>2. \A q \in Workers : /\ Busy(q, x)' <=> Busy(q, x)
                             /\ Busy(q, x) => w'[q] = w[q]
      BY <1>2, OtherBusy
    <2>3. /\ Held(x)' <=> Held(x)
          /\ Held(x) => ObjAt(x)' = ObjAt(x) /\ objs'[ObjAt(x)] = objs[ObjAt(x)]
      BY <1>2 DEF Frame
    <2>4. QED
      BY <2>1, <2>2, <2>3 DEF Settled
  <1>3. hashmap' = hashmap /\ t' = t
    BY DEF Frame
  <1>4. \A x \in Places : Settled(x)'
    BY <1>2
  <1>5. QED
    BY <1>1, <1>3, <1>4 DEF SoloInv

\* What PeerDb sees at another place
LEMMA FrameSeen ==
    ASSUME Solo, IInv, IInv', SoloInv, SoloInv', NEW p \in Workers, NEW s, Frame(p, s),
           NEW x \in Places, x # s, Held(x)
    PROVE  AbsPeer(ObjAt(x))' = AbsPeer(ObjAt(x))
  <1>1. Held(x)' /\ ObjAt(x)' = ObjAt(x) /\ objs'[ObjAt(x)] = objs[ObjAt(x)]
    BY DEF Frame
  <1>2. Writer(ObjAt(x)) = {q \in Workers : Busy(q, x) /\ Storing(w[q])}
    BY WriterOK DEF Writers
  <1>3. Writer(ObjAt(x))' = {q \in Workers : Busy(q, x)' /\ Storing(w'[q])}
    <2>1. (IInv /\ SoloInv => Writers)'
      BY WriterOK, PTL
    <2>2. QED
      BY <1>1, <2>1 DEF Writers, Storing
  <1>4. \A q \in Workers : /\ Busy(q, x)' <=> Busy(q, x)
                           /\ Busy(q, x) => w'[q] = w[q]
    BY OtherBusy
  <1>5. Writer(ObjAt(x))' = Writer(ObjAt(x))
    BY <1>2, <1>3, <1>4
  <1>6. \A q \in Writer(ObjAt(x)) : w'[q] = w[q]
    BY <1>2, <1>4
  <1> DEFINE o == ObjAt(x)
  <1>7. AbsPeer(o)' = IF Writer(o)' = {}
                      THEN [Complete |-> objs'[o].Complete, IP |-> objs'[o].IP, Age |-> 0]
                      ELSE [Complete |-> w'[CHOOSE q \in Writer(o)' : TRUE].complete,
                            IP |-> w'[CHOOSE q \in Writer(o)' : TRUE].ip, Age |-> 0]
    BY <1>1 DEF AbsPeer
  <1>8. AbsPeer(o) = IF Writer(o) = {}
                      THEN [Complete |-> objs[o].Complete, IP |-> objs[o].IP, Age |-> 0]
                      ELSE [Complete |-> w[CHOOSE q \in Writer(o) : TRUE].complete,
                            IP |-> w[CHOOSE q \in Writer(o) : TRUE].ip, Age |-> 0]
    BY DEF AbsPeer
  <1> HIDE DEF o
  <1>9. Writer(o)' = Writer(o)  /\ (\A q \in Writer(o) : w'[q] = w[q]) /\ objs'[o] = objs[o]
    BY <1>1, <1>5, <1>6 DEF o
  <1>10. CASE Writer(o) = {}
    BY <1>7, <1>8, <1>9, <1>10 DEF o
  <1>11. CASE Writer(o) # {}
    <2>1. (CHOOSE q \in Writer(o) : TRUE) \in Writer(o)
      BY <1>11
    <2>2. QED
      BY <1>7, <1>8, <1>9, <1>11, <2>1 DEF o
  <1>12. QED
    BY <1>10, <1>11 DEF o

\* What the others owe
LEMMA FrameOwed ==
    ASSUME Solo, IInv, SoloInv, NEW p \in Workers, NEW s, Frame(p, s),
           NEW q \in Workers, q # p
    PROVE  /\ OwedSeeds(q)' = OwedSeeds(q) /\ OwedLeeches(q)' = OwedLeeches(q)
           /\ \A ip \in IPs : OwedIP(q, ip)' = OwedIP(q, ip)
  <1>1. w'[q] = w[q]
    BY DEF Frame
  <1>2. Storing(w[q]) \/ Dropping(w[q]) => objs'[w[q].obj] = objs[w[q].obj]
    <2>1. CASE Storing(w[q])
      <3>1. w[q].pc # "idle"
        BY <2>1 DEF Storing
      <3>2. PlaceOf(w[q]) \in Places /\ PlaceOf(w[q]) # s
        BY <3>1, OtherPlace
      <3>3. Held(PlaceOf(w[q])) /\ w[q].obj = ObjAt(PlaceOf(w[q]))
        BY <2>1 DEF SoloInv, Mine, Stored
      <3>4. QED
        BY <3>2, <3>3 DEF Frame
    <2>2. CASE Dropping(w[q])
      BY <2>2 DEF Frame
    <2>3. QED
      BY <2>1, <2>2
  <1>3. OwesGauges(q)' <=> OwesGauges(q)
    BY <1>1 DEF OwesGauges, Owes
  <1>4. OwesGauges(q) => Storing(w[q]) \/ Dropping(w[q])
    BY DEF OwesGauges, Owes, Storing, Dropping
  <1>5. CASE Storing(w[q]) \/ Dropping(w[q])
    BY <1>1, <1>2, <1>3, <1>5 DEF OwedSeeds, OwedLeeches, OwedIP, OwesInc, OwesRemove, MovesIP, Owes
  <1>6. CASE ~(Storing(w[q]) \/ Dropping(w[q]))
    <2>1. /\ ~MovesIP(q) /\ ~MovesIP(q)'
          /\ ~Owes(q, {"gauges", "free"}, "drop") /\ ~Owes(q, {"gauges", "free"}, "drop")'
          /\ ~Owes(q, {"ip"}, "save") /\ ~Owes(q, {"ip"}, "save")'
      BY <1>1, <1>6 DEF MovesIP, Owes, Storing, Dropping
    <2>2. QED
      BY <1>3, <1>4, <1>6, <2>1 DEF OwedSeeds, OwedLeeches, OwedIP, OwesInc, OwesRemove
  <1>7. QED
    BY <1>5, <1>6

-----------------------------------------------------------------------------
\* A sum of numbers that are at most one
LEMMA SumBound ==
    ASSUME NEW S, IsFiniteSet(S), NEW f, \A x \in S : f[x] \in -1..1
    PROVE  SumFunctionOnSet(f, S) \in -Cardinality(S)..Cardinality(S)
  <1> DEFINE Within(U) == SumFunctionOnSet(f, U) \in -Cardinality(U)..Cardinality(U)
             Bad == {U \in SUBSET S : ~Within(U)}
  <1>1. SUFFICES ASSUME Bad # {} PROVE FALSE
    BY DEF Bad
  <1>2. PICK U \in Bad : \A V \in Bad : Cardinality(U) <= Cardinality(V)
    <2>1. Bad \in SUBSET SUBSET S
      OBVIOUS
    <2> HIDE DEF Bad
    <2>2. QED
      BY <1>1, <2>1, SmallestSubset
  <1>3. U \subseteq S /\ IsFiniteSet(U) /\ Cardinality(U) \in Nat
    BY FS_Subset, FS_CardinalityType
  <1>4. CASE U = {}
    <2>1. SumFunctionOnSet(f, U) = 0 /\ Cardinality(U) = 0
      BY <1>4, SumEmpty, FS_EmptySet
    <2>2. QED
      BY <2>1
  <1>5. CASE U # {}
    <2>1. PICK x \in U : TRUE
      BY <1>5
    <2> DEFINE V == U \ {x}
    <2>2. IsFiniteSet(V) /\ Cardinality(V) = Cardinality(U) - 1
      BY <1>3, FS_RemoveElement
    <2>3. SumFunctionOnSet(f, U) = f[x] + SumFunctionOnSet(f, V)
      BY <1>3, SumTake
    <2>4. f[x] \in -1..1 /\ V \in SUBSET S
      BY <1>3
    <2>5. Within(V)
      <3> HIDE DEF V, Within
      <3>1. V \notin Bad
        BY <1>2, <1>3, <2>2
      <3>2. QED
        BY <2>4, <3>1
    <2> HIDE DEF V, Bad
    <2>6. Within(U)
      <3> DEFINE m == SumFunctionOnSet(f, V)
                 n == SumFunctionOnSet(f, U)
                 c == Cardinality(U)
                 d == Cardinality(V)
                 e == f[x]
      <3>1. c \in Nat /\ d = c - 1 /\ m \in -d..d /\ e \in -1..1 /\ n = e + m
        BY <1>3, <2>2, <2>3, <2>4, <2>5
      <3> HIDE DEF m, n, c, d, e
      <3>2. n \in -c..c
        BY <3>1
      <3>3. QED
        BY <3>2 DEF n, c
    <2>7. QED
      BY <1>2, <2>6 DEF Bad
  <1>6. QED
    BY <1>4, <1>5

-----------------------------------------------------------------------------
(* What PeerDb has in its gauges and in IPStats *)

SeedMap == [p \in Workers |-> OwedSeeds(p)]
LeechMap == [p \in Workers |-> OwedLeeches(p)]
IPMap(ip) == [p \in Workers |-> OwedIP(p, ip)]

OwedTotal(f) == SumFunctionOnSet(f, Workers)
PaidSeeds == seeds + OwedTotal(SeedMap)
PaidLeeches == leeches + OwedTotal(LeechMap)

Paid ==
    /\ seeds + SumFunction([p \in Workers |-> OwedSeeds(p)]) = PaidSeeds
    /\ leeches + SumFunction([p \in Workers |-> OwedLeeches(p)]) = PaidLeeches
    /\ \A ip \in IPs : PaidIP(ip) = Get(ipstats, ip) + OwedTotal(IPMap(ip))

LEMMA PaidUnfold == Paid
  BY DEF Paid, SumFunction, SeedMap, LeechMap, IPMap, OwedTotal, PaidSeeds, PaidLeeches, PaidIP

Small ==
    \A p \in Workers :
        /\ OwedSeeds(p) \in -1..1 /\ OwedLeeches(p) \in -1..1
        /\ \A ip \in IPs : OwedIP(p, ip) \in -1..1

LEMMA OwedSmall == Small
  <1>1. ASSUME NEW p \in Workers
        PROVE  OwedSeeds(p) \in -1..1 /\ OwedLeeches(p) \in -1..1
    BY DEF OwedSeeds, OwedLeeches, CompleteDelta, IncompleteDelta
  <1>2. ASSUME NEW p \in Workers, NEW ip \in IPs PROVE OwedIP(p, ip) \in -1..1
    BY DEF OwedIP
  <1>3. QED
    BY <1>1, <1>2 DEF Small

LEMMA TotalSmall ==
    ASSUME NEW f, \A p \in Workers : f[p] \in -1..1
    PROVE  OwedTotal(f) \in Int /\ OwedTotal(f) \in -Cardinality(Workers)..Cardinality(Workers)
  <1>1. OwedTotal(f) \in Int
    BY SumType, WorkersAssumption DEF OwedTotal
  <1>2. QED
    BY <1>1, SumBound, WorkersAssumption DEF OwedTotal

LEMMA OwedTotalMoves ==
    ASSUME NEW f, \A p \in Workers : f[p] \in -1..1, NEW g, \A p \in Workers : g[p] \in -1..1,
           NEW p \in Workers, \A q \in Workers \ {p} : g[q] = f[q]
    PROVE  OwedTotal(g) = OwedTotal(f) + (g[p] - f[p])
  <1>1. (\A q \in Workers : f[q] \in Int) /\ (\A q \in Workers : g[q] \in Int)
    OBVIOUS
  <1>2. QED
    BY <1>1, SumChange, WorkersAssumption DEF OwedTotal

LEMMA PaidMoves ==
    ASSUME Solo, IInv, IInv', SoloInv, NEW p \in Workers, NEW s, Frame(p, s)
    PROVE  /\ PaidSeeds \in Int /\ PaidLeeches \in Int
           /\ PaidSeeds' = PaidSeeds + (seeds' - seeds) + (OwedSeeds(p)' - OwedSeeds(p))
           /\ PaidLeeches' = PaidLeeches + (leeches' - leeches) + (OwedLeeches(p)' - OwedLeeches(p))
           /\ \A ip \in IPs : OwedTotal(IPMap(ip))' =
                  OwedTotal(IPMap(ip)) + (OwedIP(p, ip)' - OwedIP(p, ip))
  <1>1. seeds \in Int /\ leeches \in Int /\ seeds' \in Int /\ leeches' \in Int
    BY DEF IInv, Types, Scalars
  <1>2. Small'
    BY OwedSmall, PTL
  <1>3. /\ OwedTotal(SeedMap) \in Int
        /\ OwedTotal(SeedMap)' = OwedTotal(SeedMap) + (OwedSeeds(p)' - OwedSeeds(p))
    <2> DEFINE f == SeedMap
               g == SeedMap'
    <2>1. (\A q \in Workers : f[q] \in -1..1 /\ g[q] \in -1..1)
          /\ (\A q \in Workers \ {p} : g[q] = f[q])
          /\ f[p] = OwedSeeds(p) /\ g[p] = OwedSeeds(p)'
      BY <1>2, OwedSmall, FrameOwed DEF Small, SeedMap
    <2> HIDE DEF f, g
    <2>2. OwedTotal(g) = OwedTotal(f) + (g[p] - f[p]) /\ OwedTotal(f) \in Int
      BY <2>1, OwedTotalMoves, TotalSmall
    <2>3. QED
      BY <2>1, <2>2 DEF f, g, OwedTotal
  <1>4. /\ OwedTotal(LeechMap) \in Int
        /\ OwedTotal(LeechMap)' = OwedTotal(LeechMap) + (OwedLeeches(p)' - OwedLeeches(p))
    <2> DEFINE f == LeechMap
               g == LeechMap'
    <2>1. (\A q \in Workers : f[q] \in -1..1 /\ g[q] \in -1..1)
          /\ (\A q \in Workers \ {p} : g[q] = f[q])
          /\ f[p] = OwedLeeches(p) /\ g[p] = OwedLeeches(p)'
      BY <1>2, OwedSmall, FrameOwed DEF Small, LeechMap
    <2> HIDE DEF f, g
    <2>2. OwedTotal(g) = OwedTotal(f) + (g[p] - f[p]) /\ OwedTotal(f) \in Int
      BY <2>1, OwedTotalMoves, TotalSmall
    <2>3. QED
      BY <2>1, <2>2 DEF f, g, OwedTotal
  <1>5. ASSUME NEW ip \in IPs
        PROVE  OwedTotal(IPMap(ip))' = OwedTotal(IPMap(ip)) + (OwedIP(p, ip)' - OwedIP(p, ip))
    <2> DEFINE f == IPMap(ip)
               g == IPMap(ip)'
    <2>1. (\A q \in Workers : f[q] \in -1..1 /\ g[q] \in -1..1)
          /\ (\A q \in Workers \ {p} : g[q] = f[q])
          /\ f[p] = OwedIP(p, ip) /\ g[p] = OwedIP(p, ip)'
      BY <1>2, OwedSmall, FrameOwed DEF Small, IPMap
    <2> HIDE DEF f, g
    <2>2. OwedTotal(g) = OwedTotal(f) + (g[p] - f[p])
      BY <2>1, OwedTotalMoves
    <2>3. QED
      BY <2>1, <2>2 DEF f, g, OwedTotal
  <1>6. (\A q \in Workers : OwedSeeds(q) \in Int /\ OwedLeeches(q) \in Int)
        /\ (\A q \in Workers : OwedSeeds(q)' \in Int /\ OwedLeeches(q)' \in Int)
    BY <1>2, OwedSmall DEF Small
  <1>7. PaidSeeds \in Int /\ PaidSeeds' = PaidSeeds + (seeds' - seeds) + (OwedSeeds(p)' - OwedSeeds(p))
    <2> DEFINE a == OwedTotal(SeedMap)
               b == OwedTotal(SeedMap)'
               c == OwedSeeds(p)
               d == OwedSeeds(p)'
    <2>1. a \in Int /\ b = a + (d - c) /\ c \in Int /\ d \in Int
      BY <1>3, <1>6
    <2>2. PaidSeeds = seeds + a /\ PaidSeeds' = seeds' + b
      BY DEF PaidSeeds
    <2> HIDE DEF a, b, c, d
    <2>3. PaidSeeds \in Int /\ PaidSeeds' = PaidSeeds + (seeds' - seeds) + (d - c)
      BY <1>1, <2>1, <2>2
    <2>4. QED
      BY <2>3 DEF c, d
  <1>8. PaidLeeches \in Int
        /\ PaidLeeches' = PaidLeeches + (leeches' - leeches) + (OwedLeeches(p)' - OwedLeeches(p))
    <2> DEFINE a == OwedTotal(LeechMap)
               b == OwedTotal(LeechMap)'
               c == OwedLeeches(p)
               d == OwedLeeches(p)'
    <2>1. a \in Int /\ b = a + (d - c) /\ c \in Int /\ d \in Int
      BY <1>4, <1>6
    <2>2. PaidLeeches = leeches + a /\ PaidLeeches' = leeches' + b
      BY DEF PaidLeeches
    <2> HIDE DEF a, b, c, d
    <2>3. PaidLeeches \in Int /\ PaidLeeches' = PaidLeeches + (leeches' - leeches) + (d - c)
      BY <1>1, <2>1, <2>2
    <2>4. QED
      BY <2>3 DEF c, d
  <1>9. QED
    BY <1>5, <1>7, <1>8

-----------------------------------------------------------------------------
(* The state of PeerDb, place by place *)

AbsMap(h) ==
    [Complete |-> PmOf(h).Complete, Incomplete |-> PmOf(h).Incomplete,
     Peers |-> [id \in DOMAIN PmOf(h).Peers |-> AbsPeer(ObjAt(<<h, id>>))]]

Mapped == AbsHashmap = [h \in Hashes |-> AbsMap(h)]

LEMMA AbsMapOK == IInv /\ SoloInv => Mapped
  <1>1. SUFFICES ASSUME IInv, SoloInv PROVE AbsHashmap = [h \in Hashes |-> AbsMap(h)]
    BY DEF Mapped
  <1>2. ASSUME NEW h \in Hashes
        PROVE  AbsMap(h) =
                 [Complete |-> PmOf(h).Complete, Incomplete |-> PmOf(h).Incomplete,
                  Peers |-> [id \in DOMAIN PmOf(h).Peers |-> AbsPeer(PmOf(h).Peers[id])]]
    BY DEF AbsMap, ObjAt
  <1>3. QED
    BY <1>1, <1>2 DEF AbsHashmap, PmOf, SoloInv

AbsIPs == [ip \in {i \in IPs : PaidIP(i) # 0} |-> PaidIP(ip)]

Has(x, ip) == Held(x) /\ AbsPeer(ObjAt(x)).IP = ip
Users(ip) == {x \in Places : Has(x, ip)}

UsersInv ==
    \A ip \in IPs : Get(ipstats, ip) \in Int /\ PaidIP(ip) = Cardinality(Users(ip))

LEMMA UsersOK ==
    UsersInv => \A ip \in IPs :
        /\ IsFiniteSet(Users(ip)) /\ PaidIP(ip) \in Nat /\ PaidIP(ip) <= Cardinality(Places)
  <1>1. IsFiniteSet(Places)
    BY FS_Product, SetsAssumption DEF Places
  <1>2. ASSUME UsersInv, NEW ip \in IPs
        PROVE  IsFiniteSet(Users(ip)) /\ PaidIP(ip) \in Nat /\ PaidIP(ip) <= Cardinality(Places)
    <2>1. Users(ip) \subseteq Places
      BY DEF Users
    <2>2. IsFiniteSet(Users(ip)) /\ Cardinality(Users(ip)) <= Cardinality(Places)
      BY <1>1, <2>1, FS_Subset
    <2>3. Cardinality(Users(ip)) \in Nat
      BY <2>2, FS_CardinalityType
    <2>4. QED
      BY <1>2, <2>2, <2>3 DEF UsersInv
  <1>3. QED
    BY <1>2

\* An IPStats count is far from the ends of an int16
LEMMA CountsFit ==
    ASSUME Solo, UsersInv, NEW ip \in IPs
    PROVE  /\ Int16(Get(ipstats, ip) + 1) = Get(ipstats, ip) + 1
           /\ Int16(Get(ipstats, ip) - 1) = Get(ipstats, ip) - 1
           /\ Int16(PaidIP(ip) + 1) = PaidIP(ip) + 1
           /\ Int16(PaidIP(ip) - 1) = PaidIP(ip) - 1
  <1> DEFINE g == Get(ipstats, ip)
             m == OwedTotal(IPMap(ip))
             n == PaidIP(ip)
             a == Cardinality(Places)
             b == Cardinality(Workers)
  <1>1. g \in Int /\ n \in Nat /\ n <= a /\ n = g + m
    BY UsersOK, PaidUnfold DEF Paid, UsersInv
  <1>2. m \in Int /\ m \in -b..b
    <2>1. \A p \in Workers : IPMap(ip)[p] \in -1..1
      BY OwedSmall DEF Small, IPMap
    <2>2. QED
      BY <2>1, TotalSmall
  <1>3. a \in Nat /\ b \in Nat /\ a + b < 32767
    <2>1. IsFiniteSet(Places)
      BY FS_Product, SetsAssumption DEF Places
    <2>2. QED
      BY <2>1, FS_CardinalityType, WorkersAssumption DEF Solo, Places
  <1> HIDE DEF g, m, n, a, b
  <1>4. g \in Int /\ -32767 < g /\ g < 32767 /\ n \in Int /\ -32767 < n /\ n < 32767
    <2>1. -b <= m /\ m <= b
      BY <1>2, <1>3
    <2>2. g = n - m
      BY <1>1, <1>2
    <2>3. QED
      BY <1>1, <1>2, <1>3, <2>1, <2>2
  <1>5. \A i \in Int : -32767 < i /\ i < 32767 => Int16(i + 1) = i + 1 /\ Int16(i - 1) = i - 1
    BY DEF Int16
  <1>6. Int16(g + 1) = g + 1 /\ Int16(g - 1) = g - 1 /\ Int16(n + 1) = n + 1 /\ Int16(n - 1) = n - 1
    BY <1>4, <1>5
  <1>7. QED
    BY <1>6 DEF g, n

\* What p pays it no longer owes
Pays(p) ==
    /\ seeds' + OwedSeeds(p)' = seeds + OwedSeeds(p)
    /\ leeches' + OwedLeeches(p)' = leeches + OwedLeeches(p)
    /\ \A ip \in IPs :
         /\ Get(ipstats, ip)' \in Int
         /\ Get(ipstats, ip)' + OwedIP(p, ip)' = Get(ipstats, ip) + OwedIP(p, ip)

LEMMA Even ==
    ASSUME NEW m \in Int, NEW n, NEW i \in Int, NEW j \in Int, NEW k \in Int, NEW l \in Int,
           n = m + (j - i) + (l - k), j + l = i + k
    PROVE  n = m
  OBVIOUS

LEMMA PaidKept ==
    ASSUME Solo, IInv, IInv', SoloInv, NEW p \in Workers, NEW s, Frame(p, s), Pays(p)
    PROVE  PaidSeeds' = PaidSeeds /\ PaidLeeches' = PaidLeeches
  <1>1. PICK a, b \in Int : a = OwedSeeds(p) /\ b = OwedSeeds(p)'
    <2>1. Small'
      BY OwedSmall, PTL
    <2>2. OwedSeeds(p) \in Int /\ OwedSeeds(p)' \in Int
      BY <2>1, OwedSmall DEF Small
    <2>3. QED
      BY <2>2
  <1>2. PICK c, d \in Int : c = OwedLeeches(p) /\ d = OwedLeeches(p)'
    <2>1. Small'
      BY OwedSmall, PTL
    <2>2. OwedLeeches(p) \in Int /\ OwedLeeches(p)' \in Int
      BY <2>1, OwedSmall DEF Small
    <2>3. QED
      BY <2>2
  <1>3. PaidSeeds \in Int /\ PaidSeeds' = PaidSeeds + (seeds' - seeds) + (b - a)
    BY <1>1, PaidMoves
  <1>4. PaidLeeches \in Int /\ PaidLeeches' = PaidLeeches + (leeches' - leeches) + (d - c)
    BY <1>2, PaidMoves
  <1>5. seeds \in Int /\ leeches \in Int /\ seeds' \in Int /\ leeches' \in Int
    BY DEF IInv, Types, Scalars
  <1>6. seeds' + b = seeds + a /\ leeches' + d = leeches + c
    BY <1>1, <1>2 DEF Pays
  <1>7. PaidSeeds' = PaidSeeds
    <2>1. seeds' + b = seeds + a
      BY <1>6
    <2>2. QED
      BY <1>3, <1>5, <2>1, Even
  <1>8. PaidLeeches' = PaidLeeches
    <2>1. leeches' + d = leeches + c
      BY <1>6
    <2>2. QED
      BY <1>4, <1>5, <2>1, Even
  <1>9. QED
    BY <1>7, <1>8

\* A step that PeerDb does not see
LEMMA QuietStep ==
    ASSUME Solo, IInv, IInv', SoloInv, SoloInv', UsersInv, NEW p \in Workers, NEW s, Frame(p, s),
           pms' = pms, Held(s) => AbsPeer(ObjAt(s))' = AbsPeer(ObjAt(s)),
           Pays(p)
    PROVE  UNCHANGED Atomic!vars /\ UsersInv'
  <1>0. hashmap' = hashmap
    BY DEF Frame
  <1>1. \A x \in Places : /\ (Held(x)' <=> Held(x)) /\ ObjAt(x)' = ObjAt(x)
                          /\ Held(x) => AbsPeer(ObjAt(x))' = AbsPeer(ObjAt(x))
    <2>1. ASSUME NEW x \in Places
          PROVE  (Held(x)' <=> Held(x)) /\ ObjAt(x)' = ObjAt(x)
      BY <1>0 DEF Held, ObjAt, PmOf
    <2>2. ASSUME NEW x \in Places, Held(x) PROVE AbsPeer(ObjAt(x))' = AbsPeer(ObjAt(x))
      BY <2>2, FrameSeen
    <2>3. QED
      BY <2>1, <2>2
  <1>2. AbsHashmap' = AbsHashmap
    <2>1. ASSUME NEW h \in Hashes PROVE AbsMap(h)' = AbsMap(h)
      <3>1. PmOf(h)' = PmOf(h)
        BY <1>0 DEF PmOf
      <3>2. \A id \in DOMAIN PmOf(h).Peers : id \in PeerIDs
        <4>1. <<h, CHOOSE i \in PeerIDs : TRUE>>[1] = h
          OBVIOUS
        <4>2. hashmap[h] \in DOMAIN pms /\ pms \in Seq(PeerMaps)
          BY DEF IInv, Types, Heap, IsMap, SoloInv
        <4>3. PmOf(h) \in PeerMaps
          BY <4>2 DEF PmOf
        <4>4. QED
          BY <4>3, MapsOK DEF PeerMaps, IsMap
      <3>3. \A id \in DOMAIN PmOf(h).Peers :
                AbsPeer(ObjAt(<<h, id>>))' = AbsPeer(ObjAt(<<h, id>>))
        BY <1>1, <3>2 DEF Places, Held
      <3>4. QED
        BY <3>1, <3>3 DEF AbsMap
    <2>2. (IInv /\ SoloInv => Mapped)'
      BY AbsMapOK, PTL
    <2>3. QED
      BY <2>1, <2>2, AbsMapOK DEF Mapped
  <1>3. PaidSeeds' = PaidSeeds /\ PaidLeeches' = PaidLeeches
    BY PaidKept
  <1>4. ASSUME NEW ip \in IPs PROVE PaidIP(ip)' = PaidIP(ip)
    <2> DEFINE g == Get(ipstats, ip)
               k == Get(ipstats, ip)'
               a == OwedIP(p, ip)
               b == OwedIP(p, ip)'
               m == OwedTotal(IPMap(ip))
               n == OwedTotal(IPMap(ip))'
    <2>1. PaidIP(ip) = g + m
      BY PaidUnfold DEF Paid
    <2>2. PaidIP(ip)' = k + n
      <3>1. Paid'
        BY PaidUnfold, PTL
      <3>2. QED
        BY <3>1 DEF Paid
    <2>3. g \in Int /\ k \in Int /\ k + b = g + a
      BY DEF Pays, UsersInv
    <2>4. n = m + (b - a)
      BY PaidMoves
    <2>5. a \in Int /\ b \in Int
      <3>1. Small'
        BY OwedSmall, PTL
      <3>2. QED
        BY <3>1, OwedSmall DEF Small
    <2>6. m \in Int
      <3>1. \A q \in Workers : IPMap(ip)[q] \in -1..1
        BY OwedSmall DEF Small, IPMap
      <3>2. QED
        BY <3>1, TotalSmall
    <2> HIDE DEF g, k, a, b, m, n
    <2>7. k + n = g + m
      BY <2>3, <2>4, <2>5, <2>6
    <2>8. QED
      BY <2>1, <2>2, <2>7
  <1>5. AbsIPs' = AbsIPs
    BY <1>4 DEF AbsIPs
  <1>6. ASSUME NEW ip \in IPs PROVE Users(ip)' = Users(ip)
    <2>1. ASSUME NEW x \in Places PROVE Has(x, ip)' <=> Has(x, ip)
      <3>1. CASE Held(x)
        <4>1. Held(x)' /\ AbsPeer(ObjAt(x))' = AbsPeer(ObjAt(x))
          BY <1>1, <3>1
        <4>2. QED
          BY <3>1, <4>1 DEF Has
      <3>2. CASE ~Held(x)
        BY <1>1, <3>2 DEF Has
      <3>3. QED
        BY <3>1, <3>2
    <2>2. QED
      BY <2>1 DEF Users
  <1>7. UsersInv'
    <2>1. ASSUME NEW ip \in IPs
          PROVE  Get(ipstats, ip)' \in Int /\ PaidIP(ip)' = Cardinality(Users(ip))'
      <3>1. Cardinality(Users(ip))' = Cardinality(Users(ip))
        BY <1>6
      <3>2. QED
        BY <1>4, <3>1 DEF Pays, UsersInv
    <2>2. QED
      BY <2>1 DEF UsersInv
  <1>8. QED
    <2>1. Paid'
      BY PaidUnfold, PTL
    <2>2. QED
      BY <1>2, <1>3, <1>5, <1>7, <2>1, PaidUnfold DEF Paid, Atomic!vars, AbsIPs

-----------------------------------------------------------------------------
(* The steps that PeerDb does not see *)

LEMMA Silent ==
    ASSUME Solo, IInv, IInv', SoloInv, UsersInv, NEW p \in Workers, NEW s, Frame(p, s),
           pms' = pms, Mine(p)', Settled(s)', Held(s) => View(p, s)' = View(p, s), Pays(p)
    PROVE  SoloInv' /\ UsersInv' /\ UNCHANGED Atomic!vars
  <1>1. SoloInv'
    BY FrameSolo
  <1>2. ASSUME Held(s) PROVE AbsPeer(ObjAt(s))' = AbsPeer(ObjAt(s))
    <2>1. s \in Places /\ s[2] \in IDsOf[p]
      BY DEF Frame
    <2>2. AbsPeer(ObjAt(s)) = View(p, s)
      BY <1>2, <2>1, ViewOK DEF Views
    <2>3. Held(s)'
      BY <1>2 DEF Frame, Held, PmOf
    <2>4. (Solo /\ IInv /\ SoloInv => Views)'
      BY ViewOK, PTL
    <2>5. AbsPeer(ObjAt(s))' = View(p, s)'
      BY <1>1, <2>1, <2>3, <2>4 DEF Views, Solo
    <2>6. QED
      BY <1>2, <2>2, <2>5
  <1>3. QED
    BY <1>1, <1>2, QuietStep

\* Outside Storing and Dropping a worker owes nothing
NoDebts ==
    \A p \in Workers : ~Storing(w[p]) /\ ~Dropping(w[p]) =>
        OwedSeeds(p) = 0 /\ OwedLeeches(p) = 0 /\ \A ip \in IPs : OwedIP(p, ip) = 0

LEMMA NoDebtsOK == NoDebts
  <1>1. ASSUME NEW p \in Workers, ~Storing(w[p]), ~Dropping(w[p])
        PROVE  OwedSeeds(p) = 0 /\ OwedLeeches(p) = 0 /\ \A ip \in IPs : OwedIP(p, ip) = 0
    <2>1. ~OwesGauges(p) /\ ~MovesIP(p) /\ ~Owes(p, {"ip"}, "save")
          /\ ~Owes(p, {"gauges", "free"}, "drop")
      BY <1>1 DEF OwesGauges, MovesIP, Owes, Storing, Dropping
    <2>2. QED
      BY <2>1 DEF OwedSeeds, OwedLeeches, OwedIP, OwesInc, OwesRemove
  <1>2. QED
    BY <1>1 DEF NoDebts

\* The owner of a place that is not storing there has left an address
LEMMA OwnSettled ==
    ASSUME Solo, SoloInv, NEW p \in Workers, NEW x \in Places, x[2] \in IDsOf[p], Held(x),
           Busy(p, x) => ~Storing(w[p])
    PROVE  objs[ObjAt(x)].IP \in IPs
  <1>1. \A q \in Workers : Busy(q, x) => q = p
    BY AloneOK
  <1>2. QED
    BY <1>1 DEF SoloInv, Settled

LEMMA SameHeap ==
    ASSUME IInv, SoloInv, NEW p \in Workers, NEW s \in Places, s[2] \in IDsOf[p], NEW l,
           hashmap' = hashmap, pms' = pms, objs' = objs, t' = t, w' = [w EXCEPT ![p] = l],
           w[p].pc # "idle" => PlaceOf(w[p]) = s, l.pc # "idle" => PlaceOf(l) = s
    PROVE  Frame(p, s) /\ w'[p] = l
  <1>1. w'[p] = l /\ \A q \in Workers : q # p => w'[q] = w[q]
    BY DEF IInv, Types
  <1>2. QED
    BY <1>1 DEF Frame, Held, ObjAt, PmOf

\* A worker that is not between its critical section and its return
LEMMA Before ==
    ASSUME Solo, IInv, IInv', SoloInv, UsersInv, NEW p \in Workers, NEW s \in Places,
           s[2] \in IDsOf[p], NEW l, UNCHANGED <<heap, metrics, t>>, w' = [w EXCEPT ![p] = l],
           w[p].pc # "idle" => PlaceOf(w[p]) = s, l.pc # "idle" => PlaceOf(l) = s,
           ~Storing(w[p]), ~Dropping(w[p]), ~Storing(l), ~Dropping(l), Mine(p)'
    PROVE  SoloInv' /\ UsersInv' /\ UNCHANGED Atomic!vars
  <1>1. hashmap' = hashmap /\ pms' = pms /\ objs' = objs /\ t' = t
    BY DEF heap
  <1>2. Frame(p, s) /\ w'[p] = l
    BY <1>1, SameHeap
  <1>3. (Held(s)' <=> Held(s)) /\ ObjAt(s)' = ObjAt(s)
    BY <1>1 DEF Held, ObjAt, PmOf
  <1>4. Settled(s)'
    <2>1. Held(s) => objs[ObjAt(s)].IP \in IPs
      BY OwnSettled
    <2>2. QED
      BY <1>1, <1>3, <2>1 DEF Settled
  <1>5. View(p, s)' = View(p, s)
    BY <1>1, <1>2, <1>3 DEF View, Kept
  <1>6. Pays(p)
    <2>1. NoDebts' /\ NoDebts
      BY NoDebtsOK, PTL
    <2>2. /\ OwedSeeds(p) = 0 /\ OwedLeeches(p) = 0 /\ \A ip \in IPs : OwedIP(p, ip) = 0
          /\ OwedSeeds(p)' = 0 /\ OwedLeeches(p)' = 0 /\ \A ip \in IPs : OwedIP(p, ip)' = 0
      BY <1>2, <2>1 DEF NoDebts
    <2>3. seeds' = seeds /\ leeches' = leeches
          /\ \A ip \in IPs : Get(ipstats, ip)' = Get(ipstats, ip) /\ Get(ipstats, ip) \in Int
      BY DEF metrics, UsersInv
    <2>4. QED
      BY <2>2, <2>3 DEF Pays
  <1>7. QED
    BY <1>1, <1>2, <1>4, <1>5, <1>6, Silent

LEMMA SaveLookupSilent ==
    ASSUME Solo, IInv, IInv', SoloInv, UsersInv, NEW p \in Workers, NEW h \in Hashes,
           NEW id \in IDsOf[p], NEW ip \in IPs, NEW complete \in BOOLEAN,
           SaveLookup(p, h, id, ip, complete)
    PROVE  SoloInv' /\ UsersInv' /\ UNCHANGED Atomic!vars
  <1> DEFINE l == [IdleWorker EXCEPT !.pc = "find", !.op = "save", !.hash = h, !.id = id, !.ip = ip,
                                     !.complete = complete, !.pm = hashmap[h]]
  <1>1. w' = [w EXCEPT ![p] = l]
    BY DEF SaveLookup, SoloInv, Get
  <1>2. /\ l.pc = "find" /\ l.op = "save" /\ l.hash = h /\ l.id = id /\ l.ip = ip
        /\ l.pm = hashmap[h]
    BY DEF IdleWorker
  <1> HIDE DEF l
  <1>3. /\ <<h, id>> \in Places /\ <<h, id>>[2] \in IDsOf[p] /\ PlaceOf(l) = <<h, id>>
        /\ w[p].pc = "idle" /\ ~Storing(w[p]) /\ ~Dropping(w[p]) /\ ~Storing(l) /\ ~Dropping(l)
        /\ UNCHANGED <<heap, metrics, t>> /\ hashmap' = hashmap
    BY <1>2, OwnersAssumption DEF SaveLookup, Places, PlaceOf, Storing, Dropping, heap
  <1>4. Mine(p)'
    <2>1. w'[p] = l
      BY <1>1 DEF IInv, Types
    <2>2. QED
      BY <1>2, <1>3, <2>1 DEF Mine, Finding, Stored, Dropped
  <1>5. QED
    BY <1>1, <1>3, <1>4, Before

LEMMA DropLookupSilent ==
    ASSUME Solo, IInv, IInv', SoloInv, UsersInv, NEW p \in Workers, NEW h \in Hashes,
           NEW id \in IDsOf[p], DropLookup(p, h, id)
    PROVE  SoloInv' /\ UsersInv' /\ UNCHANGED Atomic!vars
  <1> DEFINE l == [IdleWorker EXCEPT !.pc = "remove", !.op = "drop", !.hash = h, !.id = id,
                                     !.pm = hashmap[h]]
  <1>1. w' = [w EXCEPT ![p] = l]
    BY DEF DropLookup
  <1>2. l.pc = "remove" /\ l.op = "drop" /\ l.hash = h /\ l.id = id /\ l.pm = hashmap[h]
    BY DEF IdleWorker
  <1> HIDE DEF l
  <1>3. /\ <<h, id>> \in Places /\ <<h, id>>[2] \in IDsOf[p] /\ PlaceOf(l) = <<h, id>>
        /\ w[p].pc = "idle" /\ ~Storing(w[p]) /\ ~Dropping(w[p]) /\ ~Storing(l) /\ ~Dropping(l)
        /\ UNCHANGED <<heap, metrics, t>> /\ hashmap' = hashmap
    BY <1>2, OwnersAssumption DEF DropLookup, Places, PlaceOf, Storing, Dropping, heap
  <1>4. Mine(p)'
    <2>1. w'[p] = l
      BY <1>1 DEF IInv, Types
    <2>2. QED
      BY <1>2, <1>3, <2>1 DEF Mine, Finding, Stored, Dropped
  <1>5. QED
    BY <1>1, <1>3, <1>4, Before

\* Where a busy worker is
LEMMA BusyOK ==
    ASSUME IInv, SoloInv, NEW p \in Workers, w[p].pc # "idle"
    PROVE  /\ PlaceOf(w[p]) \in Places /\ PlaceOf(w[p])[2] \in IDsOf[p]
           /\ w[p].pm = hashmap[w[p].hash] /\ Mine(p) /\ w[p] \in Locals /\ Worker(w[p])
           /\ pms[w[p].pm] = PmOf(w[p].hash) /\ w[p].hash \in Hashes /\ w[p].id \in PeerIDs
           /\ Held(PlaceOf(w[p])) <=> w[p].id \in DOMAIN pms[w[p].pm].Peers
           /\ ObjAt(PlaceOf(w[p])) = pms[w[p].pm].Peers[w[p].id]
  <1>1. Mine(p) /\ w[p] \in Locals /\ Worker(w[p])
    BY LocalsOK DEF SoloInv
  <1>2. PlaceOf(w[p]) \in Places /\ PlaceOf(w[p])[2] \in IDsOf[p]
    BY <1>1, MineOK DEF Mine, PlaceOf
  <1>3. w[p].hash \in Hashes /\ w[p].id \in PeerIDs /\ w[p].pm = hashmap[w[p].hash]
    BY <1>1, OwnersAssumption DEF Mine
  <1>4. QED
    BY <1>1, <1>2, <1>3 DEF PmOf, Held, ObjAt, PlaceOf

LEMMA SaveFindSilent ==
    ASSUME Solo, IInv, IInv', SoloInv, UsersInv, NEW p \in Workers, SaveFind(p)
    PROVE  SoloInv' /\ UsersInv' /\ UNCHANGED Atomic!vars
  <1>0. PICK s : s = PlaceOf(w[p])
    OBVIOUS
  <1> DEFINE here == w[p].id \in DOMAIN pms[w[p].pm].Peers
             o == Get(pms[w[p].pm].Peers, w[p].id)
             l == [w[p] EXCEPT !.pc = "update", !.exists = here, !.obj = o]
  <1>1. w[p].pc = "find" /\ w[p].op = "save"
    BY LocalsOK, IdleOK DEF SaveFind, Worker, DropStates
  <1>2. w' = [w EXCEPT ![p] = l]
    BY <1>1 DEF SaveFind, IInv, Types
  <1>3. (Held(s) <=> here) /\ (here => o = ObjAt(s) /\ objs[o].IP \in IPs)
    <2>1. (Held(s) <=> here) /\ (here => o = ObjAt(s))
      BY <1>0, <1>1, BusyOK DEF Get
    <2>2. ~Storing(w[p])
      BY <1>1 DEF Storing
    <2>3. QED
      BY <1>0, <1>1, <2>1, <2>2, BusyOK, OwnSettled
  <1>4. here \in BOOLEAN
    OBVIOUS
  <1>5. UNCHANGED <<heap, metrics, t>> /\ hashmap' = hashmap /\ pms' = pms /\ objs' = objs
    BY DEF SaveFind, heap
  <1> HIDE DEF here, o
  <1>6. /\ l.pc = "update" /\ l.op = "save" /\ l.hash = w[p].hash /\ l.id = w[p].id
        /\ l.pm = w[p].pm /\ l.exists = here /\ l.obj = o /\ l.ip = w[p].ip
    BY <1>1, LocalsOK DEF Locals
  <1> HIDE DEF l
  <1>7. PlaceOf(l) = s /\ ~Storing(w[p]) /\ ~Dropping(w[p]) /\ ~Storing(l) /\ ~Dropping(l)
    BY <1>0, <1>1, <1>6 DEF PlaceOf, Storing, Dropping
  <1>8. Mine(p)'
    <2>1. w'[p] = l
      BY <1>2 DEF IInv, Types
    <2>2. (Held(s)' <=> here) /\ (here => ObjAt(s)' = o) /\ PlaceOf(w'[p]) = s
      BY <1>3, <1>5, <1>7, <2>1 DEF Held, ObjAt, PmOf
    <2>3. Finding(p)'
      BY <1>3, <1>5, <1>6, <2>1, <2>2 DEF Finding
    <2>4. Stored(p)' /\ Dropped(p)'
      BY <1>7, <2>1 DEF Stored, Dropped
    <2>5. Mine(p) /\ w[p].op = "save"
      BY <1>1, BusyOK
    <2>6. QED
      BY <1>1, <1>5, <1>6, <2>1, <2>3, <2>4, <2>5 DEF Mine
  <1>9. QED
    BY <1>0, <1>1, <1>2, <1>5, <1>7, <1>8, Before, BusyOK

\* What Inc and Remove do to each count
LEMMA GetOK ==
    ASSUME NEW m, NEW i, NEW j
    PROVE  /\ Get(IPInc(m, i), j) = IF j = i THEN Int16(Get(m, i) + 1) ELSE Get(m, j)
           /\ Get(IPRemove(m, i), j) = IF j = i THEN Int16(Get(m, i) - 1) ELSE Get(m, j)
  <1>1. Get(IPInc(m, i), j) = IF j = i THEN Int16(Get(m, i) + 1) ELSE Get(m, j)
    BY DEF IPInc, Put, Get
  <1>2. CASE Int16(Get(m, i) - 1) = 0
    BY <1>1, <1>2 DEF IPRemove, Del, Get
  <1>3. CASE Int16(Get(m, i) - 1) # 0
    BY <1>1, <1>3 DEF IPRemove, Put, Get
  <1>4. QED
    BY <1>2, <1>3

\* A step of a worker that stores, on its own peer only
LEMMA OwnFrame ==
    ASSUME IInv, SoloInv, NEW p \in Workers, Storing(w[p]), NEW l,
           hashmap' = hashmap, pms' = pms, t' = t, w' = [w EXCEPT ![p] = l],
           l.pc # "idle" => PlaceOf(l) = PlaceOf(w[p]),
           \A o \in DOMAIN objs : o # w[p].obj => objs'[o] = objs[o]
    PROVE  Frame(p, PlaceOf(w[p])) /\ w'[p] = l
  <1>0. PICK s : s = PlaceOf(w[p])
    OBVIOUS
  <1>1. w'[p] = l /\ \A q \in Workers : q # p => w'[q] = w[q]
    BY DEF IInv, Types
  <1>2. w[p].pc # "idle" /\ s \in Places /\ s[2] \in IDsOf[p]
    BY <1>0, BusyOK DEF Storing
  <1>3. Held(s) /\ w[p].obj = ObjAt(s)
    BY <1>0, <1>2, BusyOK DEF Mine, Stored
  <1>4. ASSUME NEW x \in Places, x # s
        PROVE  /\ Held(x)' <=> Held(x)
               /\ Held(x) => ObjAt(x)' = ObjAt(x) /\ objs'[ObjAt(x)] = objs[ObjAt(x)]
    <2>1. (Held(x)' <=> Held(x)) /\ ObjAt(x)' = ObjAt(x)
      BY DEF Held, ObjAt, PmOf
    <2>2. ASSUME Held(x) PROVE ObjAt(x) \in DOMAIN objs /\ ObjAt(x) # w[p].obj
      BY <1>2, <1>3, <1>4, <2>2, ApartOK, PlaceOK
    <2>3. QED
      BY <2>1, <2>2
  <1>5. ASSUME NEW q \in Workers, q # p, Dropping(w[q])
        PROVE  objs'[w[q].obj] = objs[w[q].obj]
    <2>1. w[q].obj \in DOMAIN objs /\ Drops(q)
      BY <1>5 DEF SoloInv, Mine, Dropped, Dropping, Drops
    <2>2. w[q].obj # w[p].obj
      <3>1. w[p].pm \in DOMAIN pms /\ w[p].id \in DOMAIN pms[w[p].pm].Peers
            /\ w[p].obj = pms[w[p].pm].Peers[w[p].id]
        BY <1>0, <1>2, <1>3, BusyOK DEF Storing, Worker
      <3>2. QED
        BY <2>1, <3>1 DEF IInv, Owners, EntryOnly
    <2>3. QED
      BY <2>1, <2>2
  <1>6. Frame(p, s)
    BY <1>0, <1>1, <1>2, <1>4, <1>5 DEF Frame
  <1>7. QED
    BY <1>0, <1>1, <1>6

\* A worker that goes on storing
LEMMA During ==
    ASSUME Solo, IInv, IInv', SoloInv, UsersInv, NEW p \in Workers, Storing(w[p]),
           NEW c \in {"gauges", "ip", "swap", "write", "writeIP", "writeSeen"}, Goto(p, c),
           hashmap' = hashmap, pms' = pms, t' = t,
           \A o \in DOMAIN objs : o # w[p].obj => objs'[o] = objs[o],
           w'[p].pc \in {"gauges", "ip", "swap"} /\ w'[p].exists => objs'[w[p].obj].IP \in IPs,
           c = "swap" => w[p].exists /\ objs'[w[p].obj].IP # w[p].ip,
           c \in {"writeIP", "writeSeen"} => objs'[w[p].obj].Complete = w[p].complete,
           c = "writeSeen" => objs'[w[p].obj].IP = w[p].ip,
           Pays(p)
    PROVE  SoloInv' /\ UsersInv' /\ UNCHANGED Atomic!vars
  <1>0. PICK s : s = PlaceOf(w[p])
    OBVIOUS
  <1> DEFINE l == [w[p] EXCEPT !.pc = c]
  <1>1. w' = [w EXCEPT ![p] = l]
    BY DEF Goto, IInv, Types
  <1>2. /\ l.pc = c /\ l.op = w[p].op /\ l.hash = w[p].hash /\ l.id = w[p].id /\ l.ip = w[p].ip
        /\ l.complete = w[p].complete /\ l.pm = w[p].pm /\ l.obj = w[p].obj
        /\ l.exists = w[p].exists
    BY LocalsOK DEF Locals
  <1> HIDE DEF l
  <1>3. PlaceOf(l) = s /\ Storing(l) /\ ~Dropping(l) /\ Seen(l) = Seen(w[p])
    BY <1>0, <1>2 DEF PlaceOf, Storing, Dropping, Seen
  <1>4. Frame(p, s) /\ w'[p] = l
    BY <1>0, <1>1, <1>3, OwnFrame
  <1>5. (Held(s)' <=> Held(s)) /\ ObjAt(s)' = ObjAt(s)
    BY DEF Held, ObjAt, PmOf
  <1>6. Mine(p) /\ Stored(p) /\ w[p].pc # "idle"
    BY DEF SoloInv, Mine, Storing
  <1>7. Stored(p)'
    BY <1>0, <1>2, <1>3, <1>4, <1>5, <1>6 DEF Stored, Storing
  <1>8. Mine(p)'
    <2>1. Finding(p)' /\ Dropped(p)'
      BY <1>2, <1>3, <1>4 DEF Finding, Dropped, Dropping
    <2>2. QED
      BY <1>2, <1>4, <1>6, <1>7, <2>1 DEF Mine
  <1>9. Busy(p, s) /\ Busy(p, s)'
    <2>1. l.pc # "idle"
      BY <1>2
    <2>2. QED
      BY <1>0, <1>3, <1>4, <1>6, <2>1 DEF Busy
  <1>10. Settled(s)'
    BY <1>3, <1>4, <1>9 DEF Settled
  <1>11. View(p, s)' = View(p, s)
    BY <1>3, <1>4, <1>9 DEF View, Seen
  <1>12. QED
    BY <1>4, <1>8, <1>10, <1>11, Silent

LEMMA SaveGaugesSilent ==
    ASSUME Solo, IInv, IInv', SoloInv, UsersInv, NEW p \in Workers, SaveGauges(p)
    PROVE  SoloInv' /\ UsersInv' /\ UNCHANGED Atomic!vars
  <1> DEFINE c == IF w[p].exists THEN "ip" ELSE "write"
             was == objs[w[p].obj].Complete
  <1>1. /\ w[p].pc = "gauges" /\ w[p].op = "save" /\ Goto(p, c)
        /\ seeds' = seeds + CompleteDelta(w[p].exists, was, w[p].complete)
        /\ leeches' = leeches + IncompleteDelta(w[p].exists, was, w[p].complete)
        /\ hashmap' = hashmap /\ pms' = pms /\ t' = t /\ objs' = objs /\ ipstats' = ipstats
    BY DEF SaveGauges, heap
  <1>2. Storing(w[p]) /\ Stored(p)
    BY <1>1 DEF Storing, SoloInv, Mine
  <1>3. /\ w'[p].pc = c /\ w'[p].op = "save" /\ w'[p].exists = w[p].exists /\ w'[p].ip = w[p].ip
        /\ w'[p].obj = w[p].obj
    <2>1. w[p] \in Locals /\ w' = [w EXCEPT ![p].pc = c]
      BY <1>1, LocalsOK DEF Goto
    <2>2. QED
      BY <1>1, <2>1 DEF IInv, Types, Locals
  <1>4. Pays(p)
    <2>1. OwesGauges(p) /\ ~OwesGauges(p)'
      BY <1>1, <1>3 DEF OwesGauges, Owes
    <2>2. /\ OwedSeeds(p) = CompleteDelta(w[p].exists, was, w[p].complete) /\ OwedSeeds(p)' = 0
          /\ OwedLeeches(p) = IncompleteDelta(w[p].exists, was, w[p].complete)
          /\ OwedLeeches(p)' = 0
      BY <1>1, <2>1 DEF OwedSeeds, OwedLeeches
    <2>3. ASSUME NEW ip \in IPs PROVE OwedIP(p, ip)' = OwedIP(p, ip)
      <3>1. MovesIP(p)' <=> MovesIP(p)
        BY <1>1, <1>3 DEF MovesIP, Owes
      <3>2. /\ ~(Owes(p, {"ip"}, "save") /\ ~w[p].exists)
            /\ ~(Owes(p, {"ip"}, "save")' /\ ~w'[p].exists)
            /\ ~Owes(p, {"gauges", "free"}, "drop") /\ ~Owes(p, {"gauges", "free"}, "drop")'
        BY <1>1, <1>3 DEF Owes
      <3>3. QED
        BY <1>1, <1>3, <3>1, <3>2 DEF OwedIP, OwesInc, OwesRemove
    <2>4. seeds \in Int /\ leeches \in Int
      BY DEF IInv, Types, Scalars
    <2>5. \A ip \in IPs : Get(ipstats, ip)' = Get(ipstats, ip) /\ Get(ipstats, ip) \in Int
      BY <1>1 DEF UsersInv
    <2>6. seeds' + OwedSeeds(p)' = seeds + OwedSeeds(p)
          /\ leeches' + OwedLeeches(p)' = leeches + OwedLeeches(p)
      <3> DEFINE d == CompleteDelta(w[p].exists, was, w[p].complete)
                 e == IncompleteDelta(w[p].exists, was, w[p].complete)
      <3>1. d \in Int /\ e \in Int
        BY DEF CompleteDelta, IncompleteDelta
      <3> HIDE DEF d, e
      <3>2. seeds' = seeds + d /\ leeches' = leeches + e /\ OwedSeeds(p) = d /\ OwedLeeches(p) = e
        BY <1>1, <2>2 DEF d, e
      <3>3. QED
        BY <2>2, <2>4, <3>1, <3>2
    <2>7. QED
      BY <2>3, <2>5, <2>6 DEF Pays
  <1>5. w'[p].pc \in {"gauges", "ip", "swap"} /\ w'[p].exists => objs'[w[p].obj].IP \in IPs
    BY <1>1, <1>2, <1>3 DEF Stored
  <1>6. CASE w[p].exists
    BY <1>1, <1>2, <1>4, <1>5, <1>6, During
  <1>7. CASE ~w[p].exists
    BY <1>1, <1>2, <1>4, <1>5, <1>7, During
  <1>8. QED
    BY <1>6, <1>7

LEMMA SaveIPSilent ==
    ASSUME Solo, IInv, IInv', SoloInv, UsersInv, NEW p \in Workers, SaveIP(p)
    PROVE  SoloInv' /\ UsersInv' /\ UNCHANGED Atomic!vars
  <1>1. /\ w[p].pc = "ip" /\ w[p].op = "save" /\ hashmap' = hashmap /\ pms' = pms /\ t' = t
        /\ objs' = objs /\ seeds' = seeds /\ leeches' = leeches
    BY DEF SaveIP, heap
  <1>2. Storing(w[p]) /\ Stored(p) /\ w[p].ip \in IPs
    BY <1>1 DEF Storing, SoloInv, Mine
  <1>3. ASSUME NEW c, Goto(p, c)
        PROVE  /\ w'[p].pc = c /\ w'[p].op = "save" /\ w'[p].exists = w[p].exists
               /\ w'[p].ip = w[p].ip /\ w'[p].obj = w[p].obj /\ w'[p].complete = w[p].complete
    <2>1. w[p] \in Locals /\ w' = [w EXCEPT ![p].pc = c]
      BY <1>3, LocalsOK DEF Goto
    <2>2. QED
      BY <1>1, <2>1 DEF IInv, Types, Locals
  <1>4. CASE ~w[p].exists
    <2>1. ipstats' = IPInc(ipstats, w[p].ip) /\ Goto(p, "gauges")
      BY <1>4 DEF SaveIP
    <2>2. /\ w'[p].pc = "gauges" /\ w'[p].op = "save" /\ w'[p].exists = w[p].exists
          /\ w'[p].ip = w[p].ip /\ w'[p].obj = w[p].obj /\ w'[p].complete = w[p].complete
      BY <1>3, <2>1
    <2>3. OwedSeeds(p)' = OwedSeeds(p) /\ OwedLeeches(p)' = OwedLeeches(p)
      <3>1. OwesGauges(p) /\ OwesGauges(p)'
        BY <1>1, <1>4, <2>2 DEF OwesGauges, Owes
      <3>2. QED
        BY <1>1, <2>2, <3>1 DEF OwedSeeds, OwedLeeches
    <2>4. ASSUME NEW ip \in IPs
          PROVE  OwedIP(p, ip)' = 0 /\ OwedIP(p, ip) = IF ip = w[p].ip THEN 1 ELSE 0
      <3>1. ~MovesIP(p) /\ ~MovesIP(p)' /\ Owes(p, {"ip"}, "save") /\ ~Owes(p, {"ip"}, "save")'
            /\ ~Owes(p, {"gauges", "free"}, "drop") /\ ~Owes(p, {"gauges", "free"}, "drop")'
        BY <1>1, <1>4, <2>2 DEF MovesIP, Owes
      <3>2. QED
        BY <1>4, <3>1 DEF OwedIP, OwesInc, OwesRemove
    <2>5. ASSUME NEW ip \in IPs
          PROVE  /\ Get(ipstats, ip)' \in Int
                 /\ Get(ipstats, ip)' + OwedIP(p, ip)' = Get(ipstats, ip) + OwedIP(p, ip)
      <3>1. Get(ipstats, ip)' = IF ip = w[p].ip THEN Get(ipstats, ip) + 1 ELSE Get(ipstats, ip)
        <4>1. Get(ipstats, ip)' = Get(IPInc(ipstats, w[p].ip), ip)
          BY <2>1 DEF Get
        <4>2. QED
          BY <4>1, GetOK, CountsFit
      <3>2. Get(ipstats, ip) \in Int
        BY DEF UsersInv
      <3>3. QED
        BY <2>4, <3>1, <3>2
    <2>6. Pays(p)
      BY <1>1, <2>3, <2>5 DEF Pays
    <2>7. QED
      BY <1>1, <1>2, <1>4, <2>1, <2>2, <2>6, During
  <1>5. CASE w[p].exists
    <2> DEFINE c == IF objs[w[p].obj].IP = w[p].ip THEN "write" ELSE "swap"
    <2>1. ipstats' = ipstats /\ Goto(p, c)
      BY <1>5 DEF SaveIP
    <2>2. /\ w'[p].pc = c /\ w'[p].op = "save" /\ w'[p].exists = w[p].exists
          /\ w'[p].ip = w[p].ip /\ w'[p].obj = w[p].obj /\ w'[p].complete = w[p].complete
      BY <1>3, <2>1
    <2>3. OwedSeeds(p)' = OwedSeeds(p) /\ OwedLeeches(p)' = OwedLeeches(p)
      <3>1. ~OwesGauges(p) /\ ~OwesGauges(p)'
        BY <1>1, <1>5, <2>2 DEF OwesGauges, Owes
      <3>2. QED
        BY <3>1 DEF OwedSeeds, OwedLeeches
    <2>4. ASSUME NEW ip \in IPs PROVE OwedIP(p, ip)' = OwedIP(p, ip)
      <3>1. MovesIP(p)' <=> MovesIP(p)
        BY <1>1, <1>5, <2>2 DEF MovesIP, Owes
      <3>2. /\ ~Owes(p, {"gauges", "free"}, "drop") /\ ~Owes(p, {"gauges", "free"}, "drop")'
            /\ w[p].exists /\ w'[p].exists
        BY <1>1, <1>5, <2>2 DEF Owes
      <3>3. QED
        BY <1>1, <2>2, <3>1, <3>2 DEF OwedIP, OwesInc, OwesRemove
    <2>5. Pays(p)
      <3>1. \A ip \in IPs : Get(ipstats, ip)' = Get(ipstats, ip) /\ Get(ipstats, ip) \in Int
        BY <2>1 DEF UsersInv
      <3>2. QED
        BY <1>1, <2>3, <2>4, <3>1 DEF Pays
    <2>6. w'[p].pc \in {"gauges", "ip", "swap"} /\ w'[p].exists => objs'[w[p].obj].IP \in IPs
      BY <1>1, <1>2, <1>5 DEF Stored
    <2>7. CASE objs[w[p].obj].IP = w[p].ip
      BY <1>1, <1>2, <1>5, <2>1, <2>5, <2>6, <2>7, During
    <2>8. CASE objs[w[p].obj].IP # w[p].ip
      BY <1>1, <1>2, <1>5, <2>1, <2>5, <2>6, <2>8, During
    <2>9. QED
      BY <2>7, <2>8
  <1>6. QED
    BY <1>4, <1>5

\* A worker that is past its debts pays nothing and owes nothing
LEMMA NothingToPay ==
    ASSUME IInv, UsersInv, NEW p \in Workers, metrics' = metrics,
           w[p].pc \in {"write", "writeIP", "writeSeen"},
           w'[p].pc \in {"idle", "write", "writeIP", "writeSeen"}
    PROVE  Pays(p)
  <1>1. ~OwesGauges(p) /\ ~OwesGauges(p)'
    BY DEF OwesGauges, Owes
  <1>2. /\ ~MovesIP(p) /\ ~Owes(p, {"ip"}, "save") /\ ~Owes(p, {"gauges", "free"}, "drop")
        /\ ~MovesIP(p)' /\ ~Owes(p, {"ip"}, "save")' /\ ~Owes(p, {"gauges", "free"}, "drop")'
    BY DEF MovesIP, Owes
  <1>3. /\ OwedSeeds(p) = 0 /\ OwedLeeches(p) = 0 /\ OwedSeeds(p)' = 0 /\ OwedLeeches(p)' = 0
        /\ \A ip \in IPs : OwedIP(p, ip) = 0 /\ OwedIP(p, ip)' = 0
    BY <1>1, <1>2 DEF OwedSeeds, OwedLeeches, OwedIP, OwesInc, OwesRemove
  <1>4. seeds' = seeds /\ leeches' = leeches
        /\ \A ip \in IPs : Get(ipstats, ip)' = Get(ipstats, ip) /\ Get(ipstats, ip) \in Int
    BY DEF metrics, UsersInv
  <1>5. QED
    BY <1>3, <1>4 DEF Pays

LEMMA SaveSwapIPSilent ==
    ASSUME Solo, IInv, IInv', SoloInv, UsersInv, NEW p \in Workers, SaveSwapIP(p)
    PROVE  SoloInv' /\ UsersInv' /\ UNCHANGED Atomic!vars
  <1>1. /\ w[p].pc = "swap" /\ hashmap' = hashmap /\ pms' = pms /\ t' = t
        /\ objs' = objs /\ seeds' = seeds /\ leeches' = leeches /\ Goto(p, "write")
        /\ ipstats' = IPInc(IPRemove(ipstats, objs[w[p].obj].IP), w[p].ip)
    BY DEF SaveSwapIP, heap
  <1>2. w[p].op = "save"
    BY <1>1, AtOK
  <1>3. Storing(w[p]) /\ Stored(p) /\ w[p].ip \in IPs
    BY <1>1, <1>2 DEF Storing, SoloInv, Mine
  <1>4. PICK old \in IPs, new \in IPs :
           old = objs[w[p].obj].IP /\ new = w[p].ip /\ old # new /\ w[p].exists
    BY <1>1, <1>3 DEF Stored
  <1>5. w'[p].pc = "write" /\ w'[p].op = "save"
    <2>1. w[p] \in Locals /\ w' = [w EXCEPT ![p].pc = "write"]
      BY <1>1, LocalsOK DEF Goto
    <2>2. QED
      BY <1>2, <2>1 DEF IInv, Types, Locals
  <1>6. ~OwesGauges(p) /\ ~OwesGauges(p)'
    BY <1>1, <1>5 DEF OwesGauges, Owes
  <1>7. OwedSeeds(p) = 0 /\ OwedLeeches(p) = 0 /\ OwedSeeds(p)' = 0 /\ OwedLeeches(p)' = 0
    BY <1>6 DEF OwedSeeds, OwedLeeches
  <1>8. ASSUME NEW ip \in IPs
        PROVE  /\ Get(ipstats, ip)' \in Int
               /\ Get(ipstats, ip)' + OwedIP(p, ip)' = Get(ipstats, ip) + OwedIP(p, ip)
    <2>1. MovesIP(p) /\ ~MovesIP(p)' /\ ~Owes(p, {"ip"}, "save")'
          /\ ~Owes(p, {"gauges", "free"}, "drop")'
      BY <1>1, <1>2, <1>4, <1>5 DEF MovesIP, Owes
    <2>2. OwedIP(p, ip)' = 0
      BY <2>1 DEF OwedIP, OwesInc, OwesRemove
    <2>3. OwedIP(p, ip) = (IF ip = new THEN 1 ELSE 0) - (IF ip = old THEN 1 ELSE 0)
      BY <1>4, <2>1 DEF OwedIP, OwesInc, OwesRemove
    <2>4. Get(ipstats, ip)' = Get(IPInc(IPRemove(ipstats, old), new), ip)
      BY <1>1, <1>4 DEF Get
    <2>5. Get(ipstats, ip)' =
              IF ip = new THEN Int16(Get(IPRemove(ipstats, old), new) + 1)
              ELSE Get(IPRemove(ipstats, old), ip)
      BY <2>4, GetOK
    <2>6. Get(IPRemove(ipstats, old), ip) = IF ip = old THEN Int16(Get(ipstats, old) - 1)
                                            ELSE Get(ipstats, ip)
      BY GetOK
    <2>7. Get(IPRemove(ipstats, old), new) = Get(ipstats, new)
      BY <1>4, GetOK
    <2>8. /\ Int16(Get(ipstats, new) + 1) = Get(ipstats, new) + 1
          /\ Int16(Get(ipstats, old) - 1) = Get(ipstats, old) - 1
          /\ Get(ipstats, ip) \in Int
      BY CountsFit DEF UsersInv
    <2>9. CASE ip = new
      BY <1>4, <2>2, <2>3, <2>5, <2>7, <2>8, <2>9
    <2>10. CASE ip = old
      BY <1>4, <2>2, <2>3, <2>5, <2>6, <2>8, <2>10
    <2>11. CASE ip # new /\ ip # old
      BY <2>2, <2>3, <2>5, <2>6, <2>8, <2>11
    <2>12. QED
      BY <2>9, <2>10, <2>11
  <1>9. Pays(p)
    BY <1>1, <1>7, <1>8 DEF Pays
  <1>10. QED
    BY <1>1, <1>3, <1>5, <1>9, During

LEMMA SaveWriteCompleteSilent ==
    ASSUME Solo, IInv, IInv', SoloInv, UsersInv, NEW p \in Workers, SaveWriteComplete(p)
    PROVE  SoloInv' /\ UsersInv' /\ UNCHANGED Atomic!vars
  <1>1. /\ w[p].pc = "write" /\ hashmap' = hashmap /\ pms' = pms /\ t' = t /\ metrics' = metrics
        /\ Goto(p, "writeIP") /\ objs' = [objs EXCEPT ![w[p].obj].Complete = w[p].complete]
    BY DEF SaveWriteComplete
  <1>2. w[p].op = "save" /\ w[p].obj \in DOMAIN objs
    BY <1>1, AtOK
  <1>3. Storing(w[p])
    BY <1>1, <1>2 DEF Storing
  <1>4. w'[p].pc = "writeIP"
    <2>1. w[p] \in Locals /\ w' = [w EXCEPT ![p].pc = "writeIP"]
      BY <1>1, LocalsOK DEF Goto
    <2>2. QED
      BY <2>1 DEF IInv, Types, Locals
  <1>5. Pays(p)
    BY <1>1, <1>4, NothingToPay
  <1>6. /\ \A o \in DOMAIN objs : o # w[p].obj => objs'[o] = objs[o]
        /\ objs'[w[p].obj].Complete = w[p].complete
    <2>1. objs[w[p].obj] \in Peer
      BY <1>1, AtOK
    <2>2. QED
      BY <1>1, <1>2, <2>1 DEF Peer
  <1>7. QED
    BY <1>1, <1>3, <1>4, <1>5, <1>6, During

LEMMA SaveWriteIPSilent ==
    ASSUME Solo, IInv, IInv', SoloInv, UsersInv, NEW p \in Workers, SaveWriteIP(p)
    PROVE  SoloInv' /\ UsersInv' /\ UNCHANGED Atomic!vars
  <1>1. /\ w[p].pc = "writeIP" /\ hashmap' = hashmap /\ pms' = pms /\ t' = t /\ metrics' = metrics
        /\ Goto(p, "writeSeen") /\ objs' = [objs EXCEPT ![w[p].obj].IP = w[p].ip]
    BY DEF SaveWriteIP
  <1>2. w[p].op = "save" /\ w[p].obj \in DOMAIN objs
    BY <1>1, AtOK
  <1>3. Storing(w[p])
    BY <1>1, <1>2 DEF Storing
  <1>4. w'[p].pc = "writeSeen"
    <2>1. w[p] \in Locals /\ w' = [w EXCEPT ![p].pc = "writeSeen"]
      BY <1>1, LocalsOK DEF Goto
    <2>2. QED
      BY <2>1 DEF IInv, Types, Locals
  <1>5. Pays(p)
    BY <1>1, <1>4, NothingToPay
  <1>6. /\ \A o \in DOMAIN objs : o # w[p].obj => objs'[o] = objs[o]
        /\ objs'[w[p].obj].Complete = w[p].complete /\ objs'[w[p].obj].IP = w[p].ip
    <2>1. objs[w[p].obj] \in Peer
      BY <1>1, AtOK
    <2>2. objs[w[p].obj].Complete = w[p].complete
      BY <1>1, <1>3 DEF SoloInv, Mine, Stored
    <2>3. QED
      BY <1>1, <1>2, <2>1, <2>2 DEF Peer
  <1>7. QED
    BY <1>1, <1>3, <1>4, <1>5, <1>6, During

LEMMA SaveWriteSeenSilent ==
    ASSUME Solo, IInv, IInv', SoloInv, UsersInv, NEW p \in Workers, SaveWriteSeen(p)
    PROVE  SoloInv' /\ UsersInv' /\ UNCHANGED Atomic!vars
  <1>0. PICK s : s = PlaceOf(w[p])
    OBVIOUS
  <1>1. /\ w[p].pc = "writeSeen" /\ hashmap' = hashmap /\ pms' = pms /\ t' = t
        /\ metrics' = metrics
        /\ w' = [w EXCEPT ![p] = IdleWorker] /\ objs' = [objs EXCEPT ![w[p].obj].LastSeen = clock]
    BY DEF SaveWriteSeen, Return
  <1>2. w[p].op = "save" /\ w[p].obj \in DOMAIN objs /\ objs[w[p].obj] \in Peer
    BY <1>1, AtOK
  <1>3. Storing(w[p]) /\ w[p].pc # "idle"
    BY <1>1, <1>2 DEF Storing
  <1>4. Mine(p) /\ Stored(p)
    BY DEF SoloInv, Mine
  <1>5. /\ \A o \in DOMAIN objs : o # w[p].obj => objs'[o] = objs[o]
        /\ objs'[w[p].obj].Complete = w[p].complete /\ objs'[w[p].obj].IP = w[p].ip
    <2>1. objs[w[p].obj].Complete = w[p].complete /\ objs[w[p].obj].IP = w[p].ip
      BY <1>1, <1>3, <1>4 DEF Stored
    <2>2. QED
      BY <1>1, <1>2, <2>1 DEF Peer
  <1>6. Frame(p, s) /\ w'[p] = IdleWorker
    BY <1>0, <1>1, <1>3, <1>5, IdleOK, OwnFrame
  <1>7. Held(s) /\ ObjAt(s)' = w[p].obj /\ ObjAt(s) = w[p].obj
    <2>1. Held(s) /\ ObjAt(s) = w[p].obj
      BY <1>0, <1>3, <1>4 DEF Stored
    <2>2. QED
      BY <1>1, <2>1 DEF ObjAt, PmOf
  <1>8. Mine(p)'
    BY <1>6, IdleOK DEF Mine, Finding, Stored, Dropped, Storing, Dropping
  <1>9. Settled(s)'
    <2>1. w[p].ip \in IPs
      BY <1>2, <1>3, <1>4 DEF Mine
    <2>2. QED
      BY <1>5, <1>7, <2>1 DEF Settled
  <1>10. View(p, s)' = View(p, s)
    <2>1. Busy(p, s) /\ ~Busy(p, s)'
      BY <1>0, <1>3, <1>6, IdleOK DEF Busy
    <2>2. QED
      BY <1>3, <1>5, <1>7, <2>1 DEF View, Seen, Kept
  <1>11. Pays(p)
    BY <1>1, <1>6, IdleOK, NothingToPay
  <1>12. QED
    BY <1>1, <1>6, <1>8, <1>9, <1>10, <1>11, Silent

LEMMA DropGaugesSilent ==
    ASSUME Solo, IInv, IInv', SoloInv, UsersInv, NEW p \in Workers, DropGauges(p)
    PROVE  SoloInv' /\ UsersInv' /\ UNCHANGED Atomic!vars
  <1>0. PICK s : s = PlaceOf(w[p])
    OBVIOUS
  <1> DEFINE was == objs[w[p].obj].Complete
             l == [w[p] EXCEPT !.pc = "free"]
  <1>1. /\ w[p].pc = "gauges" /\ w[p].op = "drop" /\ hashmap' = hashmap /\ pms' = pms /\ t' = t
        /\ objs' = objs /\ ipstats' = ipstats /\ w' = [w EXCEPT ![p] = l]
        /\ seeds' = seeds - (IF was THEN 1 ELSE 0) /\ leeches' = leeches - (IF was THEN 0 ELSE 1)
    BY DEF DropGauges, Goto, heap, IInv, Types
  <1>2. /\ l.pc = "free" /\ l.op = w[p].op /\ l.hash = w[p].hash /\ l.id = w[p].id /\ l.ip = w[p].ip
        /\ l.pm = w[p].pm /\ l.obj = w[p].obj
    BY LocalsOK DEF Locals
  <1> HIDE DEF l
  <1>3. /\ s \in Places /\ s[2] \in IDsOf[p] /\ PlaceOf(l) = s /\ Dropping(w[p]) /\ Mine(p)
        /\ Dropping(l)
    BY <1>0, <1>1, <1>2, BusyOK DEF PlaceOf, Dropping
  <1>4. Frame(p, s) /\ w'[p] = l
    BY <1>0, <1>1, <1>3, SameHeap
  <1>5. ~Held(s) /\ ~Held(s)'
    BY <1>0, <1>1, <1>3 DEF Mine, Dropped, Held, PmOf
  <1>6. Mine(p)'
    <2>1. Finding(p)' /\ Stored(p)'
      BY <1>1, <1>2, <1>4 DEF Finding, Stored, Storing
    <2>2. Dropped(p)'
      BY <1>1, <1>2, <1>3, <1>4, <1>5 DEF Mine, Dropped
    <2>3. QED
      BY <1>1, <1>2, <1>3, <1>4, <2>1, <2>2 DEF Mine
  <1>7. Settled(s)'
    BY <1>5 DEF Settled
  <1>8. Pays(p)
    <2>1. /\ OwedSeeds(p) = (IF was THEN -1 ELSE 0) /\ OwedLeeches(p) = (IF was THEN 0 ELSE -1)
      BY <1>1 DEF OwedSeeds, OwedLeeches, OwesGauges, Owes
    <2>2. OwedSeeds(p)' = 0 /\ OwedLeeches(p)' = 0
      BY <1>2, <1>4 DEF OwedSeeds, OwedLeeches, OwesGauges, Owes
    <2>3. ASSUME NEW ip \in IPs PROVE OwedIP(p, ip)' = OwedIP(p, ip)
      <3>1. /\ Owes(p, {"gauges", "free"}, "drop") /\ Owes(p, {"gauges", "free"}, "drop")'
            /\ ~MovesIP(p) /\ ~MovesIP(p)' /\ ~Owes(p, {"ip"}, "save") /\ ~Owes(p, {"ip"}, "save")'
        BY <1>1, <1>2, <1>4 DEF Owes, MovesIP
      <3>2. QED
        BY <1>1, <1>2, <1>4, <3>1 DEF OwedIP, OwesInc, OwesRemove
    <2>4. seeds \in Int /\ leeches \in Int
      BY DEF IInv, Types, Scalars
    <2>5. seeds' + OwedSeeds(p)' = seeds + OwedSeeds(p)
          /\ leeches' + OwedLeeches(p)' = leeches + OwedLeeches(p)
      BY <1>1, <2>1, <2>2, <2>4
    <2>6. \A ip \in IPs : Get(ipstats, ip)' = Get(ipstats, ip) /\ Get(ipstats, ip) \in Int
      BY <1>1 DEF UsersInv
    <2>7. QED
      BY <2>3, <2>5, <2>6 DEF Pays
  <1>9. QED
    BY <1>1, <1>4, <1>5, <1>6, <1>7, <1>8, Silent

LEMMA DropFreeSilent ==
    ASSUME Solo, IInv, IInv', SoloInv, UsersInv, NEW p \in Workers, DropFree(p)
    PROVE  SoloInv' /\ UsersInv' /\ UNCHANGED Atomic!vars
  <1>0. PICK s : s = PlaceOf(w[p])
    OBVIOUS
  <1>1. /\ w[p].pc = "free" /\ hashmap' = hashmap /\ pms' = pms /\ t' = t
        /\ objs' = objs /\ seeds' = seeds /\ leeches' = leeches /\ w' = [w EXCEPT ![p] = IdleWorker]
        /\ ipstats' = IPRemove(ipstats, objs[w[p].obj].IP)
    BY DEF DropFree, Return
  <1>2. w[p].op = "drop"
    BY <1>1, AtOK
  <1>3. s \in Places /\ s[2] \in IDsOf[p] /\ Dropping(w[p]) /\ Mine(p)
    BY <1>0, <1>1, <1>2, BusyOK DEF Dropping
  <1>4. Frame(p, s) /\ w'[p] = IdleWorker
    BY <1>0, <1>1, <1>3, IdleOK, SameHeap
  <1>5. ~Held(s) /\ ~Held(s)'
    BY <1>0, <1>1, <1>3 DEF Mine, Dropped, Held, PmOf
  <1>6. PICK old \in IPs : old = objs[w[p].obj].IP
    BY <1>3 DEF Mine, Dropped
  <1>7. Mine(p)'
    BY <1>4, IdleOK DEF Mine, Finding, Stored, Dropped, Storing, Dropping
  <1>8. Settled(s)'
    BY <1>5 DEF Settled
  <1>9. Pays(p)
    <2>1. OwedSeeds(p) = 0 /\ OwedLeeches(p) = 0 /\ OwedSeeds(p)' = 0 /\ OwedLeeches(p)' = 0
      BY <1>1, <1>4, IdleOK DEF OwedSeeds, OwedLeeches, OwesGauges, Owes
    <2>2. ASSUME NEW ip \in IPs
          PROVE  /\ Get(ipstats, ip)' \in Int
                 /\ Get(ipstats, ip)' + OwedIP(p, ip)' = Get(ipstats, ip) + OwedIP(p, ip)
      <3>1. Owes(p, {"gauges", "free"}, "drop") /\ ~MovesIP(p) /\ ~Owes(p, {"ip"}, "save")
        BY <1>1, <1>2 DEF Owes, MovesIP
      <3>2. OwedIP(p, ip) = IF ip = old THEN -1 ELSE 0
        BY <1>6, <3>1 DEF OwedIP, OwesInc, OwesRemove
      <3>3. OwedIP(p, ip)' = 0
        BY <1>4, IdleOK DEF OwedIP, OwesInc, OwesRemove, MovesIP, Owes
      <3>4. Get(ipstats, ip)' = Get(IPRemove(ipstats, old), ip)
        BY <1>1, <1>6 DEF Get
      <3>5. Get(ipstats, ip)' = IF ip = old THEN Get(ipstats, ip) - 1 ELSE Get(ipstats, ip)
        BY <3>4, GetOK, CountsFit
      <3>6. Get(ipstats, ip) \in Int
        BY DEF UsersInv
      <3>7. QED
        BY <3>2, <3>3, <3>5, <3>6
    <2>3. QED
      BY <1>1, <2>1, <2>2 DEF Pays
  <1>10. QED
    BY <1>1, <1>4, <1>5, <1>7, <1>8, <1>9, Silent

-----------------------------------------------------------------------------
(* The steps that PeerDb does see *)

Tally(n) == [ip \in {i \in IPs : n[i] # 0} |-> n[ip]]

LEMMA AtomicOps ==
    \A m, i : Atomic!IPInc(m, i) = IPInc(m, i) /\ Atomic!IPRemove(m, i) = IPRemove(m, i)
  BY DEF Atomic!IPInc, Atomic!IPRemove, Atomic!Put, Atomic!Del, Atomic!Get, Atomic!Int16,
         IPInc, IPRemove, Put, Del, Get, Int16

LEMMA TallyInc ==
    ASSUME NEW n \in [IPs -> Int], NEW i \in IPs, n[i] >= 0, Int16(n[i] + 1) = n[i] + 1
    PROVE  IPInc(Tally(n), i) = Tally([n EXCEPT ![i] = n[i] + 1])
  <1> DEFINE m == [n EXCEPT ![i] = n[i] + 1]
  <1>1. Get(Tally(n), i) = n[i]
    BY DEF Get, Tally
  <1>2. IPInc(Tally(n), i) = Put(Tally(n), i, n[i] + 1)
    BY <1>1 DEF IPInc
  <1>3. m[i] = n[i] + 1 /\ m[i] # 0 /\ \A j \in IPs : j # i => m[j] = n[j]
    BY DEF m
  <1> HIDE DEF m
  <1>4. {j \in IPs : m[j] # 0} = {j \in IPs : n[j] # 0} \cup {i}
    BY <1>3
  <1>5. Put(Tally(n), i, n[i] + 1) = [j \in {j \in IPs : n[j] # 0} \cup {i} |-> m[j]]
    BY <1>3 DEF Put, Tally
  <1>6. QED
    BY <1>2, <1>4, <1>5 DEF m, Tally

LEMMA TallyRemove ==
    ASSUME NEW n \in [IPs -> Int], NEW i \in IPs, Int16(n[i] - 1) = n[i] - 1
    PROVE  IPRemove(Tally(n), i) = Tally([n EXCEPT ![i] = n[i] - 1])
  <1> DEFINE m == [n EXCEPT ![i] = n[i] - 1]
             D == {j \in IPs : n[j] # 0}
             E == {j \in IPs : m[j] # 0}
  <1>1. Get(Tally(n), i) = n[i]
    BY DEF Get, Tally
  <1>2. m[i] = n[i] - 1 /\ \A j \in IPs : j # i => m[j] = n[j]
    BY DEF m
  <1>3. DOMAIN Tally(n) = D /\ \A j \in D : Tally(n)[j] = n[j]
    BY DEF Tally
  <1>4. Tally(m) = [j \in E |-> m[j]]
    BY DEF Tally
  <1>5. CASE n[i] - 1 = 0
    <2>1. IPRemove(Tally(n), i) = [j \in D \ {i} |-> Tally(n)[j]]
      BY <1>1, <1>3, <1>5 DEF IPRemove, Del
    <2> HIDE DEF m
    <2>2. E = D \ {i}
      BY <1>2, <1>5
    <2>3. \A j \in D \ {i} : Tally(n)[j] = m[j]
      BY <1>2, <1>3
    <2>4. [j \in D \ {i} |-> Tally(n)[j]] = [j \in D \ {i} |-> m[j]]
      BY <2>3
    <2>5. QED
      BY <1>4, <2>1, <2>2, <2>4 DEF m
  <1>6. CASE n[i] - 1 # 0
    <2>1. IPRemove(Tally(n), i) = [j \in D \cup {i} |-> IF j = i THEN n[i] - 1 ELSE Tally(n)[j]]
      BY <1>1, <1>3, <1>6 DEF IPRemove, Put
    <2> HIDE DEF m
    <2>2. E = D \cup {i}
      BY <1>2, <1>6
    <2>3. \A j \in D \cup {i} : (IF j = i THEN n[i] - 1 ELSE Tally(n)[j]) = m[j]
      BY <1>2, <1>3
    <2>4. QED
      BY <1>4, <2>1, <2>2, <2>3 DEF m
  <1>7. QED
    BY <1>5, <1>6

One(b) == IF b THEN 1 ELSE 0

\* A step that changes what is seen at one place
LEMMA LoudStep ==
    ASSUME Solo, IInv, IInv', SoloInv, SoloInv', UsersInv, NEW p \in Workers,
           NEW h \in Hashes, NEW id \in PeerIDs, NEW s, s = <<h, id>>, Frame(p, s), metrics' = metrics,
           \A g \in Hashes : g # h => PmOf(g)' = PmOf(g),
           \A ip \in IPs : OwedIP(p, ip)' = OwedIP(p, ip) + One(Has(s, ip))' - One(Has(s, ip))
    PROVE  /\ AbsHashmap' = [g \in Hashes |-> IF g = h THEN AbsMap(h)' ELSE AbsMap(g)]
           /\ PaidSeeds' = PaidSeeds + (OwedSeeds(p)' - OwedSeeds(p))
           /\ PaidLeeches' = PaidLeeches + (OwedLeeches(p)' - OwedLeeches(p))
           /\ \A ip \in IPs : PaidIP(ip)' = PaidIP(ip) + One(Has(s, ip))' - One(Has(s, ip))
           /\ UsersInv'
  <1>1. \A x \in Places : x # s =>
            /\ Held(x)' <=> Held(x)
            /\ Held(x) => ObjAt(x)' = ObjAt(x) /\ AbsPeer(ObjAt(x))' = AbsPeer(ObjAt(x))
    BY FrameSeen DEF Frame
  <1>2. AbsHashmap' = [g \in Hashes |-> IF g = h THEN AbsMap(h)' ELSE AbsMap(g)]
    <2>1. ASSUME NEW g \in Hashes, g # h PROVE AbsMap(g)' = AbsMap(g)
      <3>1. PmOf(g)' = PmOf(g)
        BY <2>1
      <3>2. ASSUME NEW i \in DOMAIN PmOf(g).Peers
            PROVE  AbsPeer(ObjAt(<<g, i>>))' = AbsPeer(ObjAt(<<g, i>>))
        <4>1. hashmap[g] \in DOMAIN pms /\ pms \in Seq(PeerMaps)
          BY DEF IInv, Types, Heap, IsMap, SoloInv
        <4>2. PmOf(g) \in PeerMaps
          BY <4>1 DEF PmOf
        <4>3. i \in PeerIDs
          BY <4>2, MapsOK DEF PeerMaps, IsMap
        <4>4. PICK x \in Places : x = <<g, i>>
          BY <4>3 DEF Places
        <4>5. x # s /\ Held(x)
          BY <2>1, <4>4 DEF Held
        <4>6. AbsPeer(ObjAt(x))' = AbsPeer(ObjAt(x))
          BY <1>1, <4>5
        <4>7. QED
          BY <4>4, <4>6
      <3>3. QED
        BY <3>1, <3>2 DEF AbsMap
    <2>2. (IInv /\ SoloInv => Mapped)'
      BY AbsMapOK, PTL
    <2>3. AbsHashmap' = [g \in Hashes |-> AbsMap(g)']
      BY <2>2 DEF Mapped
    <2>4. QED
      BY <2>1, <2>3
  <1>3. seeds' = seeds /\ leeches' = leeches /\ ipstats' = ipstats /\ seeds \in Int /\ leeches \in Int
    BY DEF metrics, IInv, Types, Scalars
  <1>4. Small /\ Small' /\ Paid /\ Paid'
    BY OwedSmall, PaidUnfold, PTL
  <1>5. PaidSeeds' = PaidSeeds + (OwedSeeds(p)' - OwedSeeds(p))
    <2>1. PICK a, b \in Int : a = OwedSeeds(p) /\ b = OwedSeeds(p)'
      BY <1>4 DEF Small
    <2>2. PaidSeeds \in Int /\ PaidSeeds' = PaidSeeds + (seeds' - seeds) + (b - a)
      BY <2>1, PaidMoves
    <2>3. seeds' - seeds = 0
      BY <1>3
    <2>4. PaidSeeds' = PaidSeeds + (b - a)
      BY <2>1, <2>2, <2>3
    <2>5. QED
      BY <2>1, <2>4
  <1>6. PaidLeeches' = PaidLeeches + (OwedLeeches(p)' - OwedLeeches(p))
    <2>1. PICK a, b \in Int : a = OwedLeeches(p) /\ b = OwedLeeches(p)'
      BY <1>4 DEF Small
    <2>2. PaidLeeches \in Int /\ PaidLeeches' = PaidLeeches + (leeches' - leeches) + (b - a)
      BY <2>1, PaidMoves
    <2>3. leeches' - leeches = 0
      BY <1>3
    <2>4. PaidLeeches' = PaidLeeches + (b - a)
      BY <2>1, <2>2, <2>3
    <2>5. QED
      BY <2>1, <2>4
  <1>7. ASSUME NEW ip \in IPs
        PROVE  PaidIP(ip)' = PaidIP(ip) + One(Has(s, ip))' - One(Has(s, ip))
    <2>1. PICK a, b \in Int : a = OwedIP(p, ip) /\ b = OwedIP(p, ip)'
      BY <1>4 DEF Small
    <2>2. PICK c, d \in Int : c = One(Has(s, ip)) /\ d = One(Has(s, ip))'
      BY DEF One
    <2>3. PICK g \in Int, m \in Int : g = Get(ipstats, ip) /\ m = OwedTotal(IPMap(ip))
      <3>1. \A q \in Workers : IPMap(ip)[q] \in -1..1
        BY <1>4 DEF Small, IPMap
      <3>2. QED
        BY <3>1, TotalSmall DEF UsersInv
    <2>4. Get(ipstats, ip)' = g
      BY <1>3, <2>3 DEF Get
    <2>5. OwedTotal(IPMap(ip))' = m + (b - a)
      BY <2>1, <2>3, PaidMoves
    <2>6. PaidIP(ip)' = g + (m + (b - a)) /\ PaidIP(ip) = g + m
      BY <1>4, <2>3, <2>4, <2>5 DEF Paid
    <2>7. b = a + d - c
      BY <2>1, <2>2
    <2>8. g + (m + (b - a)) = (g + m) + d - c
      BY <2>7
    <2>9. QED
      BY <2>2, <2>6, <2>8
  <1>8. ASSUME NEW ip \in IPs
        PROVE  Cardinality(Users(ip))' = Cardinality(Users(ip)) + One(Has(s, ip))' - One(Has(s, ip))
    <2>1. \A x \in Places : x # s => (Has(x, ip)' <=> Has(x, ip))
      <3>1. ASSUME NEW x \in Places, x # s PROVE Has(x, ip)' <=> Has(x, ip)
        <4>1. CASE Held(x)
          <5>1. Held(x)' /\ AbsPeer(ObjAt(x))' = AbsPeer(ObjAt(x))
            BY <1>1, <3>1, <4>1
          <5>2. QED
            BY <4>1, <5>1 DEF Has
        <4>2. CASE ~Held(x)
          BY <1>1, <3>1, <4>2 DEF Has
        <4>3. QED
          BY <4>1, <4>2
      <3>2. QED
        BY <3>1
    <2>2. PICK U, V : U = Users(ip) /\ V = Users(ip)'
      OBVIOUS
    <2>3. s \in Places
      BY DEF Places
    <2>4. (s \in U <=> Has(s, ip)) /\ (s \in V <=> Has(s, ip)') /\ U \ {s} = V \ {s}
      BY <2>1, <2>2, <2>3 DEF Users
    <2>5. IsFiniteSet(U) /\ Cardinality(U) \in Nat
      BY <2>2, UsersOK, FS_CardinalityType
    <2>6. One(Has(s, ip))' = One(s \in V) /\ One(Has(s, ip)) = One(s \in U)
      BY <2>4 DEF One
    <2>7. Cardinality(V) = Cardinality(U) + One(s \in V) - One(s \in U)
      <3>1. CASE s \in U /\ s \in V
        <4>1. U = V
          BY <2>4, <3>1
        <4>2. QED
          BY <2>5, <3>1, <4>1 DEF One
      <3>2. CASE s \in U /\ s \notin V
        <4>1. V = U \ {s}
          BY <2>4, <3>2
        <4>2. QED
          <5>1. Cardinality(V) = Cardinality(U) - 1
            BY <2>5, <3>2, <4>1, FS_RemoveElement
          <5>2. One(s \in V) = 0 /\ One(s \in U) = 1
            BY <3>2 DEF One
          <5>3. QED
            BY <2>5, <5>1, <5>2
      <3>3. CASE s \notin U /\ s \in V
        <4>1. V = U \cup {s}
          BY <2>4, <3>3
        <4>2. QED
          <5>1. Cardinality(V) = Cardinality(U) + 1
            BY <2>5, <3>3, <4>1, FS_AddElement
          <5>2. One(s \in V) = 1 /\ One(s \in U) = 0
            BY <3>3 DEF One
          <5>3. QED
            BY <2>5, <5>1, <5>2
      <3>4. CASE s \notin U /\ s \notin V
        <4>1. U = V
          BY <2>4, <3>4
        <4>2. QED
          BY <2>5, <3>4, <4>1 DEF One
      <3>5. QED
        BY <3>1, <3>2, <3>3, <3>4
    <2>8. QED
      BY <2>2, <2>6, <2>7
  <1>9. UsersInv'
    <2>1. ASSUME NEW ip \in IPs
          PROVE  Get(ipstats, ip)' \in Int /\ PaidIP(ip)' = Cardinality(Users(ip))'
      <3>1. PaidIP(ip) = Cardinality(Users(ip)) /\ Get(ipstats, ip) \in Int
        BY DEF UsersInv
      <3>2. Get(ipstats, ip)' = Get(ipstats, ip)
        BY <1>3 DEF Get
      <3>3. QED
        BY <1>7, <1>8, <3>1, <3>2
    <2>2. QED
      BY <2>1 DEF UsersInv
  <1>10. QED
    BY <1>2, <1>5, <1>6, <1>7, <1>9

PaidMap == [ip \in IPs |-> PaidIP(ip)]

LEMMA AbsIPsOK == AbsIPs = Tally(PaidMap)
  BY DEF AbsIPs, Tally, PaidMap

LEMMA PaidMapOK == UsersInv => PaidMap \in [IPs -> Int]
  BY UsersOK DEF PaidMap

LEMMA DropMaps ==
    ASSUME NEW h, NEW id, None # h, h \in DOMAIN AbsHashmap, id \in DOMAIN AbsHashmap[h].Peers,
           NEW peer, peer = AbsHashmap[h].Peers[id],
           AbsHashmap' = Put(AbsHashmap, h, Atomic!RemovePeer(AbsHashmap[h], id)),
           PaidSeeds' = PaidSeeds - (IF peer.Complete THEN 1 ELSE 0),
           PaidLeeches' = PaidLeeches - (IF peer.Complete THEN 0 ELSE 1),
           AbsIPs' = IPRemove(AbsIPs, peer.IP)
    PROVE  Atomic!Drop(h, id)
  <1>1. Paid /\ Paid'
    BY PaidUnfold, PTL
  <1>2. Atomic!Delete(h, id)
    BY <1>1, AtomicOps DEF Paid, Atomic!Delete, AbsIPs, Atomic!Put, Put
  <1>3. QED
    BY <1>2 DEF Atomic!Drop

\* PeerDb's Drop
LEMMA DropRemoveSeen ==
    ASSUME Solo, IInv, IInv', SoloInv, UsersInv, NEW p \in Workers, DropRemove(p)
    PROVE  SoloInv' /\ UsersInv' /\ [Atomic!Next]_Atomic!vars
  <1>0. PICK s, h, id, o : /\ s = PlaceOf(w[p]) /\ h = w[p].hash /\ id = w[p].id
                           /\ o = Get(pms[w[p].pm].Peers, w[p].id)
    OBVIOUS
  <1>1. /\ w[p].pc = "remove" /\ hashmap' = hashmap /\ objs' = objs /\ t' = t /\ pool' = pool
        /\ metrics' = metrics
    BY DEF DropRemove
  <1>2. /\ s = <<h, id>> /\ s \in Places /\ h \in Hashes /\ id \in PeerIDs /\ s[2] \in IDsOf[p]
        /\ w[p].pm = hashmap[h] /\ Mine(p) /\ w[p] \in Locals /\ Worker(w[p])
        /\ pms[w[p].pm] = PmOf(h) /\ ObjAt(s) = PmOf(h).Peers[id]
        /\ Held(s) <=> id \in DOMAIN PmOf(h).Peers
    BY <1>0, <1>1, BusyOK DEF PlaceOf
  <1>3. w[p].op = "drop" /\ w[p].pm \in DOMAIN pms
    BY <1>1, <1>2, IdleOK DEF Worker, SaveStates
  <1>4. ~Storing(w[p]) /\ ~Dropping(w[p])
    BY <1>1, <1>3 DEF Storing, Dropping
  <1>5. CASE ~Held(s)
    <2>1. pms' = pms /\ w' = [w EXCEPT ![p] = IdleWorker]
      BY <1>0, <1>2, <1>5 DEF DropRemove, Return
    <2>2. w'[p] = IdleWorker
      BY <2>1 DEF IInv, Types
    <2>3. ~Storing(IdleWorker) /\ ~Dropping(IdleWorker) /\ IdleWorker.pc = "idle"
      BY IdleOK DEF Storing, Dropping
    <2>4. Mine(p)'
      BY <2>2, IdleOK DEF Mine, Finding, Stored, Dropped, Storing, Dropping
    <2>5. UNCHANGED <<heap, metrics, t>>
      BY <1>1, <2>1 DEF heap
    <2>6. SoloInv' /\ UsersInv' /\ UNCHANGED Atomic!vars
      BY <1>0, <1>2, <1>4, <2>1, <2>3, <2>4, <2>5, Before
    <2>7. QED
      BY <2>6
  <1>6. CASE Held(s)
    <2> DEFINE l == [w[p] EXCEPT !.pc = "gauges", !.obj = o]
               was == objs[o].Complete
               np == RemovePeer(PmOf(h), id, was)
    <2>1. o = ObjAt(s) /\ o \in DOMAIN objs /\ objs[o] \in Peer /\ objs[o].IP \in IPs
      <3>1. o = ObjAt(s)
        BY <1>0, <1>2, <1>6 DEF Get
      <3>2. Busy(p, s) => ~Storing(w[p])
        BY <1>4
      <3>3. QED
        BY <1>2, <1>6, <3>1, <3>2, PlaceOK, OwnSettled
    <2>2. /\ pms' = [pms EXCEPT ![hashmap[h]] = np]
          /\ w' = [w EXCEPT ![p].pc = "gauges", ![p].obj = o]
      BY <1>0, <1>2, <1>6 DEF DropRemove, PmOf
    <2>3. w' = [w EXCEPT ![p] = l]
      BY <2>2 DEF IInv, Types
    <2>4. /\ l.pc = "gauges" /\ l.op = "drop" /\ l.hash = h /\ l.id = id /\ l.pm = w[p].pm
          /\ l.obj = o
      BY <1>0, <1>2, <1>3 DEF Locals
    <2> HIDE DEF l
    <2>5. w'[p] = l /\ \A q \in Workers : q # p => w'[q] = w[q]
      BY <2>3 DEF IInv, Types
    <2>6. /\ PmOf(h)' = np /\ \A g \in Hashes : g # h => PmOf(g)' = PmOf(g)
      <3>1. hashmap[h] \in DOMAIN pms /\ \A g \in Hashes : g # h => hashmap[g] # hashmap[h]
        BY <1>2, <1>3 DEF SoloInv
      <3> HIDE DEF np
      <3>2. QED
        BY <1>1, <2>2, <3>1 DEF PmOf
    <2>7. PmOf(h) \in PeerMaps
      BY <1>2, PlaceOK
    <2>8. /\ DOMAIN np.Peers = DOMAIN PmOf(h).Peers \ {id}
          /\ \A i \in DOMAIN PmOf(h).Peers \ {id} : np.Peers[i] = PmOf(h).Peers[i]
          /\ np.Complete = PmOf(h).Complete - (IF was THEN 1 ELSE 0)
          /\ np.Incomplete = PmOf(h).Incomplete - (IF was THEN 0 ELSE 1)
      <3>1. PmOf(h).Peers \in Maps
        BY <2>7 DEF PeerMaps
      <3>2. np.Peers = Del(PmOf(h).Peers, id)
        BY DEF RemovePeer
      <3>3. QED
        BY <3>1, <3>2, DelOK DEF RemovePeer
    <2> HIDE DEF np
    <2>9. ASSUME NEW x \in Places, x # s
          PROVE  (Held(x)' <=> Held(x)) /\ (Held(x) => ObjAt(x)' = ObjAt(x))
      <3>1. CASE x[1] = h
        <4>1. x[2] # id
          BY <1>2, <2>9, <3>1 DEF Places
        <4>2. PmOf(x[1])' = np
          BY <2>6, <3>1
        <4>3. QED
          BY <2>8, <3>1, <4>1, <4>2 DEF Held, ObjAt
      <3>2. CASE x[1] # h
        <4>1. PmOf(x[1])' = PmOf(x[1])
          BY <2>6, <3>2 DEF Places
        <4>2. QED
          BY <4>1 DEF Held, ObjAt
      <3>3. QED
        BY <3>1, <3>2
    <2>10. PlaceOf(l) = s
      BY <1>2, <2>4 DEF PlaceOf
    <2>11. Frame(p, s)
      BY <1>0, <1>1, <1>2, <2>5, <2>9, <2>10 DEF Frame
    <2>12. ~Held(s)'
      BY <1>2, <2>6, <2>8 DEF Held
    <2>13. Mine(p)'
      <3>1. Finding(p)' /\ Stored(p)'
        BY <2>4, <2>5 DEF Finding, Stored, Storing
      <3>2. Dropped(p)'
        BY <1>1, <2>1, <2>4, <2>5, <2>10, <2>12 DEF Dropped
      <3>3. QED
        BY <1>0, <1>1, <1>2, <2>4, <2>5, <3>1, <3>2 DEF Mine
    <2>14. SoloInv'
      <3>1. Settled(s)'
        BY <2>12 DEF Settled
      <3>2. QED
        BY <2>11, <2>13, <3>1, FrameSolo
    <2>15. AbsPeer(ObjAt(s)) = Kept(o)
      <3>1. AbsPeer(ObjAt(s)) = View(p, s)
        BY <1>2, <1>6, ViewOK DEF Views
      <3>2. QED
        BY <1>4, <2>1, <3>1 DEF View
    <2>16. /\ OwedSeeds(p) = 0 /\ OwedLeeches(p) = 0 /\ \A ip \in IPs : OwedIP(p, ip) = 0
           /\ OwedSeeds(p)' = (IF was THEN -1 ELSE 0) /\ OwedLeeches(p)' = (IF was THEN 0 ELSE -1)
      <3>1. OwesGauges(p)'
        BY <2>4, <2>5 DEF OwesGauges, Owes
      <3>2. OwedSeeds(p)' = (IF was THEN -1 ELSE 0) /\ OwedLeeches(p)' = (IF was THEN 0 ELSE -1)
        BY <1>1, <2>4, <2>5, <3>1 DEF OwedSeeds, OwedLeeches
      <3>3. QED
        BY <1>4, <3>2, NoDebtsOK DEF NoDebts
    <2>17. ASSUME NEW ip \in IPs
           PROVE  /\ OwedIP(p, ip)' = (IF ip = objs[o].IP THEN -1 ELSE 0)
                  /\ One(Has(s, ip))' = 0 /\ One(Has(s, ip)) = IF ip = objs[o].IP THEN 1 ELSE 0
      <3>1. Owes(p, {"gauges", "free"}, "drop")' /\ ~MovesIP(p)' /\ ~Owes(p, {"ip"}, "save")'
        BY <2>4, <2>5 DEF Owes, MovesIP
      <3>2. OwedIP(p, ip)' = IF ip = objs[o].IP THEN -1 ELSE 0
        BY <1>1, <2>4, <2>5, <3>1 DEF OwedIP, OwesInc, OwesRemove
      <3>3. ~Has(s, ip)' /\ (Has(s, ip) <=> ip = objs[o].IP)
        BY <1>6, <2>12, <2>15 DEF Has, Kept
      <3>4. QED
        BY <3>2, <3>3 DEF One
    <2>18. \A ip \in IPs : OwedIP(p, ip)' = OwedIP(p, ip) + One(Has(s, ip))' - One(Has(s, ip))
      BY <2>16, <2>17
    <2>19. /\ AbsHashmap' = [g \in Hashes |-> IF g = h THEN AbsMap(h)' ELSE AbsMap(g)]
           /\ PaidSeeds' = PaidSeeds + (OwedSeeds(p)' - OwedSeeds(p))
           /\ PaidLeeches' = PaidLeeches + (OwedLeeches(p)' - OwedLeeches(p))
           /\ \A ip \in IPs : PaidIP(ip)' = PaidIP(ip) + One(Has(s, ip))' - One(Has(s, ip))
           /\ UsersInv'
      BY <1>1, <1>2, <2>6, <2>11, <2>14, <2>18, LoudStep
    <2>20. AbsHashmap = [g \in Hashes |-> AbsMap(g)]
      BY AbsMapOK DEF Mapped
    <2>21. AbsMap(h)' = Atomic!RemovePeer(AbsMap(h), id)
      <3>1. AbsMap(h).Peers = [i \in DOMAIN PmOf(h).Peers |-> AbsPeer(ObjAt(<<h, i>>))]
            /\ AbsMap(h).Complete = PmOf(h).Complete /\ AbsMap(h).Incomplete = PmOf(h).Incomplete
        BY DEF AbsMap
      <3>2. AbsMap(h).Peers[id].Complete = was
        BY <1>2, <1>6, <2>15, <3>1 DEF Kept
      <3>3. ASSUME NEW i \in DOMAIN PmOf(h).Peers \ {id}
            PROVE  AbsPeer(ObjAt(<<h, i>>))' = AbsPeer(ObjAt(<<h, i>>))
        <4>1. i \in PeerIDs
          BY <2>7, MapsOK DEF PeerMaps, IsMap
        <4>2. PICK x \in Places : x = <<h, i>>
          BY <1>2, <4>1 DEF Places
        <4>3. x # s /\ Held(x)
          BY <1>2, <3>3, <4>2 DEF Held
        <4>4. AbsPeer(ObjAt(x))' = AbsPeer(ObjAt(x))
          BY <2>11, <2>14, <4>3, FrameSeen
        <4>5. QED
          BY <4>2, <4>4
      <3>4. AbsMap(h)' =
              [Complete |-> PmOf(h).Complete - (IF was THEN 1 ELSE 0),
               Incomplete |-> PmOf(h).Incomplete - (IF was THEN 0 ELSE 1),
               Peers |-> [i \in DOMAIN PmOf(h).Peers \ {id} |-> AbsPeer(ObjAt(<<h, i>>))]]
        BY <2>6, <2>8, <3>3 DEF AbsMap
      <3>5. Atomic!Del(AbsMap(h).Peers, id) =
              [i \in DOMAIN PmOf(h).Peers \ {id} |-> AbsPeer(ObjAt(<<h, i>>))]
        BY <3>1 DEF Atomic!Del
      <3>6. QED
        BY <3>1, <3>2, <3>4, <3>5 DEF Atomic!RemovePeer
    <2>22. AbsHashmap[h] = AbsMap(h) /\ h \in DOMAIN AbsHashmap
           /\ AbsMap(h).Peers[id] = Kept(o) /\ id \in DOMAIN AbsMap(h).Peers
      BY <1>2, <1>6, <2>15, <2>20 DEF AbsMap
    <2>23. AbsHashmap' = Put(AbsHashmap, h, Atomic!RemovePeer(AbsHashmap[h], id))
      BY <1>2, <2>19, <2>20, <2>21, <2>22 DEF Put
    <2>24. AbsIPs' = IPRemove(AbsIPs, objs[o].IP)
      <3>1. PICK old \in IPs : old = objs[o].IP
        BY <2>1
      <3>2. PICK n \in [IPs -> Int], m \in [IPs -> Int] : n = PaidMap /\ m = PaidMap'
        <4>1. (UsersInv => PaidMap \in [IPs -> Int])'
          BY PaidMapOK, PTL
        <4>2. QED
          BY <2>19, <4>1, PaidMapOK
      <3>3. (AbsIPs = Tally(PaidMap))'
        BY AbsIPsOK, PTL
      <3>4. AbsIPs' = Tally(m) /\ AbsIPs = Tally(n)
        BY <3>2, <3>3, AbsIPsOK DEF Tally
      <3>5. \A ip \in IPs : m[ip] = n[ip] - (IF ip = old THEN 1 ELSE 0)
        <4>1. \A ip \in IPs : n[ip] \in Int /\ n[ip] = PaidIP(ip) /\ m[ip] = PaidIP(ip)'
          BY <3>2 DEF PaidMap
        <4>2. ASSUME NEW ip \in IPs PROVE m[ip] = n[ip] - (IF ip = old THEN 1 ELSE 0)
          BY <2>17, <2>19, <3>1, <4>1
        <4>3. QED
          BY <4>2
      <3>6. m = [n EXCEPT ![old] = n[old] - 1]
        BY <3>5
      <3>7. Int16(n[old] - 1) = n[old] - 1
        BY <3>2, CountsFit DEF PaidMap
      <3>8. QED
        BY <3>1, <3>4, <3>6, <3>7, TallyRemove
    <2>25. /\ PaidSeeds' = PaidSeeds - (IF was THEN 1 ELSE 0)
           /\ PaidLeeches' = PaidLeeches - (IF was THEN 0 ELSE 1)
      <3>1. PaidSeeds \in Int /\ PaidLeeches \in Int
        BY <2>11, PaidMoves
      <3>2. QED
        BY <2>16, <2>19, <3>1
    <2>26. Atomic!Drop(h, id)
      <3>1. None # h
        BY <1>2, SetsAssumption
      <3>2. PICK peer : peer = AbsHashmap[h].Peers[id]
        OBVIOUS
      <3>3. peer.Complete = was /\ peer.IP = objs[o].IP
        BY <2>22, <3>2 DEF Kept
      <3>4. QED
        BY <2>22, <2>23, <2>24, <2>25, <3>1, <3>2, <3>3, DropMaps
    <2>27. QED
      BY <1>2, <2>14, <2>19, <2>26 DEF Atomic!Next
  <1>7. QED
    BY <1>5, <1>6

LEMMA SaveMaps ==
    ASSUME NEW h, NEW id, NEW ip, NEW complete, None # h, h \in DOMAIN AbsHashmap,
           NEW exists \in BOOLEAN, exists <=> id \in DOMAIN AbsHashmap[h].Peers,
           NEW was \in BOOLEAN, exists => was = AbsHashmap[h].Peers[id].Complete,
           NEW old, exists => old = AbsHashmap[h].Peers[id].IP,
           AbsHashmap' = Put(AbsHashmap, h, Atomic!SavePeer(AbsHashmap[h], id, ip, complete)),
           PaidSeeds' = PaidSeeds + CompleteDelta(exists, was, complete),
           PaidLeeches' = PaidLeeches + IncompleteDelta(exists, was, complete),
           AbsIPs' = IF ~exists THEN IPInc(AbsIPs, ip)
                     ELSE IF old = ip THEN AbsIPs ELSE IPInc(IPRemove(AbsIPs, old), ip)
    PROVE  Atomic!Save(h, id, ip, complete)
  <1>1. Paid /\ Paid'
    BY PaidUnfold, PTL
  <1>2. Atomic!Lookup(h) = AbsHashmap[h]
    BY DEF Atomic!Lookup
  <1>3. PICK here, then : here = (id \in DOMAIN AbsHashmap[h].Peers)
                                      /\ then = (here /\ AbsHashmap[h].Peers[id].Complete)
    OBVIOUS
  <1>4. here = exists
    BY <1>3
  <1>5. Atomic!CompleteDelta(here, then, complete) = CompleteDelta(exists, was, complete)
        /\ Atomic!IncompleteDelta(here, then, complete) = IncompleteDelta(exists, was, complete)
    BY <1>3, <1>4 DEF Atomic!CompleteDelta, Atomic!IncompleteDelta, CompleteDelta, IncompleteDelta
  <1>6. CompleteDelta(exists, was, complete) = Atomic!CompleteDelta(here, then, complete)
        /\ IncompleteDelta(exists, was, complete) = Atomic!IncompleteDelta(here, then, complete)
    BY <1>5
  <1>7. AbsIPs' = IF ~here THEN Atomic!IPInc(AbsIPs, ip)
                  ELSE IF AbsHashmap[h].Peers[id].IP = ip THEN AbsIPs
                  ELSE Atomic!IPInc(Atomic!IPRemove(AbsIPs, AbsHashmap[h].Peers[id].IP), ip)
    <2>1. CASE ~exists
      BY <1>4, <2>1, AtomicOps
    <2>2. CASE exists
      BY <1>4, <2>2, AtomicOps
    <2>3. QED
      BY <2>1, <2>2
  <1>8. AbsHashmap' = Atomic!Put(AbsHashmap, h, Atomic!SavePeer(AbsHashmap[h], id, ip, complete))
    BY DEF Atomic!Put, Put
  <1>9. QED
    BY <1>1, <1>2, <1>3, <1>6, <1>7, <1>8 DEF Paid, Atomic!Save, AbsIPs


\* Both cases of the critical section of Save: p, now with the locals l, has
\* put peer o in its place and left the peermap as np
Lands(p, h, id, o, l, np, was) ==
    /\ w[p].pc = "update" /\ h = w[p].hash /\ id = w[p].id /\ was \in BOOLEAN
    /\ hashmap' = hashmap /\ t' = t /\ metrics' = metrics /\ w' = [w EXCEPT ![p] = l]
    /\ l.op = "save" /\ l.hash = h /\ l.id = id /\ l.ip = w[p].ip /\ l.complete = w[p].complete
    /\ l.exists = w[p].exists /\ l.pm = w[p].pm /\ l.obj = o
    /\ l.pc = IF w[p].exists THEN "gauges" ELSE "ip"
    /\ pms' = [pms EXCEPT ![hashmap[h]] = np]
    /\ np.Complete = PmOf(h).Complete + CompleteDelta(w[p].exists, was, w[p].complete)
    /\ np.Incomplete = PmOf(h).Incomplete + IncompleteDelta(w[p].exists, was, w[p].complete)
    /\ DOMAIN np.Peers = DOMAIN PmOf(h).Peers \cup {id} /\ np.Peers[id] = o
    /\ \A i \in DOMAIN PmOf(h).Peers \ {id} : np.Peers[i] = PmOf(h).Peers[i]
    /\ \A a \in DOMAIN objs : objs'[a] = objs[a]
    /\ w[p].exists => o = w[p].obj /\ o \in DOMAIN objs /\ was = objs[o].Complete

LEMMA StoreSeen ==
    ASSUME Solo, IInv, IInv', SoloInv, UsersInv, NEW p \in Workers,
           NEW h, NEW id, NEW o, NEW l, NEW np, NEW was, Lands(p, h, id, o, l, np, was)
    PROVE  SoloInv' /\ UsersInv' /\ [Atomic!Next]_Atomic!vars
  <1> USE DEF Lands
  <1>0. PICK s, exists, ip, complete, old :
            /\ s = PlaceOf(w[p]) /\ exists = w[p].exists /\ ip = w[p].ip /\ complete = w[p].complete
            /\ old = objs[o].IP /\ exists \in BOOLEAN
    BY BusyOK DEF Locals
  <1>1. /\ s = <<h, id>> /\ s \in Places /\ h \in Hashes /\ id \in PeerIDs /\ s[2] \in IDsOf[p]
        /\ w[p].pm = hashmap[h] /\ Mine(p) /\ w[p] \in Locals /\ Worker(w[p])
        /\ pms[w[p].pm] = PmOf(h) /\ ObjAt(s) = PmOf(h).Peers[id]
        /\ Held(s) <=> id \in DOMAIN PmOf(h).Peers
    BY <1>0, BusyOK DEF PlaceOf
  <1>2. /\ w[p].op = "save" /\ w[p].pm \in DOMAIN pms /\ ip \in IPs /\ complete \in BOOLEAN
    BY <1>0, <1>1, IdleOK DEF Worker, DropStates, Mine, Locals
  <1>3. /\ exists <=> Held(s)
        /\ exists => o = ObjAt(s) /\ old \in IPs /\ was = objs[o].Complete
    BY <1>0, <1>1 DEF Mine, Finding
  <1>4. ~Storing(w[p]) /\ ~Dropping(w[p]) /\ Storing(l) /\ ~Dropping(l) /\ l.pc # "idle"
    BY <1>2 DEF Storing, Dropping
  <1>5. w'[p] = l /\ \A q \in Workers : q # p => w'[q] = w[q]
    BY DEF IInv, Types
  <1>6. /\ PmOf(h)' = np /\ \A g \in Hashes : g # h => PmOf(g)' = PmOf(g)
    <2>1. hashmap[h] \in DOMAIN pms /\ \A g \in Hashes : g # h => hashmap[g] # hashmap[h]
      BY <1>1, <1>2 DEF SoloInv
    <2>2. QED
      BY <2>1 DEF PmOf
  <1>7. PmOf(h) \in PeerMaps
    BY <1>1, PlaceOK
  <1>8. ASSUME NEW x \in Places, x # s
        PROVE  /\ Held(x)' <=> Held(x)
               /\ Held(x) => ObjAt(x)' = ObjAt(x) /\ objs'[ObjAt(x)] = objs[ObjAt(x)]
    <2>1. CASE x[1] = h
      <3>1. x[2] # id
        BY <1>1, <1>8, <2>1 DEF Places
      <3>2. PmOf(x[1])' = np
        BY <1>6, <2>1
      <3>3. Held(x) => ObjAt(x) \in DOMAIN objs
        BY PlaceOK
      <3>4. (Held(x)' <=> Held(x)) /\ (Held(x) => ObjAt(x)' = ObjAt(x))
        BY <2>1, <3>1, <3>2 DEF Held, ObjAt
      <3>5. QED
        BY <3>3, <3>4
    <2>2. CASE x[1] # h
      <3>1. PmOf(x[1])' = PmOf(x[1])
        BY <1>6, <2>2 DEF Places
      <3>2. Held(x) => ObjAt(x) \in DOMAIN objs
        BY PlaceOK
      <3>3. QED
        BY <3>1, <3>2 DEF Held, ObjAt
    <2>3. QED
      BY <2>1, <2>2
  <1>9. ASSUME NEW q \in Workers, q # p, Dropping(w[q]) PROVE objs'[w[q].obj] = objs[w[q].obj]
    BY <1>9 DEF SoloInv, Mine, Dropped
  <1>10. PlaceOf(l) = s
    BY <1>1 DEF PlaceOf
  <1>11. Frame(p, s)
    BY <1>0, <1>1, <1>5, <1>8, <1>9, <1>10 DEF Frame
  <1>12. Held(s)' /\ ObjAt(s)' = o
    BY <1>1, <1>6 DEF Held, ObjAt
  <1>13. exists => objs'[o] = objs[o]
    BY <1>0
  <1>14. Mine(p)'
    <2>1. Finding(p)' /\ Dropped(p)'
      BY <1>4, <1>5 DEF Finding, Dropped, Dropping
    <2>2. Stored(p)'
      BY <1>0, <1>3, <1>5, <1>10, <1>12, <1>13 DEF Stored
    <2>3. QED
      BY <1>0, <1>1, <1>2, <1>5, <2>1, <2>2 DEF Mine
  <1>15. Busy(p, s)' /\ Storing(w'[p])
    BY <1>4, <1>5, <1>10 DEF Busy
  <1>16. SoloInv'
    <2>1. Settled(s)'
      BY <1>15 DEF Settled
    <2>2. QED
      BY <1>11, <1>14, <2>1, FrameSolo
  <1>17. exists => AbsPeer(ObjAt(s)) = Kept(o)
    <2>1. Held(s) => AbsPeer(ObjAt(s)) = View(p, s)
      BY <1>1, ViewOK DEF Views
    <2>2. QED
      BY <1>3, <1>4, <2>1 DEF View
  <1>18. AbsPeer(ObjAt(s))' = Seen(l)
    <2>1. (Solo /\ IInv /\ SoloInv => Views)'
      BY ViewOK, PTL
    <2>2. AbsPeer(ObjAt(s))' = View(p, s)'
      BY <1>1, <1>12, <1>16, <2>1 DEF Views, Solo
    <2>3. QED
      BY <1>5, <1>15, <2>2 DEF View, Seen
  <1>19. /\ OwedSeeds(p) = 0 /\ OwedLeeches(p) = 0 /\ \A i \in IPs : OwedIP(p, i) = 0
         /\ OwedSeeds(p)' = CompleteDelta(exists, was, complete)
         /\ OwedLeeches(p)' = IncompleteDelta(exists, was, complete)
    <2>1. OwesGauges(p)'
      BY <1>5 DEF OwesGauges, Owes
    <2>2. OwedSeeds(p)' = CompleteDelta(exists, was, complete)
          /\ OwedLeeches(p)' = IncompleteDelta(exists, was, complete)
      BY <1>0, <1>5, <1>13, <2>1 DEF OwedSeeds, OwedLeeches, CompleteDelta, IncompleteDelta
    <2>3. QED
      BY <1>4, <2>2, NoDebtsOK DEF NoDebts
  <1>20. ASSUME NEW i \in IPs
         PROVE  /\ OwedIP(p, i)' = (IF i = ip THEN 1 ELSE 0) - (IF exists /\ i = old THEN 1 ELSE 0)
                /\ One(Has(s, i))' = (IF i = ip THEN 1 ELSE 0)
                /\ One(Has(s, i)) = (IF exists /\ i = old THEN 1 ELSE 0)
    <2>1. Has(s, i)' <=> i = ip
      BY <1>0, <1>12, <1>18 DEF Has, Seen
    <2>2. Has(s, i) <=> exists /\ i = old
      BY <1>0, <1>3, <1>17 DEF Has, Kept
    <2>3. OwedIP(p, i)' = (IF i = ip THEN 1 ELSE 0) - (IF exists /\ i = old THEN 1 ELSE 0)
      <3>1. CASE exists
        <4>0. /\ w'[p].pc = "gauges" /\ w'[p].op = "save" /\ w'[p].exists /\ w'[p].ip = ip
              /\ w'[p].obj = o /\ objs'[o].IP = old
          BY <1>0, <1>5, <1>13, <3>1
        <4>1. MovesIP(p)' <=> old # ip
          BY <4>0 DEF MovesIP, Owes
        <4>2. ~Owes(p, {"gauges", "free"}, "drop")'
          BY <1>5 DEF Owes
        <4>3. (OwesInc(p, i)' <=> i = ip /\ old # ip) /\ (OwesRemove(p, i)' <=> i = old /\ old # ip)
          BY <4>0, <4>1, <4>2 DEF OwesInc, OwesRemove
        <4>4. QED
          BY <3>1, <4>3 DEF OwedIP
      <3>2. CASE ~exists
        <4>1. ~MovesIP(p)' /\ ~Owes(p, {"gauges", "free"}, "drop")' /\ Owes(p, {"ip"}, "save")'
          BY <1>0, <1>5, <3>2 DEF MovesIP, Owes
        <4>2. (OwesInc(p, i)' <=> i = ip) /\ ~OwesRemove(p, i)'
          BY <1>0, <1>5, <3>2, <4>1 DEF OwesInc, OwesRemove
        <4>3. QED
          BY <3>2, <4>2 DEF OwedIP
      <3>3. QED
        BY <3>1, <3>2
    <2>4. QED
      BY <2>1, <2>2, <2>3 DEF One
  <1>21. \A i \in IPs : OwedIP(p, i)' = OwedIP(p, i) + One(Has(s, i))' - One(Has(s, i))
    BY <1>19, <1>20
  <1>22. /\ AbsHashmap' = [g \in Hashes |-> IF g = h THEN AbsMap(h)' ELSE AbsMap(g)]
         /\ PaidSeeds' = PaidSeeds + (OwedSeeds(p)' - OwedSeeds(p))
         /\ PaidLeeches' = PaidLeeches + (OwedLeeches(p)' - OwedLeeches(p))
         /\ \A i \in IPs : PaidIP(i)' = PaidIP(i) + One(Has(s, i))' - One(Has(s, i))
         /\ UsersInv'
    BY <1>1, <1>6, <1>11, <1>16, <1>21, LoudStep
  <1>23. AbsHashmap = [g \in Hashes |-> AbsMap(g)]
    BY AbsMapOK DEF Mapped
  <1>24. /\ AbsMap(h).Peers = [i \in DOMAIN PmOf(h).Peers |-> AbsPeer(ObjAt(<<h, i>>))]
         /\ AbsMap(h).Complete = PmOf(h).Complete /\ AbsMap(h).Incomplete = PmOf(h).Incomplete
    BY DEF AbsMap
  <1>25. /\ exists <=> id \in DOMAIN AbsMap(h).Peers
         /\ exists => was = AbsMap(h).Peers[id].Complete /\ old = AbsMap(h).Peers[id].IP
    BY <1>0, <1>1, <1>3, <1>17, <1>24 DEF Kept
  <1>26. AbsMap(h)' = Atomic!SavePeer(AbsMap(h), id, ip, complete)
    <2>1. ASSUME NEW i \in DOMAIN PmOf(h).Peers \ {id}
          PROVE  AbsPeer(ObjAt(<<h, i>>))' = AbsPeer(ObjAt(<<h, i>>))
      <3>1. i \in PeerIDs
        BY <1>7, MapsOK DEF PeerMaps, IsMap
      <3>2. PICK x \in Places : x = <<h, i>>
        BY <1>1, <3>1 DEF Places
      <3>3. x # s /\ Held(x)
        BY <1>1, <2>1, <3>2 DEF Held
      <3>4. AbsPeer(ObjAt(x))' = AbsPeer(ObjAt(x))
        BY <1>11, <1>16, <3>3, FrameSeen
      <3>5. QED
        BY <3>2, <3>4
    <2> DEFINE d == DOMAIN PmOf(h).Peers
               seen == [i \in d \cup {id} |-> IF i = id THEN Seen(l) ELSE AbsPeer(ObjAt(<<h, i>>))]
    <2>2. ASSUME NEW i \in d \cup {id}
          PROVE  AbsPeer(ObjAt(<<h, i>>))' = seen[i]
      BY <1>1, <1>18, <2>1
    <2>3. AbsMap(h)' = [Complete |-> np.Complete, Incomplete |-> np.Incomplete,
                        Peers |-> [i \in d \cup {id} |-> AbsPeer(ObjAt(<<h, i>>))']]
      BY <1>6 DEF AbsMap
    <2>4. [i \in d \cup {id} |-> AbsPeer(ObjAt(<<h, i>>))'] = seen
      BY <2>2
    <2>5. Atomic!Put(AbsMap(h).Peers, id, Seen(l)) = seen
      BY <1>24 DEF Atomic!Put
    <2> HIDE DEF seen
    <2>6. Seen(l) = [Complete |-> complete, IP |-> ip, Age |-> 0]
      BY <1>0 DEF Seen
    <2>7. PICK here, then : here = (id \in DOMAIN AbsMap(h).Peers)
                                        /\ then = (here /\ AbsMap(h).Peers[id].Complete)
      OBVIOUS
    <2>8. Atomic!CompleteDelta(here, then, complete) = CompleteDelta(exists, was, complete)
          /\ Atomic!IncompleteDelta(here, then, complete) = IncompleteDelta(exists, was, complete)
      BY <1>25, <2>7
         DEF Atomic!CompleteDelta, Atomic!IncompleteDelta, CompleteDelta, IncompleteDelta
    <2>9. Atomic!SavePeer(AbsMap(h), id, ip, complete) =
            [Complete |-> AbsMap(h).Complete + CompleteDelta(exists, was, complete),
             Incomplete |-> AbsMap(h).Incomplete + IncompleteDelta(exists, was, complete),
             Peers |-> seen]
      BY <2>5, <2>6, <2>7, <2>8 DEF Atomic!SavePeer
    <2>10. QED
      BY <1>0, <1>24, <2>3, <2>4, <2>9
  <1>27. AbsHashmap[h] = AbsMap(h) /\ h \in DOMAIN AbsHashmap
    BY <1>1, <1>23
  <1>28. AbsHashmap' = Put(AbsHashmap, h, Atomic!SavePeer(AbsHashmap[h], id, ip, complete))
    BY <1>1, <1>22, <1>23, <1>26, <1>27 DEF Put
  <1>29. /\ PaidSeeds' = PaidSeeds + CompleteDelta(exists, was, complete)
         /\ PaidLeeches' = PaidLeeches + IncompleteDelta(exists, was, complete)
    <2>1. PaidSeeds \in Int /\ PaidLeeches \in Int
      BY <1>11, PaidMoves
    <2>2. CompleteDelta(exists, was, complete) \in Int /\ IncompleteDelta(exists, was, complete) \in Int
      BY <1>0, <1>2, DeltaOK
    <2>3. QED
      BY <1>19, <1>22, <2>1, <2>2
  <1>30. AbsIPs' = IF ~exists THEN IPInc(AbsIPs, ip)
                   ELSE IF old = ip THEN AbsIPs ELSE IPInc(IPRemove(AbsIPs, old), ip)
    <2>1. PICK n \in [IPs -> Int], m \in [IPs -> Int] : n = PaidMap /\ m = PaidMap'
      <3>1. (UsersInv => PaidMap \in [IPs -> Int])'
        BY PaidMapOK, PTL
      <3>2. QED
        BY <1>22, <3>1, PaidMapOK
    <2>2. (AbsIPs = Tally(PaidMap))'
      BY AbsIPsOK, PTL
    <2>3. AbsIPs' = Tally(m) /\ AbsIPs = Tally(n)
      BY <2>1, <2>2, AbsIPsOK DEF Tally
    <2>4. \A i \in IPs : n[i] \in Int /\ n[i] = PaidIP(i) /\ m[i] = PaidIP(i)' /\ n[i] >= 0
      BY <2>1, UsersOK DEF PaidMap
    <2>5. ASSUME NEW i \in IPs
          PROVE  m[i] = n[i] + (IF i = ip THEN 1 ELSE 0) - (IF exists /\ i = old THEN 1 ELSE 0)
      BY <1>20, <1>22, <2>4
    <2>6. Int16(n[ip] + 1) = n[ip] + 1
      BY <1>2, <2>4, CountsFit
    <2>7. CASE ~exists
      <3>1. m = [n EXCEPT ![ip] = n[ip] + 1]
        BY <1>2, <2>4, <2>5, <2>7
      <3>2. QED
        BY <1>2, <2>3, <2>4, <2>6, <2>7, <3>1, TallyInc
    <2>8. CASE exists /\ old = ip
      <3>1. m = n
        BY <2>4, <2>5, <2>8
      <3>2. QED
        BY <2>3, <2>8, <3>1
    <2>9. CASE exists /\ old # ip
      <3>1. PICK n1 \in [IPs -> Int] : n1 = [n EXCEPT ![old] = n[old] - 1]
        <4>1. old \in IPs /\ n[old] - 1 \in Int
          BY <1>3, <2>4, <2>9
        <4>2. [n EXCEPT ![old] = n[old] - 1] \in [IPs -> Int]
          BY <4>1
        <4>3. QED
          BY <4>2
      <3>2. n1[ip] = n[ip]
        BY <1>2, <2>9, <3>1
      <3>3. m = [n1 EXCEPT ![ip] = n1[ip] + 1]
        BY <1>2, <1>3, <2>4, <2>5, <2>9, <3>1
      <3>4. old \in IPs /\ Int16(n[old] - 1) = n[old] - 1
        BY <1>3, <2>4, <2>9, CountsFit
      <3>5. IPRemove(Tally(n), old) = Tally(n1)
        BY <3>1, <3>4, TallyRemove
      <3>6. IPInc(Tally(n1), ip) = Tally(m)
        BY <1>2, <2>4, <2>6, <3>2, <3>3, TallyInc
      <3>7. QED
        BY <2>3, <2>9, <3>5, <3>6
    <2>10. QED
      BY <2>7, <2>8, <2>9
  <1>31. Atomic!Save(h, id, ip, complete)
    <2>1. None # h
      BY <1>1, SetsAssumption
    <2>2. /\ exists <=> id \in DOMAIN AbsHashmap[h].Peers
          /\ exists => was = AbsHashmap[h].Peers[id].Complete /\ old = AbsHashmap[h].Peers[id].IP
          /\ exists \in BOOLEAN
      BY <1>0, <1>25, <1>27
    <2>3. QED
      BY <1>27, <1>28, <1>29, <1>30, <2>1, <2>2, SaveMaps
  <1>32. QED
    BY <1>1, <1>2, <1>16, <1>22, <1>31 DEF Atomic!Next

\* PeerDb's Save
LEMMA SaveUpdateSeen ==
    ASSUME Solo, IInv, IInv', SoloInv, UsersInv, NEW p \in Workers, SaveUpdate(p)
    PROVE  SoloInv' /\ UsersInv' /\ [Atomic!Next]_Atomic!vars
  <1>0. PICK h, id : h = w[p].hash /\ id = w[p].id
    OBVIOUS
  <1>1. /\ w[p].pc = "update" /\ hashmap' = hashmap /\ t' = t /\ metrics' = metrics
    BY DEF SaveUpdate, metrics
  <1>2. /\ h \in Hashes /\ id \in PeerIDs /\ w[p].pm = hashmap[h] /\ Mine(p) /\ w[p] \in Locals
        /\ Worker(w[p]) /\ pms[w[p].pm] = PmOf(h) /\ ObjAt(PlaceOf(w[p])) = PmOf(h).Peers[id]
        /\ Held(PlaceOf(w[p])) <=> id \in DOMAIN PmOf(h).Peers
    BY <1>0, <1>1, BusyOK
  <1>3. w[p].op = "save" /\ w[p].pm \in DOMAIN pms /\ w[p].exists \in BOOLEAN
    BY <1>1, <1>2, IdleOK DEF Worker, DropStates, Locals
  <1>4. PmOf(h) \in PeerMaps /\ PmOf(h).Peers \in Maps
    <2>1. PmOf(h) \in PeerMaps
      BY <1>2, <1>3 DEF IInv, Types, Heap
    <2>2. QED
      BY <2>1 DEF PeerMaps
  <1>5. CASE w[p].exists
    <2>0. PICK l, o, was, np :
            /\ l = [w[p] EXCEPT !.pc = "gauges"] /\ o = w[p].obj /\ was = objs[o].Complete
            /\ np = [Complete |-> PmOf(h).Complete + CompleteDelta(w[p].exists, was, w[p].complete),
                     Incomplete |-> PmOf(h).Incomplete
                                      + IncompleteDelta(w[p].exists, was, w[p].complete),
                     Peers |-> PmOf(h).Peers]
      OBVIOUS
    <2>1. /\ w' = [w EXCEPT ![p] = l] /\ pms' = [pms EXCEPT ![hashmap[h]] = np] /\ objs' = objs
      BY <1>2, <1>5, <2>0 DEF SaveUpdate, Goto, IInv, Types
    <2>2. /\ l.op = "save" /\ l.hash = h /\ l.id = id /\ l.ip = w[p].ip
          /\ l.complete = w[p].complete /\ l.exists = w[p].exists /\ l.pm = w[p].pm /\ l.obj = o
          /\ l.pc = IF w[p].exists THEN "gauges" ELSE "ip"
      BY <1>0, <1>2, <1>3, <1>5, <2>0 DEF Locals
    <2>3. id \in DOMAIN PmOf(h).Peers /\ PmOf(h).Peers[id] = o
      BY <1>1, <1>2, <1>5, <2>0 DEF Mine, Finding
    <2>4. o \in DOMAIN objs
      BY <1>1, <1>2, <1>5, <2>0 DEF Worker
    <2>5. was \in BOOLEAN
      <3>1. objs[o] \in Peer
        BY <2>4 DEF IInv, Types, Heap
      <3>2. QED
        BY <2>0, <3>1 DEF Peer
    <2>6. /\ np.Complete = PmOf(h).Complete + CompleteDelta(w[p].exists, was, w[p].complete)
          /\ np.Incomplete = PmOf(h).Incomplete + IncompleteDelta(w[p].exists, was, w[p].complete)
          /\ np.Peers = PmOf(h).Peers
      BY <2>0
    <2>7. /\ DOMAIN np.Peers = DOMAIN PmOf(h).Peers \cup {id} /\ np.Peers[id] = o
          /\ \A i \in DOMAIN PmOf(h).Peers \ {id} : np.Peers[i] = PmOf(h).Peers[i]
          /\ \A a \in DOMAIN objs : objs'[a] = objs[a]
      BY <2>1, <2>3, <2>6
    <2>8. w[p].exists => o = w[p].obj /\ o \in DOMAIN objs /\ was = objs[o].Complete
      BY <2>0, <2>4
    <2>9. Lands(p, h, id, o, l, np, was)
      BY <1>0, <1>1, <2>1, <2>2, <2>5, <2>6, <2>7, <2>8 DEF Lands
    <2>10. QED
      BY <2>9, StoreSeen
  <1>6. CASE ~w[p].exists
    <2>1. PICK o \in pool \cup {Len(objs) + 1} :
             /\ GetPeer(o) /\ w' = [w EXCEPT ![p].pc = "ip", ![p].obj = o]
             /\ pms' = [pms EXCEPT ![hashmap[h]] =
                  [Complete |-> PmOf(h).Complete + CompleteDelta(w[p].exists, FALSE, w[p].complete),
                   Incomplete |-> PmOf(h).Incomplete
                                    + IncompleteDelta(w[p].exists, FALSE, w[p].complete),
                   Peers |-> Put(PmOf(h).Peers, id, o)]]
      BY <1>0, <1>2, <1>6 DEF SaveUpdate
    <2>0. PICK l, was, np :
            /\ l = [w[p] EXCEPT !.pc = "ip", !.obj = o] /\ was = FALSE
            /\ np = [Complete |-> PmOf(h).Complete + CompleteDelta(w[p].exists, was, w[p].complete),
                     Incomplete |-> PmOf(h).Incomplete
                                      + IncompleteDelta(w[p].exists, was, w[p].complete),
                     Peers |-> Put(PmOf(h).Peers, id, o)]
      OBVIOUS
    <2>2. w' = [w EXCEPT ![p] = l] /\ pms' = [pms EXCEPT ![hashmap[h]] = np]
      BY <2>0, <2>1 DEF IInv, Types
    <2>3. /\ l.op = "save" /\ l.hash = h /\ l.id = id /\ l.ip = w[p].ip
          /\ l.complete = w[p].complete /\ l.exists = w[p].exists /\ l.pm = w[p].pm /\ l.obj = o
          /\ l.pc = IF w[p].exists THEN "gauges" ELSE "ip"
      BY <1>0, <1>2, <1>3, <1>6, <2>0 DEF Locals
    <2>4. /\ np.Complete = PmOf(h).Complete + CompleteDelta(w[p].exists, was, w[p].complete)
          /\ np.Incomplete = PmOf(h).Incomplete + IncompleteDelta(w[p].exists, was, w[p].complete)
          /\ np.Peers = Put(PmOf(h).Peers, id, o)
      BY <2>0
    <2>5. o \in Nat
      BY <2>1, GetPeerOK
    <2>6. /\ DOMAIN Put(PmOf(h).Peers, id, o) = DOMAIN PmOf(h).Peers \cup {id}
          /\ \A j \in DOMAIN PmOf(h).Peers \cup {id} :
                Put(PmOf(h).Peers, id, o)[j] = IF j = id THEN o ELSE PmOf(h).Peers[j]
      <3>1. PICK m \in Maps : m = PmOf(h).Peers
        BY <1>4
      <3>2. /\ DOMAIN Put(m, id, o) = DOMAIN m \cup {id}
            /\ \A j \in DOMAIN m \cup {id} : Put(m, id, o)[j] = IF j = id THEN o ELSE m[j]
        BY DEF Put
      <3>3. QED
        BY <3>1, <3>2
    <2>7. /\ DOMAIN np.Peers = DOMAIN PmOf(h).Peers \cup {id} /\ np.Peers[id] = o
          /\ \A i \in DOMAIN PmOf(h).Peers \ {id} : np.Peers[i] = PmOf(h).Peers[i]
      BY <2>4, <2>6
    <2>8. \A a \in DOMAIN objs : objs'[a] = objs[a]
      BY <2>1 DEF GetPeer, IInv, Types, Heap
    <2>9. was \in BOOLEAN
      BY <2>0
    <2>10. Lands(p, h, id, o, l, np, was)
      BY <1>0, <1>1, <1>6, <2>2, <2>3, <2>4, <2>7, <2>8, <2>9 DEF Lands
    <2>11. QED
      BY <2>10, StoreSeen
  <1>7. QED
    BY <1>3, <1>5, <1>6

\* The clock, which PeerDb does not see
LEMMA StillSilent ==
    ASSUME IInv, SoloInv, UsersInv, UNCHANGED <<heap, metrics, w, t>>
    PROVE  SoloInv' /\ UsersInv' /\ UNCHANGED Atomic!vars
  <1>1. /\ hashmap' = hashmap /\ pms' = pms /\ objs' = objs /\ pool' = pool /\ seeds' = seeds
        /\ leeches' = leeches /\ ipstats' = ipstats /\ w' = w /\ t' = t
    BY DEF heap, metrics
  <1>2. \A x \in Places : (Held(x)' <=> Held(x)) /\ ObjAt(x)' = ObjAt(x)
    BY <1>1 DEF Held, ObjAt, PmOf
  <1>3. SoloInv'
    <2>1. ASSUME NEW p \in Workers PROVE Mine(p)'
      <3>1. Mine(p)
        BY DEF SoloInv
      <3>2. /\ Held(PlaceOf(w[p]))' <=> Held(PlaceOf(w[p]))
            /\ ObjAt(PlaceOf(w[p]))' = ObjAt(PlaceOf(w[p]))
        BY <1>1 DEF Held, ObjAt, PmOf, PlaceOf
      <3>3. QED
        BY <1>1, <3>1, <3>2 DEF Mine, Finding, Stored, Dropped, Storing, Dropping, PlaceOf
    <2>2. ASSUME NEW x \in Places PROVE Settled(x)'
      BY <1>1, <1>2 DEF SoloInv, Settled, Busy, PlaceOf, Storing
    <2>3. QED
      BY <1>1, <2>1, <2>2 DEF SoloInv
  <1>4. \A o : AbsPeer(o)' = AbsPeer(o)
    BY <1>1 DEF AbsPeer, Writer, Owes
  <1>5. \A ip : PaidIP(ip)' = PaidIP(ip)
    BY <1>1 DEF PaidIP, OwedIP, OwesInc, OwesRemove, MovesIP, Owes, Get
  <1>6. UsersInv'
    <2>1. ASSUME NEW ip \in IPs PROVE Users(ip)' = Users(ip)
      BY <1>2, <1>4 DEF Users, Has
    <2>2. ASSUME NEW ip \in IPs
          PROVE  Get(ipstats, ip)' \in Int /\ PaidIP(ip)' = Cardinality(Users(ip))'
      BY <1>1, <1>5, <2>1 DEF UsersInv, Get
    <2>3. QED
      BY <2>2 DEF UsersInv
  <1>7. AbsHashmap' = AbsHashmap
    BY <1>1, <1>4 DEF AbsHashmap
  <1>8. /\ (seeds + SumFunction([p \in Workers |-> OwedSeeds(p)]))'
             = seeds + SumFunction([p \in Workers |-> OwedSeeds(p)])
        /\ (leeches + SumFunction([p \in Workers |-> OwedLeeches(p)]))'
             = leeches + SumFunction([p \in Workers |-> OwedLeeches(p)])
    BY <1>1 DEF OwedSeeds, OwedLeeches, OwesGauges, Owes
  <1>9. QED
    BY <1>3, <1>5, <1>6, <1>7, <1>8 DEF Atomic!vars

\* PeerDb sees SaveUpdate as its Save, and a DropRemove that finds its peer as
\* its Drop; every other step it does not see
LEMMA SoloNext ==
    ASSUME Solo, IInv, IInv', SoloInv, UsersInv, [Next]_vars
    PROVE  SoloInv' /\ UsersInv' /\ [Atomic!Next]_Atomic!vars
  <1>1. ASSUME NEW p \in Workers, Request(p)
        PROVE  SoloInv' /\ UsersInv' /\ UNCHANGED Atomic!vars
    BY <1>1, SaveLookupSilent, DropLookupSilent DEF Request
  <1>2. ASSUME NEW p \in Workers, SaveStep(p)
        PROVE  SoloInv' /\ UsersInv' /\ [Atomic!Next]_Atomic!vars
    <2>1. ~SaveMake(p)
      BY DEF SaveMake, SoloInv, Mine
    <2>2. CASE SaveFind(p)
      BY <2>2, SaveFindSilent
    <2>3. CASE SaveUpdate(p)
      BY <2>3, SaveUpdateSeen
    <2>4. CASE SaveGauges(p)
      BY <2>4, SaveGaugesSilent
    <2>5. CASE SaveIP(p)
      BY <2>5, SaveIPSilent
    <2>6. CASE SaveSwapIP(p)
      BY <2>6, SaveSwapIPSilent
    <2>7. CASE SaveWriteComplete(p)
      BY <2>7, SaveWriteCompleteSilent
    <2>8. CASE SaveWriteIP(p)
      BY <2>8, SaveWriteIPSilent
    <2>9. CASE SaveWriteSeen(p)
      BY <2>9, SaveWriteSeenSilent
    <2>10. QED
      BY <1>2, <2>1, <2>2, <2>3, <2>4, <2>5, <2>6, <2>7, <2>8, <2>9 DEF SaveStep
  <1>3. ASSUME NEW p \in Workers, DropStep(p)
        PROVE  SoloInv' /\ UsersInv' /\ [Atomic!Next]_Atomic!vars
    <2>1. CASE DropRemove(p)
      BY <2>1, DropRemoveSeen
    <2>2. CASE DropGauges(p)
      BY <2>2, DropGaugesSilent
    <2>3. CASE DropFree(p)
      BY <2>3, DropFreeSilent
    <2>4. QED
      BY <1>3, <2>1, <2>2, <2>3 DEF DropStep
  <1>4. ~TrimStart /\ ~TrimStep
    BY DEF Solo, SoloInv, TrimStart, TrimStep, TrimNext, TrimDone, TrimLock, TrimCheck, TrimGauges,
           TrimFree, TrimUnlock, TrimDropHash
  <1>5. CASE Tick \/ UNCHANGED vars
    <2>1. UNCHANGED <<heap, metrics, w, t>>
      BY <1>5 DEF Tick, vars, heap, metrics
    <2>2. QED
      BY <2>1, StillSilent
  <1>6. QED
    BY <1>1, <1>2, <1>3, <1>4, <1>5 DEF Next

LEMMA SoloInit == Solo /\ Init => SoloInv /\ UsersInv /\ Atomic!Init
  <1>1. SUFFICES ASSUME Solo, Init PROVE SoloInv /\ UsersInv /\ Atomic!Init
    OBVIOUS
  <1>2. /\ \A p \in Workers : w[p] = IdleWorker
        /\ t.pc = "idle" /\ DOMAIN hashmap = Hashes /\ Loaded = Hashes
        /\ \A g, h \in Hashes : hashmap[g] = hashmap[h] => g = h
        /\ \A h \in Hashes : hashmap[h] \in DOMAIN pms /\ pms[hashmap[h]] = NewPeerMap
    BY <1>1, IdleTrimOK DEF Init, Solo
  <1>3. NewPeerMap.Peers = EmptyMap /\ DOMAIN EmptyMap = {}
        /\ NewPeerMap.Complete = 0 /\ NewPeerMap.Incomplete = 0
    BY DEF NewPeerMap, EmptyMap
  <1>4. \A x \in Places : ~Held(x)
    BY <1>2, <1>3 DEF Held, PmOf, Places
  <1>5. ASSUME NEW p \in Workers PROVE Mine(p) /\ ~Storing(w[p]) /\ ~Dropping(w[p])
    BY <1>2, IdleOK DEF Mine, Finding, Stored, Dropped, Storing, Dropping
  <1>6. SoloInv
    BY <1>2, <1>4, <1>5 DEF SoloInv, Settled
  <1>7. /\ \A p \in Workers : SeedMap[p] = 0 /\ LeechMap[p] = 0
        /\ \A ip \in IPs : \A p \in Workers : IPMap(ip)[p] = 0
    BY <1>5, NoDebtsOK DEF NoDebts, SeedMap, LeechMap, IPMap
  <1>8. OwedTotal(SeedMap) = 0 /\ OwedTotal(LeechMap) = 0 /\ \A ip \in IPs : OwedTotal(IPMap(ip)) = 0
    <2>1. \A f : (\A p \in Workers : f[p] = 0) => OwedTotal(f) = 0
      BY SumZero, WorkersAssumption DEF OwedTotal
    <2>2. QED
      BY <1>7, <2>1
  <1>9. PaidSeeds = 0 /\ PaidLeeches = 0 /\ \A ip \in IPs : Get(ipstats, ip) = 0 /\ PaidIP(ip) = 0
    <2>1. seeds = 0 /\ leeches = 0 /\ \A ip \in IPs : Get(ipstats, ip) = 0
      BY <1>1 DEF Init, Get, EmptyMap
    <2>2. QED
      BY <1>8, <2>1, PaidUnfold DEF Paid, PaidSeeds, PaidLeeches
  <1>10. UsersInv
    <2>1. \A ip \in IPs : Users(ip) = {}
      BY <1>4 DEF Users, Has
    <2>2. QED
      BY <1>9, <2>1, FS_EmptySet DEF UsersInv
  <1>11. AbsHashmap = [h \in Loaded |-> Atomic!NewPeerMap]
    <2>1. IInv
      BY <1>1, InitOK
    <2>2. AbsHashmap = [h \in Hashes |-> AbsMap(h)]
      BY <1>6, <2>1, AbsMapOK DEF Mapped
    <2>3. ASSUME NEW h \in Hashes PROVE AbsMap(h) = Atomic!NewPeerMap
      <3>1. PmOf(h) = NewPeerMap
        BY <1>2 DEF PmOf
      <3>2. /\ AbsMap(h).Peers = EmptyMap
            /\ AbsMap(h) = [Complete |-> 0, Incomplete |-> 0, Peers |-> EmptyMap]
        BY <1>3, <3>1 DEF AbsMap, EmptyMap
      <3>3. QED
        BY <3>2 DEF Atomic!NewPeerMap, Atomic!EmptyMap, EmptyMap
    <2>4. QED
      BY <1>2, <2>2, <2>3
  <1>12. AbsIPs = Atomic!EmptyMap
    BY <1>9 DEF AbsIPs, Atomic!EmptyMap
  <1>13. QED
    BY <1>6, <1>9, <1>10, <1>11, <1>12, PaidUnfold DEF Atomic!Init, Paid, AbsIPs

(* Workers that handle different peers, in any number and in any order of   *)
(* their steps, leave the database as PeerDb does, which takes each announce *)
(* and each drop in one step: what the critical sections of a request leave *)
(* undone is known to its worker alone and is paid by its later steps.      *)
THEOREM OwnPeersActAtomically == Solo => (Spec => ImplementsAtomic)
  <1>1. Solo /\ Init => SoloInv /\ UsersInv /\ Atomic!Init
    BY SoloInit
  <1>2. Solo /\ IInv /\ IInv' /\ SoloInv /\ UsersInv /\ [Next]_vars
          => SoloInv' /\ UsersInv' /\ [Atomic!Next]_Atomic!vars
    BY SoloNext
  <1>3. SUFFICES ASSUME Solo PROVE Spec => ImplementsAtomic
    OBVIOUS
  <1>4. QED
    BY <1>1, <1>2, <1>3, IInvOK, PTL DEF Spec, ImplementsAtomic, Atomic!Spec
=============================================================================
