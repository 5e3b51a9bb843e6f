----------------------------- MODULE PeerDbImpl -----------------------------
(***************************************************************************)
(* How PeerDbConc relates to PeerDb: a request counts as done, in PeerDb's *)
(* terms, from the moment its critical section on the peermap has run.     *)
(* What it still owes after that (gauges, IPStats, the fields of the peer) *)
(* is added to what the memory holds.                                      *)
(***************************************************************************)
EXTENDS PeerDbConc, Functions

ASSUME WorkersAssumption == IsFiniteSet(Workers)

Owes(p, pcs, op) == w[p].pc \in pcs /\ w[p].op = op

\* The worker that has yet to write the fields of peer o
Writer(o) == {p \in Workers :
                /\ Owes(p, {"gauges", "ip", "swap", "write", "writeIP", "writeSeen"},
                        "save")
                /\ w[p].obj = o}

\* Without trim nothing reads LastSeen: PeerDb's clock stands still
AbsPeer(o) ==
    IF Writer(o) = {}
    THEN [Complete |-> objs[o].Complete, IP |-> objs[o].IP, Age |-> 0]
    ELSE LET p == CHOOSE q \in Writer(o) : TRUE
         IN  [Complete |-> w[p].complete, IP |-> w[p].ip, Age |-> 0]

AbsHashmap ==
    [h \in DOMAIN hashmap |->
        LET pm == pms[hashmap[h]]
        IN  [Complete |-> pm.Complete, Incomplete |-> pm.Incomplete,
             Peers |-> [id \in DOMAIN pm.Peers |-> AbsPeer(pm.Peers[id])]]]

OwesGauges(p) ==
    \/ Owes(p, {"gauges"}, "save") \/ Owes(p, {"gauges"}, "drop")
    \/ Owes(p, {"ip"}, "save") /\ ~w[p].exists

OwedSeeds(p) ==
    LET was == objs[w[p].obj].Complete
    IN  IF ~OwesGauges(p) THEN 0
        ELSE IF w[p].op = "save" THEN CompleteDelta(w[p].exists, was, w[p].complete)
        ELSE IF was THEN -1 ELSE 0

OwedLeeches(p) ==
    LET was == objs[w[p].obj].Complete
    IN  IF ~OwesGauges(p) THEN 0
        ELSE IF w[p].op = "save" THEN IncompleteDelta(w[p].exists, was, w[p].complete)
        ELSE IF was THEN 0 ELSE -1

\* A known peer whose new address IPStats does not have yet
MovesIP(p) ==
    /\ w[p].exists
    /\ \/ Owes(p, {"swap"}, "save")
       \/ Owes(p, {"gauges", "ip"}, "save") /\ objs[w[p].obj].IP # w[p].ip

OwesInc(p, ip) ==
    w[p].ip = ip /\ (MovesIP(p) \/ (Owes(p, {"ip"}, "save") /\ ~w[p].exists))

OwesRemove(p, ip) ==
    /\ MovesIP(p) \/ Owes(p, {"gauges", "free"}, "drop")
    /\ objs[w[p].obj].IP = ip

OwedIP(p, ip) ==
    (IF OwesInc(p, ip) THEN 1 ELSE 0) - (IF OwesRemove(p, ip) THEN 1 ELSE 0)

PaidIP(ip) == Get(ipstats, ip) + SumFunction([p \in Workers |-> OwedIP(p, ip)])

Atomic == INSTANCE PeerDb
            WITH hashmap  <- AbsHashmap,
                 seeds    <- seeds + SumFunction([p \in Workers |-> OwedSeeds(p)]),
                 leeches  <- leeches + SumFunction([p \in Workers |-> OwedLeeches(p)]),
                 ipstats  <- [ip \in {i \in IPs : PaidIP(i) # 0} |-> PaidIP(ip)],
                 trimming <- None,
                 NoHash   <- None

(* With trim off, every hash in the map, and each worker on its own peers,  *)
(* the lock-by-lock database does what PeerDb does in one step: announces   *)
(* and drops of different peers never disturb one another, although they    *)
(* share the peermap, its counters, the gauges, IPStats and the peer pool.  *)
ImplementsAtomic == Atomic!Spec

\* Peers counted by the gauges but not yet by the peermaps, or the reverse
OwedGauges(p) ==
    IF ~OwesGauges(p) \/ (w[p].op = "save" /\ w[p].exists) THEN 0
    ELSE IF w[p].op = "save" THEN 1 ELSE -1

(* The gauges and the counters of the peermaps are moved in different       *)
(* critical sections, from separate reads of peer.Complete, and still their *)
(* totals agree: Seeds + Leeches is the sum of Complete + Incomplete over   *)
(* every peermap ever made, up to the requests in flight.  So the gauges    *)
(* keep counting the peers of a peermap that left the hash map with them.   *)
GaugesFollowCounters ==
    seeds + leeches
        + SumFunction([p \in Workers |-> OwedGauges(p)]) - (IF t.pc = "gauges" THEN 1 ELSE 0)
      = SumFunction([a \in DOMAIN pms |-> pms[a].Complete + pms[a].Incomplete])
=============================================================================
