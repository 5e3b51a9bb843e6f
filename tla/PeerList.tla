------------------------------ MODULE PeerList ------------------------------
(***************************************************************************)
(* The peer list of an announce response: PeerList and PeerListBytes       *)
(* (tracker/storage/map/hash.go), called by the UDP and HTTP announce      *)
(* handlers, and the pools of byte buffers they share (pools/).            *)
(*                                                                         *)
(*   swarm    the peers in the peermap of each hash; a hash that is not in *)
(*            the hash map, or whose peermap left it, has none             *)
(*   bufs     the buffers made so far: data has room for Limit peers, and  *)
(*            len is the length of the slice, in peers                     *)
(*   pool     the buffers in pools.Peerlists4 and pools.Peerlists6         *)
(*   w        program counter and locals of each worker                    *)
(*                                                                         *)
(* An entry of a buffer is the address and port of a peer; the model keeps *)
(* which peer of which hash it was copied from.                            *)
(***************************************************************************)
EXTENDS Integers, Sequences, FiniteSets, SequencesExt

CONSTANTS Workers, Hashes, PeerIDs,
          Protos,    \* the announces that arrive: "udp", "http" for compact
                     \* HTTP ones, "list" for HTTP ones that are not
          V6,        \* the peers that announce from an IPv6 address
          Default,   \* config Numwant.Default
          Limit,     \* config Numwant.Limit
          NumWants,  \* the numwants clients send
          MaxBufs,   \* bound on the buffers of a family
          None

ASSUME ProtosAssumption == Protos \subseteq {"udp", "http", "list"}
ASSUME SwarmAssumption == V6 \subseteq PeerIDs /\ IsFiniteSet(PeerIDs)
ASSUME NumWantAssumption ==
    /\ Limit \in Nat \ {0} /\ Default \in 1..Limit
    /\ NumWants \subseteq Int /\ MaxBufs \in Nat \ {0}

VARIABLES swarm, bufs, pool, w

vars == <<swarm, bufs, pool, w>>

-----------------------------------------------------------------------------
Families == {4, 6}
Family(id) == IF id \in V6 THEN 6 ELSE 4

Entries == Hashes \X PeerIDs
ZeroEntry == <<None, None>>

\* make([]byte, peerlist4Max), make([]byte, peerlist6Max)
NewBuf == [data |-> [i \in 1..Limit |-> ZeroEntry], len |-> Limit]

Content(buf) == SubSeq(buf.data, 1, buf.len)

\* A worker at pc, without buffers and a reply
At(pc, proto, family, h, numWant) ==
    [pc |-> pc, proto |-> proto, family |-> family, hash |-> h, numWant |-> numWant,
     buf |-> [f \in Families |-> 0], early |-> FALSE, seen |-> {}, reply |-> <<>>]

IdleWorker == At("idle", "none", 4, None, 0)

Init ==
    /\ swarm = [h \in Hashes |-> {}]
    /\ bufs = [f \in Families |-> <<>>]
    /\ pool = [f \in Families |-> {}]
    /\ w = [p \in Workers |-> IdleWorker]

Smaller(m, n) == IF m < n THEN m ELSE n

-----------------------------------------------------------------------------
\* Mutant of NumWant: the limit is not applied
NumWantUncapped(proto, n) == IF proto = "udp" /\ n < 1 THEN Default ELSE n

\* The numwant of the two announce handlers
NumWant(proto, n) ==
    IF proto = "udp" /\ n < 1 THEN Default ELSE Smaller(n, Limit)

\* An announce, up to and including Memory.Save.  HTTP refuses a negative
\* numwant.
Announce(p, proto, h, id, n) ==
    /\ w[p].pc = "idle"
    /\ proto # "udp" => n >= 0
    /\ swarm' = [swarm EXCEPT ![h] = @ \cup {id}]
    /\ w' = [w EXCEPT ![p] =
               At(IF proto = "list" THEN "list" ELSE "get", proto, Family(id), h,
                  NumWant(proto, n))]
    /\ UNCHANGED <<bufs, pool>>

\* Drop, by an announce with event stopped, or the trimmer
Leave(h, id) ==
    /\ id \in swarm[h]
    /\ swarm' = [swarm EXCEPT ![h] = @ \ {id}]
    /\ UNCHANGED <<bufs, pool, w>>

\* Pool.Get: any buffer of the pool as it was put back, or a new one
Get(f, o) ==
    \/ o \in pool[f]
    \/ o = Len(bufs[f]) + 1 /\ o <= MaxBufs

GetBuffers(p, o4, o6) ==
    LET o == [f \in Families |-> IF f = 4 THEN o4 ELSE o6]
    IN  /\ w[p].pc = "get"
        /\ \A f \in Families : Get(f, o[f])
        /\ pool' = [f \in Families |-> pool[f] \ {o[f]}]
        /\ bufs' = [f \in Families |-> IF o[f] > Len(bufs[f])
                                       THEN Append(bufs[f], NewBuf) ELSE bufs[f]]
        /\ w' = [w EXCEPT ![p].pc = "fill", ![p].buf = o]
        /\ UNCHANGED swarm

OfFamily(ids, f) == {id \in ids : Family(id) = f}

\* What the range over peermap.Peers may have visited when it ends: it takes
\* them in any order, and stops with the peer that fills its family's buffer
Visited(ids) ==
    {V \in SUBSET ids :
        LET full == {f \in Families : Cardinality(OfFamily(V, f)) = Limit}
        IN  /\ \A f \in Families : Cardinality(OfFamily(V, f)) <= Limit
            /\ V # ids => full # {}
            /\ full # Families}

\* The orders in which the peers of each family are visited
Orders(ids) ==
    UNION {{[f \in Families |-> IF f = 4 THEN o4 ELSE o6] :
               o4 \in SetToSeqs(OfFamily(V, 4)), o6 \in SetToSeqs(OfFamily(V, 6))} :
           V \in Visited(ids)}

\* Mutant of Fill: the slice is not cut to the peers copied
FillUncut(buf, h, ids) ==
    [buf EXCEPT !.data = [i \in 1..Limit |->
                            IF i <= Len(ids) THEN <<h, ids[i]>> ELSE @[i]]]

\* buf after the peers ids were copied into it and it was cut to their number
Fill(buf, h, ids) ==
    [data |-> [i \in 1..Limit |-> IF i <= Len(ids) THEN <<h, ids[i]>> ELSE buf.data[i]],
     len  |-> Len(ids)]

\* Mutant of PeerListBytes: the buffers go back with a defer
PeerListBytesPutsEarly(p) ==
    LET h == w[p].hash
    IN  /\ w[p].pc = "fill"
        /\ \E order \in Orders(swarm[h]) :
              bufs' = [f \in Families |-> [bufs[f] EXCEPT ![w[p].buf[f]] =
                                             Fill(@, h, order[f])]]
        /\ pool' = [f \in Families |-> pool[f] \cup {w[p].buf[f]}]
        /\ w' = [w EXCEPT ![p].pc = "encode", ![p].seen = {h} \X swarm[h]]
        /\ UNCHANGED swarm

\* PeerListBytes, under peermap.mutex.RLock.  numWant is compared with zero
\* and otherwise not used; the early return leaves the buffers as they came.
PeerListBytes(p) ==
    LET h     == w[p].hash
        early == swarm[h] = {} \/ w[p].numWant = 0
    IN  /\ w[p].pc = "fill"
        /\ IF early THEN bufs' = bufs
           ELSE \E order \in Orders(swarm[h]) :
                   bufs' = [f \in Families |-> [bufs[f] EXCEPT ![w[p].buf[f]] =
                                                  Fill(@, h, order[f])]]
        /\ w' = [w EXCEPT ![p].pc = "encode", ![p].early = early,
                          ![p].seen = {h} \X swarm[h]]
        /\ UNCHANGED <<swarm, pool>>

\* AnnounceResp.Marshall copies the list of the client's family, the HTTP
\* dictionary both
Encode(p) ==
    LET Of(f) == Content(bufs[f][w[p].buf[f]])
    IN  /\ w[p].pc = "encode"
        /\ w' = [w EXCEPT ![p].pc = "put",
                          ![p].reply = IF w[p].proto = "http" THEN Of(4) \o Of(6)
                                       ELSE Of(w[p].family)]
        /\ UNCHANGED <<swarm, bufs, pool>>

\* Pool.Put: its reset works on a copy of the slice header
PutBuffers(p) ==
    /\ w[p].pc = "put"
    /\ pool' = IF w[p].proto = "list" THEN pool
               ELSE [f \in Families |-> pool[f] \cup {w[p].buf[f]}]
    /\ w' = [w EXCEPT ![p] = IdleWorker]
    /\ UNCHANGED <<swarm, bufs>>

\* PeerList: numWant peers, or all there are
ListPeers(p) ==
    LET h == w[p].hash
    IN  /\ w[p].pc = "list"
        /\ \E order \in SetToSeqs(swarm[h]) :
              w' = [w EXCEPT ![p].pc = "put", ![p].seen = {h} \X swarm[h],
                      ![p].reply = [i \in 1..Smaller(w[p].numWant, Len(order)) |->
                                        <<h, order[i]>>]]
        /\ UNCHANGED <<swarm, bufs, pool>>

Next ==
    \/ \E p \in Workers :
          \/ \E proto \in Protos, h \in Hashes, id \in PeerIDs,
                n \in NumWants : Announce(p, proto, h, id, n)
          \/ \E o4, o6 \in 1..MaxBufs : GetBuffers(p, o4, o6)
          \/ PeerListBytes(p) \/ Encode(p) \/ PutBuffers(p) \/ ListPeers(p)
    \/ \E h \in Hashes, id \in PeerIDs : Leave(h, id)

Spec == Init /\ [][Next]_vars

-----------------------------------------------------------------------------
Buf == [data : [1..Limit -> Entries \cup {ZeroEntry}], len : 0..Limit]

TypeOK ==
    /\ swarm \in [Hashes -> SUBSET PeerIDs]
    /\ \A f \in Families : /\ bufs[f] \in Seq(Buf)
                           /\ pool[f] \subseteq DOMAIN bufs[f]
    /\ \A p \in Workers :
          /\ w[p].pc \in {"idle", "get", "fill", "encode", "put", "list"}
          /\ w[p].numWant \in 0..Limit
          /\ w[p].pc \in {"fill", "encode"} =>
                \A f \in Families : w[p].buf[f] \in DOMAIN bufs[f]

(* Every buffer is in the pool or with one worker: nobody writes a peer     *)
(* list into a slice that another announce is still encoding.               *)
BuffersHaveOneOwner ==
    \A f \in Families, p, q \in Workers :
        (w[p].buf[f] # 0 /\ w[p].pc # "idle") =>
            /\ w[p].buf[f] \notin pool[f]
            /\ p # q => w[q].buf[f] # w[p].buf[f]

Replied(p) == w[p].pc = "put"
ListedIn(p) == {w[p].reply[i] : i \in DOMAIN w[p].reply}
InFamilies(p, es) == {e \in es : w[p].proto = "http" \/ Family(e[2]) = w[p].family}

(* Whatever was in the recycled buffers, and however long the slices were,  *)
(* a compact reply that does not come from an early return lists peers of   *)
(* its swarm, each once, and all of them if they fit: other announces that  *)
(* run between the copy and the encoding cannot change it.                  *)
RepliesAreExact ==
    \A p \in Workers :
        (Replied(p) /\ w[p].proto # "list" /\ ~w[p].early) =>
            /\ IsInjective(w[p].reply)
            /\ ListedIn(p) \subseteq InFamilies(p, w[p].seen)
            /\ Cardinality(w[p].seen) <= Limit =>
                  ListedIn(p) = InFamilies(p, w[p].seen)
=============================================================================
