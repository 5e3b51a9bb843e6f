--------------------------- MODULE PeerListProofs ---------------------------
(***************************************************************************)
(* For any workers, swarms and announces, and any number of buffers: a     *)
(* buffer has one owner from the time it leaves its pool until it is back, *)
(* the types of the state, and that a compact reply lists the peers of its *)
(* swarm.  The last rests on the first: what PeerListBytes copied is still *)
(* in the buffers when the reply is encoded, because only their owner      *)
(* writes them.                                                            *)
(***************************************************************************)
EXTENDS PeerList, SequenceTheorems, FiniteSetTheorems, TLAPS

\* What is in the buffers does not matter for who has them
Sequence(s) == \E S : s \in Seq(S)

Numbered == \A f \in Families : Sequence(bufs[f]) /\ pool[f] \subseteq DOMAIN bufs[f]

(* Where a worker is says whether it has buffers.  A reply that is a list   *)
(* is put nowhere: its worker has none then either.                         *)
Has(p) == w[p].pc \in {"fill", "encode", "put"} /\ w[p].proto # "list"

Owns(p) ==
    \A f \in Families :
        IF Has(p) THEN w[p].buf[f] \in DOMAIN bufs[f] \ pool[f] ELSE w[p].buf[f] = 0

Apart ==
    \A p, q \in Workers, f \in Families :
        p # q /\ w[p].buf[f] # 0 => w[q].buf[f] # w[p].buf[f]

Locals(l) ==
    l = [pc |-> l.pc, proto |-> l.proto, family |-> l.family, hash |-> l.hash,
         numWant |-> l.numWant, buf |-> l.buf, early |-> l.early,
         seen |-> l.seen, reply |-> l.reply]

\* Announces that want a list go their own way
Ways(l) ==
    /\ l.pc = "list" => l.proto = "list"
    /\ l.proto = "list" => l.pc \in {"list", "put"}

(* BuffersHaveOneOwner does not say that a worker which returns buffers has *)
(* some to return, nor that a buffer which is made is nobody's.             *)
IInv ==
    /\ w = [p \in Workers |-> w[p]]
    /\ \A p \in Workers : Locals(w[p]) /\ Ways(w[p])
    /\ Numbered
    /\ \A p \in Workers : Owns(p)
    /\ Apart

-----------------------------------------------------------------------------
LEMMA SequenceOK ==
    ASSUME NEW s, Sequence(s)
    PROVE  Len(s) \in Nat /\ DOMAIN s = 1..Len(s)
  BY DEF Sequence

LEMMA AppendOK ==
    ASSUME NEW s, Sequence(s), NEW e
    PROVE  Sequence(Append(s, e)) /\ DOMAIN Append(s, e) = 1..Len(s) + 1
  <1>1. PICK S : s \in Seq(S)
    BY DEF Sequence
  <1>2. s \in Seq(S \cup {e})
    BY <1>1
  <1>3. QED
    BY <1>2 DEF Sequence

LEMMA WrittenOK ==
    ASSUME NEW s, Sequence(s), NEW i, NEW e
    PROVE  Sequence([s EXCEPT ![i] = e]) /\ DOMAIN [s EXCEPT ![i] = e] = DOMAIN s
  <1>1. PICK S : s \in Seq(S)
    BY DEF Sequence
  <1>2. PICK n \in Nat : s \in [1..n -> S]
    BY <1>1, SeqDef
  <1>3. [s EXCEPT ![i] = e] \in [1..n -> S \cup {e}]
    BY <1>2
  <1>4. \A T, t : t \in [1..n -> T] => t \in Seq(T)
    BY SeqDef
  <1>5. QED
    BY <1>2, <1>3, <1>4, Zenon DEF Sequence

(* One worker moves on, and the others keep what they have.                 *)
LEMMA MoveOK ==
    ASSUME IInv, NEW p \in Workers, NEW l, w' = [w EXCEPT ![p] = l],
           Locals(l), Ways(l), Numbered',
           \A q \in Workers \ {p}, f \in Families :
              /\ Has(q) => w[q].buf[f] \in DOMAIN bufs'[f] \ pool'[f]
              /\ l.buf[f] # 0 => w[q].buf[f] # l.buf[f],
           \A f \in Families :
              IF l.pc \in {"fill", "encode", "put"} /\ l.proto # "list"
              THEN l.buf[f] \in DOMAIN bufs'[f] \ pool'[f] ELSE l.buf[f] = 0
    PROVE  IInv'
  <1>1. w'[p] = l /\ \A q \in Workers \ {p} : w'[q] = w[q]
    BY DEF IInv
  <1>2. w' = [q \in Workers |-> w'[q]]
    BY DEF IInv
  <1>3. Owns(p)'
    BY <1>1 DEF Owns, Has
  <1>4. ASSUME NEW q \in Workers \ {p} PROVE Owns(q)'
    BY <1>1 DEF IInv, Owns, Has
  <1>5. Apart'
    BY <1>1 DEF IInv, Apart
  <1>6. \A q \in Workers : Locals(w'[q]) /\ Ways(w'[q])
    BY <1>1 DEF IInv
  <1>7. QED
    BY <1>2, <1>3, <1>4, <1>5, <1>6 DEF IInv

LEMMA PcOK ==
    ASSUME NEW l, Locals(l), NEW v, NEW m, m = [l EXCEPT !.pc = v]
    PROVE  Locals(m) /\ m.pc = v /\ m.proto = l.proto /\ m.buf = l.buf
  BY DEF Locals

LEMMA BufOK ==
    ASSUME NEW l, Locals(l), NEW v, NEW m, m = [l EXCEPT !.buf = v]
    PROVE  Locals(m) /\ m.pc = l.pc /\ m.proto = l.proto /\ m.buf = v
  BY DEF Locals

LEMMA FieldOK ==
    ASSUME NEW l, Locals(l), NEW v, NEW m,
           m \in {[l EXCEPT !.early = v], [l EXCEPT !.seen = v], [l EXCEPT !.reply = v]}
    PROVE  Locals(m) /\ m.pc = l.pc /\ m.proto = l.proto /\ m.buf = l.buf
  BY DEF Locals

LEMMA AtOK ==
    ASSUME NEW pc, NEW proto, NEW family, NEW h, NEW numWant
    PROVE  LET l == At(pc, proto, family, h, numWant)
           IN  /\ Locals(l) /\ l.pc = pc /\ l.proto = proto
               /\ \A f \in Families : l.buf[f] = 0
  BY DEF Locals, At

LEMMA AnnounceOK ==
    ASSUME IInv, NEW p \in Workers, NEW proto \in Protos, NEW h \in Hashes, NEW id \in PeerIDs,
           NEW n \in NumWants, Announce(p, proto, h, id, n)
    PROVE  IInv'
  <1> DEFINE pc == IF proto = "list" THEN "list" ELSE "get"
             l  == At(pc, proto, Family(id), h, NumWant(proto, n))
  <1>1. w' = [w EXCEPT ![p] = l] /\ UNCHANGED <<bufs, pool>>
    BY DEF Announce
  <1>2. /\ Locals(l) /\ l.pc = pc /\ l.proto = proto
        /\ \A f \in Families : l.buf[f] = 0
    BY AtOK
  <1> HIDE DEF l
  <1>3. Ways(l) /\ l.pc \in {"list", "get"}
    BY <1>2 DEF Ways
  <1>4. QED
    BY <1>1, <1>2, <1>3, MoveOK DEF IInv, Numbered, Owns

LEMMA GetOK ==
    ASSUME IInv, NEW p \in Workers, NEW o4, NEW o6, GetBuffers(p, o4, o6)
    PROVE  IInv'
  <1> DEFINE o == [f \in Families |-> IF f = 4 THEN o4 ELSE o6]
             l == [w[p] EXCEPT !.pc = "fill", !.buf = o]
  <1>1. /\ w[p].pc = "get" /\ w[p].proto # "list"
        /\ w' = [w EXCEPT ![p] = l]
    BY DEF GetBuffers, IInv, Ways
  <1>2. /\ Locals(l) /\ l.pc = "fill" /\ l.proto = w[p].proto /\ l.buf = o
    <2> DEFINE k == [w[p] EXCEPT !.pc = "fill"]
    <2>1. Locals(k) /\ k.pc = "fill" /\ k.proto = w[p].proto
      BY PcOK DEF IInv
    <2>2. l = [k EXCEPT !.buf = o]
      OBVIOUS
    <2> HIDE DEF k, o, l
    <2>3. QED
      BY <2>1, <2>2, BufOK
  <1> HIDE DEF l
  <1>3. ASSUME NEW f \in Families
        PROVE  /\ pool'[f] = pool[f] \ {o[f]}
               /\ Sequence(bufs'[f]) /\ DOMAIN bufs'[f] = DOMAIN bufs[f] \cup {o[f]}
               /\ o[f] \in pool[f] \/ o[f] \notin DOMAIN bufs[f]
               /\ o[f] # 0
    <2>1. Get(f, o[f]) /\ pool'[f] = pool[f] \ {o[f]}
      BY <1>3 DEF GetBuffers
    <2>2. bufs'[f] = IF o[f] > Len(bufs[f]) THEN Append(bufs[f], NewBuf) ELSE bufs[f]
      BY <1>3 DEF GetBuffers
    <2>3. Sequence(bufs[f]) /\ pool[f] \subseteq DOMAIN bufs[f]
      BY DEF IInv, Numbered
    <2>4. Len(bufs[f]) \in Nat /\ DOMAIN bufs[f] = 1..Len(bufs[f])
      BY <2>3, SequenceOK
    <2>5. CASE o[f] \in pool[f]
      BY <2>1, <2>2, <2>3, <2>4, <2>5
    <2>6. CASE o[f] = Len(bufs[f]) + 1
      <3>1. bufs'[f] = Append(bufs[f], NewBuf)
        BY <2>2, <2>4, <2>6
      <3>2. Sequence(bufs'[f]) /\ DOMAIN bufs'[f] = 1..Len(bufs[f]) + 1
        BY <2>3, <3>1, AppendOK
      <3>3. QED
        BY <2>1, <2>4, <2>6, <3>2
    <2>7. QED
      BY <2>1, <2>5, <2>6 DEF Get
  <1> HIDE DEF o
  <1>4. Numbered'
    BY <1>3 DEF IInv, Numbered
  <1>5. ASSUME NEW q \in Workers \ {p}, NEW f \in Families
        PROVE  /\ Has(q) => w[q].buf[f] \in DOMAIN bufs'[f] \ pool'[f]
               /\ o[f] # 0 => w[q].buf[f] # o[f]
    BY <1>3 DEF IInv, Owns
  <1>6. Ways(l)
    BY <1>1, <1>2 DEF Ways
  <1>7. \A f \in Families : l.buf[f] \in DOMAIN bufs'[f] \ pool'[f]
    BY <1>2, <1>3
  <1>8. QED
    BY <1>1, <1>2, <1>4, <1>5, <1>6, <1>7, MoveOK

(* Writing into a buffer, or out of it, moves none.                         *)
LEMMA KeepOK ==
    ASSUME IInv, NEW p \in Workers, NEW l, w' = [w EXCEPT ![p] = l], Locals(l), Ways(l),
           l.buf = w[p].buf, l.proto = w[p].proto,
           l.pc \in {"fill", "encode", "put"}, w[p].pc \in {"fill", "encode", "put", "list"},
           pool' = pool, \A f \in Families : Sequence(bufs'[f]) /\ DOMAIN bufs'[f] = DOMAIN bufs[f]
    PROVE  IInv'
  <1>1. Numbered'
    BY DEF IInv, Numbered
  <1>2. ASSUME NEW f \in Families
        PROVE  IF l.proto # "list" THEN l.buf[f] \in DOMAIN bufs'[f] \ pool'[f] ELSE l.buf[f] = 0
    BY DEF IInv, Numbered, Owns, Has, Ways
  <1>3. ASSUME NEW q \in Workers \ {p}, NEW f \in Families
        PROVE  /\ Has(q) => w[q].buf[f] \in DOMAIN bufs'[f] \ pool'[f]
               /\ l.buf[f] # 0 => w[q].buf[f] # l.buf[f]
    BY DEF IInv, Owns, Apart
  <1>4. QED
    BY <1>1, <1>2, <1>3, MoveOK

\* What PeerListBytes writes into its two buffers, whichever they are
LEMMA FilledOK ==
    ASSUME IInv, NEW p \in Workers, NEW e,
           bufs' = [f \in Families |-> [bufs[f] EXCEPT ![w[p].buf[f]] = e[f]]]
    PROVE  \A f \in Families : Sequence(bufs'[f]) /\ DOMAIN bufs'[f] = DOMAIN bufs[f]
  BY WrittenOK DEF IInv, Numbered

LEMMA FillOK ==
    ASSUME IInv, NEW p \in Workers, PeerListBytes(p)
    PROVE  IInv'
  <1> DEFINE early == swarm[w[p].hash] = {} \/ w[p].numWant = 0
             seen == {w[p].hash} \X swarm[w[p].hash]
             k == [w[p] EXCEPT !.pc = "encode"]
             j == [k EXCEPT !.early = early]
             l == [j EXCEPT !.seen = seen]
  <1>1. w' = [w EXCEPT ![p] = l] /\ pool' = pool /\ w[p].pc = "fill"
    BY DEF PeerListBytes
  <1>2. Locals(k) /\ k.pc = "encode" /\ k.proto = w[p].proto /\ k.buf = w[p].buf
    BY PcOK DEF IInv
  <1> HIDE DEF k, early, seen
  <1>3. Locals(j) /\ j.pc = "encode" /\ j.proto = w[p].proto /\ j.buf = w[p].buf
    BY <1>2, FieldOK
  <1> HIDE DEF j
  <1>4. Locals(l) /\ l.pc = "encode" /\ l.proto = w[p].proto /\ l.buf = w[p].buf
    BY <1>3, FieldOK
  <1> HIDE DEF l
  <1>5. \A f \in Families : Sequence(bufs'[f]) /\ DOMAIN bufs'[f] = DOMAIN bufs[f]
    <2>1. CASE bufs' = bufs
      BY <2>1 DEF IInv, Numbered
    <2>2. ASSUME NEW order, bufs' = [f \in Families |-> [bufs[f] EXCEPT ![w[p].buf[f]] =
                               Fill(@, w[p].hash, order[f])]]
          PROVE  \A f \in Families : Sequence(bufs'[f]) /\ DOMAIN bufs'[f] = DOMAIN bufs[f]
      <3> DEFINE e == [f \in Families |-> Fill(bufs[f][w[p].buf[f]], w[p].hash,
                                               order[f])]
      <3>1. bufs' = [f \in Families |-> [bufs[f] EXCEPT ![w[p].buf[f]] = e[f]]]
        BY <2>2
      <3> HIDE DEF e
      <3>2. QED
        BY <3>1, FilledOK
    <2>3. QED
      BY <2>1, <2>2 DEF PeerListBytes
  <1>6. Ways(l)
    BY <1>1, <1>4 DEF IInv, Ways
  <1>7. QED
    BY <1>1, <1>4, <1>5, <1>6, KeepOK

LEMMA EncodeOK ==
    ASSUME IInv, NEW p \in Workers, Encode(p)
    PROVE  IInv'
  <1>1. PICK reply : /\ w' = [w EXCEPT ![p].pc = "put", ![p].reply = reply]
                     /\ UNCHANGED <<pool, bufs>> /\ w[p].pc = "encode"
    BY DEF Encode
  <1> DEFINE k == [w[p] EXCEPT !.pc = "put"]
             l == [k EXCEPT !.reply = reply]
  <1>2. w' = [w EXCEPT ![p] = l]
    BY <1>1 DEF IInv
  <1>3. Locals(k) /\ k.pc = "put" /\ k.proto = w[p].proto /\ k.buf = w[p].buf
    BY PcOK DEF IInv
  <1> HIDE DEF k
  <1>4. Locals(l) /\ l.pc = "put" /\ l.proto = w[p].proto /\ l.buf = w[p].buf
    BY <1>3, FieldOK
  <1> HIDE DEF l
  <1>5. Ways(l)
    BY <1>4 DEF Ways
  <1>6. QED
    BY <1>1, <1>2, <1>4, <1>5, KeepOK DEF IInv, Numbered

LEMMA ListOK ==
    ASSUME IInv, NEW p \in Workers, ListPeers(p)
    PROVE  IInv'
  <1>1. PICK seen, reply :
           /\ w' = [w EXCEPT ![p].pc = "put", ![p].seen = seen, ![p].reply = reply]
           /\ UNCHANGED <<pool, bufs>> /\ w[p].pc = "list"
    BY DEF ListPeers
  <1> DEFINE k == [w[p] EXCEPT !.pc = "put"]
             j == [k EXCEPT !.seen = seen]
             l == [j EXCEPT !.reply = reply]
  <1>2. w' = [w EXCEPT ![p] = l]
    BY <1>1 DEF IInv
  <1>3. Locals(k) /\ k.pc = "put" /\ k.proto = w[p].proto /\ k.buf = w[p].buf
    BY PcOK DEF IInv
  <1> HIDE DEF k
  <1>4. Locals(j) /\ j.pc = "put" /\ j.proto = w[p].proto /\ j.buf = w[p].buf
    BY <1>3, FieldOK
  <1> HIDE DEF j
  <1>5. Locals(l) /\ l.pc = "put" /\ l.proto = w[p].proto /\ l.buf = w[p].buf
    BY <1>4, FieldOK
  <1> HIDE DEF l
  <1>6. Ways(l)
    BY <1>5 DEF Ways
  <1>7. QED
    BY <1>1, <1>2, <1>5, <1>6, KeepOK DEF IInv, Numbered

LEMMA PutOK ==
    ASSUME IInv, NEW p \in Workers, PutBuffers(p)
    PROVE  IInv'
  <1>1. /\ w' = [w EXCEPT ![p] = IdleWorker] /\ bufs' = bufs /\ w[p].pc = "put"
        /\ pool' = IF w[p].proto = "list" THEN pool
                   ELSE [f \in Families |-> pool[f] \cup {w[p].buf[f]}]
    BY DEF PutBuffers
  <1>2. /\ Locals(IdleWorker) /\ IdleWorker.pc = "idle" /\ IdleWorker.proto = "none"
        /\ \A f \in Families : IdleWorker.buf[f] = 0
    BY AtOK DEF IdleWorker
  <1>3. Ways(IdleWorker)
    BY <1>2 DEF Ways
  <1>4. \A f \in Families : 0 \notin DOMAIN bufs[f]
    BY SequenceOK DEF IInv, Numbered
  <1>5. ASSUME NEW f \in Families
        PROVE  pool'[f] = pool[f] \/ (pool'[f] = pool[f] \cup {w[p].buf[f]}
                                        /\ w[p].buf[f] \in DOMAIN bufs[f])
    BY <1>1 DEF IInv, Owns, Has
  <1>6. Numbered'
    BY <1>1, <1>5 DEF IInv, Numbered
  <1>7. ASSUME NEW q \in Workers \ {p}, NEW f \in Families, Has(q)
        PROVE  w[q].buf[f] \in DOMAIN bufs'[f] \ pool'[f]
    BY <1>1, <1>4, <1>5, <1>7 DEF IInv, Owns, Apart
  <1>8. QED
    BY <1>1, <1>2, <1>3, <1>6, <1>7, MoveOK

LEMMA InitOK == Init => IInv
  <1> SUFFICES ASSUME Init PROVE IInv
    OBVIOUS
  <1>1. \A p \in Workers : /\ Locals(w[p]) /\ w[p].pc = "idle" /\ w[p].proto = "none"
                            /\ \A f \in Families : w[p].buf[f] = 0
    BY AtOK DEF Init, IdleWorker
  <1>2. Numbered
    BY DEF Init, Numbered, Sequence
  <1>3. QED
    BY <1>1, <1>2 DEF IInv, Init, Ways, Owns, Has, Apart

LEMMA NextOK == IInv /\ [Next]_vars => IInv'
  <1> SUFFICES ASSUME IInv, [Next]_vars PROVE IInv'
    OBVIOUS
  <1>1. ASSUME UNCHANGED <<bufs, pool, w>> PROVE IInv'
    BY <1>1 DEF IInv, Numbered, Owns, Has, Apart
  <1>2. CASE UNCHANGED vars
    BY <1>1, <1>2 DEF vars
  <1>3. CASE \E h \in Hashes, id \in PeerIDs : Leave(h, id)
    BY <1>1, <1>3 DEF Leave
  <1>4. CASE \E p \in Workers :
               \/ \E proto \in Protos, h \in Hashes, id \in PeerIDs,
                     n \in NumWants : Announce(p, proto, h, id, n)
               \/ \E o4, o6 \in 1..MaxBufs : GetBuffers(p, o4, o6)
               \/ PeerListBytes(p) \/ Encode(p) \/ PutBuffers(p) \/ ListPeers(p)
    BY <1>4, AnnounceOK, GetOK, FillOK, EncodeOK, PutOK, ListOK
  <1>5. QED
    BY <1>2, <1>3, <1>4 DEF Next

(* The announce handlers share no buffer: any workers, any number of        *)
(* buffers, every kind of announce, whatever numwant and the swarm are.     *)
THEOREM OneOwner == Spec => []BuffersHaveOneOwner
  <1>1. IInv => BuffersHaveOneOwner
    BY SequenceOK DEF IInv, Numbered, Owns, Apart, BuffersHaveOneOwner
  <1>2. QED
    BY <1>1, InitOK, NextOK, PTL DEF Spec

-----------------------------------------------------------------------------
\* What PeerListBytes copies into a buffer

(* An order of a finite set has every element at one place.                 *)
LEMMA OrderOK ==
    ASSUME NEW S, IsFiniteSet(S), NEW o \in SetToSeqs(S)
    PROVE  /\ Cardinality(S) \in Nat
           /\ o \in [1..Cardinality(S) -> S] /\ Len(o) = Cardinality(S)
           /\ \A i, j \in 1..Cardinality(S) : o[i] = o[j] => i = j
           /\ \A x \in S : \E i \in 1..Cardinality(S) : o[i] = x
  <1>1. PICK n \in Nat : n = Cardinality(S)
    BY FS_CardinalityType
  <1>2. o \in [1..n -> S] /\ \A i, j \in 1..n : i # j => o[i] # o[j]
    BY <1>1 DEF SetToSeqs
  <1>3. o \in Injection(1..n, S)
    BY <1>2 DEF Injection, IsInjective
  <1>4. IsFiniteSet(1..n) /\ Cardinality(1..n) = n
    BY FS_Interval
  <1>5. o \in Surjection(1..n, S)
    BY <1>1, <1>3, <1>4, FS_Injection
  <1>6. \A x \in S : \E i \in 1..n : o[i] = x
    BY <1>5 DEF Surjection
  <1>7. Len(o) = n
    <2>1. o \in Seq(S)
      BY <1>2, SeqDef
    <2>2. QED
      BY <1>2, <2>1
  <1>8. QED
    BY <1>1, <1>2, <1>6, <1>7

LEMMA PairsOK ==
    ASSUME NEW S, IsFiniteSet(S), NEW h
    PROVE  Cardinality(S) <= Cardinality({h} \X S)
  <1>1. IsFiniteSet({h} \X S)
    BY FS_Singleton, FS_Product
  <1> DEFINE g == [x \in S |-> <<h, x>>]
  <1>2. g \in Injection(S, {h} \X S)
    BY DEF Injection, IsInjective
  <1>3. QED
    BY <1>1, <1>2, FS_Injection

\* The entries of a family
InFamily(es, f) == {e \in es : Family(e[2]) = f}

\* c, the content of a buffer, lists peers of es in family f, each once, and
\* all of them if they fit
Exactly(c, es, f) ==
    /\ IsInjective(c)
    /\ \A i \in DOMAIN c : c[i] \in InFamily(es, f)
    /\ Cardinality(es) <= Limit => \A e \in InFamily(es, f) : \E i \in DOMAIN c : c[i] = e

LEMMA ContentOK ==
    ASSUME NEW b, NEW h, NEW o, NEW n \in Nat, Len(o) = n, n <= Limit
    PROVE  Content(Fill(b, h, o)) = [i \in 1..n |-> <<h, o[i]>>]
  <1> DEFINE d == [i \in 1..Limit |-> IF i <= Len(o) THEN <<h, o[i]>> ELSE b.data[i]]
  <1>1. Fill(b, h, o).data = d /\ Fill(b, h, o).len = n
    BY DEF Fill
  <1>2. Content(Fill(b, h, o)) = SubSeq(d, 1, n)
    BY <1>1 DEF Content
  <1>3. SubSeq(d, 1, n) = [i \in 1..n |-> d[i]]
    <2>1. PICK T : \A i \in 1..n : d[i] \in T
      <3>1. \A i \in 1..n : d[i] \in {d[j] : j \in 1..n}
        OBVIOUS
      <3>2. QED
        BY <3>1
    <2> HIDE DEF d
    <2>2. /\ SubSeq(d, 1, n) \in Seq(T)
          /\ Len(SubSeq(d, 1, n)) = IF 1 <= n THEN n - 1 + 1 ELSE 0
          /\ \A i \in 1..(n - 1 + 1) : SubSeq(d, 1, n)[i] = d[1 + i - 1]
      BY <2>1, SubSeqProperties
    <2>3. PICK s : s = SubSeq(d, 1, n)
      OBVIOUS
    <2>4. s \in Seq(T) /\ Len(s) = n /\ \A i \in 1..n : s[i] = d[i]
      BY <2>2, <2>3
    <2>5. s = [i \in 1..n |-> d[i]]
      BY <2>4
    <2>6. QED
      BY <2>3, <2>5
  <1>4. \A i \in 1..n : d[i] = <<h, o[i]>>
    BY NumWantAssumption
  <1>5. QED
    BY <1>2, <1>3, <1>4

(* The visit stops early only when a family fills its buffer, and so not    *)
(* when all the peers fit in one.                                           *)
LEMMA VisitedAll ==
    ASSUME NEW S, IsFiniteSet(S), NEW V \in Visited(S), NEW h,
           Cardinality({h} \X S) <= Limit
    PROVE  V = S
  <1> SUFFICES ASSUME V # S PROVE FALSE
    OBVIOUS
  <1>1. V \subseteq S
    BY DEF Visited
  <1>2. PICK f \in Families : Cardinality(OfFamily(V, f)) = Limit
    BY DEF Visited
  <1>3. IsFiniteSet(V) /\ Cardinality(V) <= Cardinality(S)
          /\ (Cardinality(S) = Cardinality(V) => S = V)
    BY <1>1, FS_Subset
  <1>4. Cardinality(OfFamily(V, f)) <= Cardinality(V)
    BY <1>3, FS_Subset DEF OfFamily
  <1>5. Cardinality(S) <= Cardinality({h} \X S)
    BY PairsOK
  <1>6. Cardinality(S) \in Nat /\ Cardinality(V) \in Nat
    BY <1>3, FS_CardinalityType
  <1>7. Cardinality({h} \X S) \in Nat
    BY FS_Singleton, FS_Product, FS_CardinalityType
  <1>8. QED
    BY <1>2, <1>3, <1>4, <1>5, <1>6, <1>7, NumWantAssumption

LEMMA FilledExactly ==
    ASSUME NEW S, IsFiniteSet(S), NEW h, NEW order \in Orders(S), NEW f \in Families, NEW b
    PROVE  Exactly(Content(Fill(b, h, order[f])), {h} \X S, f)
  <1>1. PICK V \in Visited(S) : order[f] \in SetToSeqs(OfFamily(V, f))
    BY DEF Orders, Families
  <1>2. PICK T : T = OfFamily(V, f)
    OBVIOUS
  <1>3. PICK o : o = order[f]
    OBVIOUS
  <1>4. V \subseteq S /\ Cardinality(T) <= Limit
    BY <1>2 DEF Visited
  <1>5. T = {id \in V : Family(id) = f} /\ IsFiniteSet(T)
    BY <1>2, <1>4, FS_Subset DEF OfFamily
  <1>6. PICK n \in Nat : n = Cardinality(T)
    BY <1>5, FS_CardinalityType
  <1>7. /\ o \in [1..n -> T] /\ Len(o) = n
        /\ \A i, j \in 1..n : o[i] = o[j] => i = j
        /\ \A x \in T : \E i \in 1..n : o[i] = x
    <2>1. o \in SetToSeqs(T)
      BY <1>1, <1>2, <1>3
    <2>2. /\ o \in [1..Cardinality(T) -> T] /\ Len(o) = Cardinality(T)
          /\ \A i, j \in 1..Cardinality(T) : o[i] = o[j] => i = j
          /\ \A x \in T : \E i \in 1..Cardinality(T) : o[i] = x
      <3>1. IsFiniteSet(T)
        BY <1>5
      <3>2. QED
        BY <2>1, <3>1, OrderOK, Zenon
    <2>3. QED
      BY <1>6, <2>2
  <1>8. PICK c : c = Content(Fill(b, h, o))
    OBVIOUS
  <1>9. c = [i \in 1..n |-> <<h, o[i]>>]
    BY <1>4, <1>6, <1>7, <1>8, ContentOK
  <1>10. IsInjective(c)
    BY <1>7, <1>9 DEF IsInjective
  <1>11. \A i \in DOMAIN c : c[i] \in InFamily({h} \X S, f)
    BY <1>4, <1>5, <1>7, <1>9 DEF InFamily
  <1>12. ASSUME Cardinality({h} \X S) <= Limit, NEW e \in InFamily({h} \X S, f)
         PROVE  \E i \in DOMAIN c : c[i] = e
    <2>1. V = S
      BY <1>12, VisitedAll
    <2>2. PICK x \in S : e = <<h, x>> /\ Family(x) = f
      BY DEF InFamily
    <2>3. x \in T
      BY <1>5, <2>1, <2>2
    <2>4. PICK i \in 1..n : o[i] = x
      BY <1>7, <2>3
    <2>5. QED
      BY <1>9, <2>2, <2>4
  <1>13. Exactly(c, {h} \X S, f)
    BY <1>10, <1>11, <1>12 DEF Exactly
  <1>14. QED
    BY <1>3, <1>8, <1>13

-----------------------------------------------------------------------------
\* The types of the state

\* The locals of a worker have their types
Typed(l) ==
    /\ l.pc \in {"idle", "get", "fill", "encode", "put", "list"}
    /\ l.numWant \in 0..Limit
    /\ l.early \in BOOLEAN
    /\ l.pc # "idle" => l.hash \in Hashes /\ l.family \in Families

TInv ==
    /\ swarm \in [Hashes -> SUBSET PeerIDs]
    /\ \A f \in Families : bufs[f] \in Seq(Buf)
    /\ \A p \in Workers : Typed(w[p])

LEMMA TypedMove ==
    ASSUME IInv, TInv, NEW p \in Workers, NEW l, w' = [w EXCEPT ![p] = l], Typed(l),
           swarm' \in [Hashes -> SUBSET PeerIDs],
           \A f \in Families : bufs'[f] \in Seq(Buf)
    PROVE  TInv'
  <1>1. \A q \in Workers : w'[q] = w[q] \/ w'[q] = l
    BY DEF IInv
  <1>2. \A q \in Workers : Typed(w'[q])
    BY <1>1 DEF TInv
  <1>3. QED
    BY <1>2 DEF TInv

LEMMA NumWantOK ==
    ASSUME NEW proto, NEW n \in Int, proto # "udp" => n >= 0
    PROVE  NumWant(proto, n) \in 0..Limit
  BY NumWantAssumption DEF NumWant, Smaller

LEMMA AnnounceTyped ==
    ASSUME IInv, TInv, NEW p \in Workers, NEW proto, NEW h \in Hashes, NEW id \in PeerIDs,
           NEW n \in NumWants, Announce(p, proto, h, id, n)
    PROVE  TInv'
  <1> DEFINE pc == IF proto = "list" THEN "list" ELSE "get"
             l  == At(pc, proto, Family(id), h, NumWant(proto, n))
  <1>1. w' = [w EXCEPT ![p] = l] /\ UNCHANGED <<bufs, pool>>
    BY DEF Announce
  <1>2. /\ l.pc = pc /\ l.family = Family(id) /\ l.hash = h
        /\ l.numWant = NumWant(proto, n) /\ l.early = FALSE
    BY DEF At
  <1>3. NumWant(proto, n) \in 0..Limit
    BY NumWantOK, NumWantAssumption DEF Announce
  <1> HIDE DEF l
  <1>4. Typed(l)
    BY <1>2, <1>3 DEF Typed, Family, Families
  <1>5. swarm' \in [Hashes -> SUBSET PeerIDs]
    BY DEF Announce, TInv
  <1>6. QED
    BY <1>1, <1>4, <1>5, TypedMove DEF TInv

LEMMA NewBufOK == NewBuf \in Buf
  BY NumWantAssumption DEF NewBuf, Buf

LEMMA GetTyped ==
    ASSUME IInv, TInv, NEW p \in Workers, NEW o4, NEW o6, GetBuffers(p, o4, o6)
    PROVE  TInv'
  <1> DEFINE o == [f \in Families |-> IF f = 4 THEN o4 ELSE o6]
             l == [w[p] EXCEPT !.pc = "fill", !.buf = o]
  <1>1. w' = [w EXCEPT ![p] = l] /\ swarm' = swarm /\ w[p].pc = "get"
    BY DEF GetBuffers, IInv
  <1>2. \A f \in Families : bufs'[f] = bufs[f] \/ bufs'[f] = Append(bufs[f], NewBuf)
    BY DEF GetBuffers
  <1>3. \A f \in Families : bufs'[f] \in Seq(Buf)
    <2>1. ASSUME NEW f \in Families PROVE bufs'[f] \in Seq(Buf)
      <3>1. bufs[f] \in Seq(Buf)
        BY DEF TInv
      <3>2. Append(bufs[f], NewBuf) \in Seq(Buf)
        BY <3>1, NewBufOK, AppendProperties
      <3>3. QED
        BY <1>2, <3>1, <3>2
    <2>2. QED
      BY <2>1
  <1>4. PICK v : v = o
    OBVIOUS
  <1>5. Locals(w[p]) /\ Typed(w[p]) /\ l = [w[p] EXCEPT !.pc = "fill", !.buf = v]
    BY <1>4 DEF IInv, TInv
  <1> HIDE DEF o, l
  <1>6. Typed(l)
    BY <1>1, <1>5 DEF Locals, Typed
  <1>7. QED
    BY <1>1, <1>3, <1>6, TypedMove DEF TInv

\* Fill makes a buffer of a buffer
LEMMA FillTyped ==
    ASSUME NEW b \in Buf, NEW h \in Hashes, NEW n \in 0..Limit, NEW o \in [1..n -> PeerIDs]
    PROVE  Fill(b, h, o) \in Buf
  <1>1. PICK d : d = [i \in 1..Limit |-> IF i <= Len(o) THEN <<h, o[i]>> ELSE b.data[i]]
    OBVIOUS
  <1>2. Fill(b, h, o) = [data |-> d, len |-> Len(o)]
    BY <1>1 DEF Fill
  <1>3. o \in Seq(PeerIDs) /\ Len(o) = n
    <2>1. o \in Seq(PeerIDs)
      BY NumWantAssumption, SeqDef
    <2>2. QED
      BY <2>1, NumWantAssumption
  <1>4. \A i \in 1..Limit : d[i] \in Entries \cup {ZeroEntry}
    <2>1. SUFFICES ASSUME NEW i \in 1..Limit PROVE d[i] \in Entries \cup {ZeroEntry}
      OBVIOUS
    <2>2. CASE i <= Len(o)
      BY <1>1, <1>3, <2>2 DEF Entries
    <2>3. CASE ~(i <= Len(o))
      BY <1>1, <2>3 DEF Buf
    <2>4. QED
      BY <2>2, <2>3
  <1>5. d \in [1..Limit -> Entries \cup {ZeroEntry}]
    BY <1>1, <1>4
  <1>6. QED
    BY <1>2, <1>3, <1>5 DEF Buf

LEMMA OrderTyped ==
    ASSUME NEW S, S \subseteq PeerIDs, NEW order \in Orders(S), NEW f \in Families
    PROVE  \E n \in 0..Limit : order[f] \in [1..n -> PeerIDs]
  <1>1. PICK V \in Visited(S) : order[f] \in SetToSeqs(OfFamily(V, f))
    BY DEF Orders, Families
  <1>2. V \subseteq PeerIDs /\ Cardinality(OfFamily(V, f)) <= Limit
    BY <1>1 DEF Visited
  <1>3. OfFamily(V, f) \subseteq PeerIDs
    BY <1>2 DEF OfFamily
  <1>4. IsFiniteSet(OfFamily(V, f))
    BY <1>3, SwarmAssumption, FS_Subset
  <1>5. PICK n \in Nat : n = Cardinality(OfFamily(V, f))
    BY <1>4, FS_CardinalityType
  <1>6. order[f] \in [1..Cardinality(OfFamily(V, f)) -> OfFamily(V, f)]
    BY <1>1, <1>4, OrderOK, Zenon
  <1>7. order[f] \in [1..n -> PeerIDs] /\ n \in 0..Limit
    BY <1>2, <1>3, <1>5, <1>6, NumWantAssumption
  <1>8. QED
    BY <1>7

LEMMA WrittenTyped ==
    ASSUME NEW T, NEW s \in Seq(T), NEW i, NEW e, i \in DOMAIN s => e \in T
    PROVE  [s EXCEPT ![i] = e] \in Seq(T)
  <1>1. PICK n \in Nat : s \in [1..n -> T]
    BY SeqDef
  <1>2. [s EXCEPT ![i] = e] \in [1..n -> T]
    BY <1>1
  <1>3. QED
    BY <1>2, SeqDef, Zenon

LEMMA FillBufsTyped ==
    ASSUME IInv, TInv, NEW p \in Workers, PeerListBytes(p), NEW f \in Families
    PROVE  bufs'[f] \in Seq(Buf)
  <1>1. CASE bufs' = bufs
    BY <1>1 DEF TInv
  <1>2. ASSUME NEW order \in Orders(swarm[w[p].hash]),
               bufs' = [g \in Families |-> [bufs[g] EXCEPT ![w[p].buf[g]] =
                                              Fill(@, w[p].hash, order[g])]]
        PROVE  bufs'[f] \in Seq(Buf)
    <2>1. w[p].hash \in Hashes /\ swarm[w[p].hash] \subseteq PeerIDs
      BY DEF PeerListBytes, TInv, Typed
    <2>2. PICK n \in 0..Limit : order[f] \in [1..n -> PeerIDs]
      BY <2>1, OrderTyped
    <2>3. PICK i, b, h, o : i = w[p].buf[f] /\ b = bufs[f][i] /\ h = w[p].hash /\ o = order[f]
      OBVIOUS
    <2>4. PICK s : s = bufs[f]
      OBVIOUS
    <2>5. s \in Seq(Buf)
      BY <2>4 DEF TInv
    <2>6. i \in DOMAIN s => b \in Buf
      BY <2>3, <2>4, <2>5
    <2>7. i \in DOMAIN s => Fill(b, h, o) \in Buf
      BY <2>1, <2>2, <2>3, <2>6, FillTyped
    <2>8. [s EXCEPT ![i] = Fill(b, h, o)] \in Seq(Buf)
      BY <2>5, <2>7, WrittenTyped
    <2>9. bufs'[f] = [s EXCEPT ![i] = Fill(b, h, o)]
      BY <1>2, <2>3, <2>4
    <2>10. QED
      BY <2>8, <2>9
  <1>3. QED
    BY <1>1, <1>2 DEF PeerListBytes

LEMMA FillWorkerTyped ==
    ASSUME IInv, TInv, NEW p \in Workers, PeerListBytes(p)
    PROVE  TInv'
  <1>1. PICK early \in BOOLEAN : early = (swarm[w[p].hash] = {} \/ w[p].numWant = 0)
    OBVIOUS
  <1>2. PICK seen : seen = {w[p].hash} \X swarm[w[p].hash]
    OBVIOUS
  <1>3. PICK l : l = [w[p] EXCEPT !.pc = "encode", !.early = early, !.seen = seen]
    OBVIOUS
  <1>4. w' = [w EXCEPT ![p] = l] /\ swarm' = swarm /\ w[p].pc = "fill"
    BY <1>1, <1>2, <1>3 DEF PeerListBytes, IInv
  <1>5. Locals(w[p]) /\ Typed(w[p])
    BY DEF IInv, TInv
  <1>6. Typed(l)
    BY <1>3, <1>4, <1>5 DEF Locals, Typed
  <1>7. QED
    BY <1>4, <1>6, FillBufsTyped, TypedMove DEF TInv

LEMMA EncodeTyped ==
    ASSUME IInv, TInv, NEW p \in Workers, Encode(p)
    PROVE  TInv'
  <1>1. PICK reply : /\ w' = [w EXCEPT ![p].pc = "put", ![p].reply = reply]
                     /\ UNCHANGED <<swarm, bufs>> /\ w[p].pc = "encode"
    BY DEF Encode
  <1>2. PICK l : l = [w[p] EXCEPT !.pc = "put", !.reply = reply]
    OBVIOUS
  <1>3. w' = [w EXCEPT ![p] = l]
    BY <1>1, <1>2 DEF IInv
  <1>4. Locals(w[p]) /\ Typed(w[p])
    BY DEF IInv, TInv
  <1>5. Typed(l)
    BY <1>1, <1>2, <1>4 DEF Locals, Typed
  <1>6. QED
    BY <1>1, <1>3, <1>5, TypedMove DEF TInv

LEMMA ListTyped ==
    ASSUME IInv, TInv, NEW p \in Workers, ListPeers(p)
    PROVE  TInv'
  <1>1. PICK seen, reply :
           /\ w' = [w EXCEPT ![p].pc = "put", ![p].seen = seen, ![p].reply = reply]
           /\ UNCHANGED <<swarm, bufs>> /\ w[p].pc = "list"
    BY DEF ListPeers
  <1>2. PICK l : l = [w[p] EXCEPT !.pc = "put", !.seen = seen, !.reply = reply]
    OBVIOUS
  <1>3. w' = [w EXCEPT ![p] = l]
    BY <1>1, <1>2 DEF IInv
  <1>4. Locals(w[p]) /\ Typed(w[p])
    BY DEF IInv, TInv
  <1>5. Typed(l)
    BY <1>1, <1>2, <1>4 DEF Locals, Typed
  <1>6. QED
    BY <1>1, <1>3, <1>5, TypedMove DEF TInv

LEMMA IdleTyped == Typed(IdleWorker)
  BY NumWantAssumption DEF At, IdleWorker, Typed

LEMMA PutTyped ==
    ASSUME IInv, TInv, NEW p \in Workers, PutBuffers(p)
    PROVE  TInv'
  <1>1. w' = [w EXCEPT ![p] = IdleWorker] /\ UNCHANGED <<swarm, bufs>>
    BY DEF PutBuffers
  <1>2. QED
    BY <1>1, IdleTyped, TypedMove DEF TInv

LEMMA InitTyped == Init => TInv
  <1> SUFFICES ASSUME Init PROVE TInv
    OBVIOUS
  <1>1. \A p \in Workers : Typed(w[p])
    BY IdleTyped DEF Init
  <1>2. \A f \in Families : bufs[f] \in Seq(Buf)
    BY DEF Init
  <1>3. QED
    BY <1>1, <1>2 DEF Init, TInv

LEMMA NextTyped == IInv /\ TInv /\ [Next]_vars => TInv'
  <1> SUFFICES ASSUME IInv, TInv, [Next]_vars PROVE TInv'
    OBVIOUS
  <1>1. CASE UNCHANGED vars
    BY <1>1 DEF vars, TInv
  <1>2. CASE \E h \in Hashes, id \in PeerIDs : Leave(h, id)
    BY <1>2 DEF Leave, TInv
  <1>3. CASE \E p \in Workers :
               \/ \E proto \in Protos, h \in Hashes, id \in PeerIDs,
                     n \in NumWants : Announce(p, proto, h, id, n)
               \/ \E o4, o6 \in 1..MaxBufs : GetBuffers(p, o4, o6)
               \/ PeerListBytes(p) \/ Encode(p) \/ PutBuffers(p) \/ ListPeers(p)
    BY <1>3, AnnounceTyped, GetTyped, FillWorkerTyped, EncodeTyped, PutTyped, ListTyped
  <1>4. QED
    BY <1>1, <1>2, <1>3 DEF Next

(* The state of the announce handlers has its types: an announce about to   *)
(* fill or encode has buffers that were made, whose slices fit them, and    *)
(* NumWant never leaves 0..Limit, whatever the client sent.                 *)
THEOREM TypeCorrect == Spec => []TypeOK
  <1>1. IInv /\ TInv => TypeOK
    <2> SUFFICES ASSUME IInv, TInv PROVE TypeOK
      OBVIOUS
    <2>1. ASSUME NEW p \in Workers, w[p].pc \in {"fill", "encode"}, NEW f \in Families
          PROVE  w[p].buf[f] \in DOMAIN bufs[f]
      BY <2>1 DEF IInv, Owns, Has, Ways
    <2>2. QED
      BY <2>1 DEF IInv, Numbered, TInv, Typed, TypeOK
  <1>2. QED
    BY <1>1, InitOK, NextOK, InitTyped, NextTyped, PTL DEF Spec

-----------------------------------------------------------------------------
\* From the copy to the reply

\* r lists what es has for a client of proto and family: the body of
\* RepliesAreExact, on values
Correct(r, es, proto, family) ==
    LET all == {e \in es : proto = "http" \/ Family(e[2]) = family}
    IN  /\ IsInjective(r)
        /\ {r[i] : i \in DOMAIN r} \subseteq all
        /\ Cardinality(es) <= Limit => {r[i] : i \in DOMAIN r} = all

LEMMA OneList ==
    ASSUME NEW c, NEW es, NEW proto, proto # "http", NEW family, Exactly(c, es, family)
    PROVE  Correct(c, es, proto, family)
  <1>1. InFamily(es, family) = {e \in es : proto = "http" \/ Family(e[2]) = family}
    BY DEF InFamily
  <1>2. QED
    BY <1>1 DEF Exactly, Correct

LEMMA BothLists ==
    ASSUME NEW T, NEW c4 \in Seq(T), NEW c6 \in Seq(T), NEW es, NEW family,
           Exactly(c4, es, 4), Exactly(c6, es, 6)
    PROVE  Correct(c4 \o c6, es, "http", family)
  <1>1. PICK r, m, n : r = c4 \o c6 /\ m = Len(c4) /\ n = Len(c6)
    OBVIOUS
  <1>2. m \in Nat /\ n \in Nat /\ DOMAIN c4 = 1..m /\ DOMAIN c6 = 1..n
    BY <1>1
  <1>3. r \in Seq(T) /\ Len(r) = m + n /\ DOMAIN r = 1..(m + n)
    BY <1>1, <1>2
  <1>4. \A i \in 1..(m + n) : r[i] = IF i <= m THEN c4[i] ELSE c6[i - m]
    BY <1>1, <1>2, ConcatProperties
  <1>5. \A i \in 1..m : r[i] = c4[i] /\ Family(r[i][2]) = 4 /\ r[i] \in es
    BY <1>2, <1>4 DEF Exactly, InFamily
  <1>6. \A i \in 1..n : r[m + i] = c6[i] /\ Family(r[m + i][2]) = 6 /\ r[m + i] \in es
    BY <1>2, <1>4 DEF Exactly, InFamily
  <1>7. ASSUME NEW i \in 1..(m + n), ~(i <= m)
        PROVE  \E k \in 1..n : i = m + k
    <2>1. i - m \in 1..n /\ i = m + (i - m)
      BY <1>2, <1>7
    <2>2. QED
      BY <2>1
  <1>8. \A i \in 1..(m + n) : r[i] \in es
    BY <1>2, <1>5, <1>6, <1>7
  <1>9. ASSUME NEW i \in 1..(m + n), NEW j \in 1..(m + n), r[i] = r[j]
        PROVE  i = j
    <2>1. CASE i <= m /\ j <= m
      BY <1>2, <1>5, <1>9, <2>1 DEF Exactly, IsInjective
    <2>2. CASE i <= m /\ ~(j <= m)
      <3>1. Family(r[i][2]) = 4
        BY <1>2, <1>5, <2>2
      <3>2. PICK k \in 1..n : j = m + k
        BY <1>7, <2>2
      <3>3. Family(r[j][2]) = 6
        BY <1>6, <3>2
      <3>4. QED
        BY <1>9, <3>1, <3>3
    <2>3. CASE ~(i <= m) /\ j <= m
      <3>1. Family(r[j][2]) = 4
        BY <1>2, <1>5, <2>3
      <3>2. PICK k \in 1..n : i = m + k
        BY <1>7, <2>3
      <3>3. Family(r[i][2]) = 6
        BY <1>6, <3>2
      <3>4. QED
        BY <1>9, <3>1, <3>3
    <2>4. CASE ~(i <= m) /\ ~(j <= m)
      <3>1. PICK k \in 1..n : i = m + k
        BY <1>7, <2>4
      <3>2. PICK l \in 1..n : j = m + l
        BY <1>7, <2>4
      <3>3. c6[k] = c6[l]
        BY <1>6, <1>9, <3>1, <3>2
      <3>4. k = l
        BY <1>2, <3>3 DEF Exactly, IsInjective
      <3>5. QED
        BY <3>1, <3>2, <3>4
    <2>5. QED
      BY <2>1, <2>2, <2>3, <2>4
  <1>10. ASSUME Cardinality(es) <= Limit, NEW e \in es
         PROVE  \E i \in 1..(m + n) : r[i] = e
    <2>1. CASE Family(e[2]) = 4
      <3>1. PICK i \in 1..m : c4[i] = e
        BY <1>2, <1>10, <2>1 DEF Exactly, InFamily
      <3>2. QED
        BY <1>2, <1>5, <3>1
    <2>2. CASE Family(e[2]) = 6
      <3>1. PICK i \in 1..n : c6[i] = e
        BY <1>2, <1>10, <2>2 DEF Exactly, InFamily
      <3>2. m + i \in 1..(m + n)
        BY <1>2
      <3>3. QED
        BY <1>6, <3>1, <3>2
    <2>3. QED
      BY <2>1, <2>2 DEF Family
  <1>11. {e \in es : "http" = "http" \/ Family(e[2]) = family} = es
    OBVIOUS
  <1>12. IsInjective(r)
    BY <1>3, <1>9 DEF IsInjective
  <1>13. {r[i] : i \in DOMAIN r} \subseteq es
    BY <1>3, <1>8
  <1>14. Cardinality(es) <= Limit => {r[i] : i \in DOMAIN r} = es
    BY <1>3, <1>10, <1>13
  <1>15. Correct(r, es, "http", family)
    BY <1>11, <1>12, <1>13, <1>14 DEF Correct
  <1>16. QED
    BY <1>1, <1>15

LEMMA ContentTyped ==
    ASSUME NEW b \in Buf
    PROVE  Content(b) \in Seq(Entries \cup {ZeroEntry})
  <1>1. b.data \in [1..Limit -> Entries \cup {ZeroEntry}] /\ b.len \in 0..Limit
    BY DEF Buf
  <1>2. PICK d, n : d = b.data /\ n = b.len
    OBVIOUS
  <1>3. n \in Int /\ \A i \in 1..n : d[i] \in Entries \cup {ZeroEntry}
    BY <1>1, <1>2, NumWantAssumption
  <1>4. SubSeq(d, 1, n) \in Seq(Entries \cup {ZeroEntry})
    BY <1>3, SubSeqProperties
  <1>5. QED
    BY <1>2, <1>4 DEF Content

\* What is in the buffers between the copy and the encoding, and in the reply
Copied(p) ==
    w[p].pc = "encode" /\ ~w[p].early =>
        \A f \in Families : Exactly(Content(bufs[f][w[p].buf[f]]), w[p].seen, f)

Sent(p) ==
    w[p].pc = "put" /\ w[p].proto # "list" /\ ~w[p].early =>
        Correct(w[p].reply, w[p].seen, w[p].proto, w[p].family)

EInv == \A p \in Workers : Copied(p) /\ Sent(p)

(* A step of one worker that does not write the buffers of the others.      *)
LEMMA OthersKeep ==
    ASSUME IInv, EInv, NEW p \in Workers, NEW l, w' = [w EXCEPT ![p] = l],
           \A q \in Workers \ {p}, f \in Families :
              w[q].pc = "encode" => bufs'[f][w[q].buf[f]] = bufs[f][w[q].buf[f]],
           Copied(p)', Sent(p)'
    PROVE  EInv'
  <1>1. \A q \in Workers \ {p} : w'[q] = w[q]
    BY DEF IInv
  <1>2. ASSUME NEW q \in Workers \ {p} PROVE Copied(q)' /\ Sent(q)'
    <2>1. Sent(q)'
      BY <1>1 DEF EInv, Sent
    <2>2. Copied(q)'
      BY <1>1 DEF EInv, Copied
    <2>3. QED
      BY <2>1, <2>2
  <1>3. QED
    BY <1>2 DEF EInv

(* A step that leaves the buffers alone, after which the worker does not    *)
(* hold a compact list.                                                     *)
LEMMA ElsewhereOK ==
    ASSUME IInv, EInv, NEW p \in Workers, NEW l, w' = [w EXCEPT ![p] = l], bufs' = bufs,
           l.pc # "encode", l.pc = "put" => l.proto = "list"
    PROVE  EInv'
  <1>1. w'[p] = l
    BY DEF IInv
  <1>2. Copied(p)' /\ Sent(p)'
    BY <1>1 DEF Copied, Sent
  <1>3. QED
    BY <1>2, OthersKeep

LEMMA AnnounceExact ==
    ASSUME IInv, EInv, NEW p \in Workers, NEW proto, NEW h \in Hashes, NEW id,
           NEW n, Announce(p, proto, h, id, n)
    PROVE  EInv'
  <1> DEFINE pc == IF proto = "list" THEN "list" ELSE "get"
             l  == At(pc, proto, Family(id), h, NumWant(proto, n))
  <1>1. w' = [w EXCEPT ![p] = l] /\ bufs' = bufs
    BY DEF Announce
  <1>2. l.pc = pc
    BY DEF At
  <1> HIDE DEF l
  <1>3. QED
    BY <1>1, <1>2, ElsewhereOK

LEMMA GetExact ==
    ASSUME IInv, TInv, EInv, NEW p \in Workers, NEW o4, NEW o6, GetBuffers(p, o4, o6)
    PROVE  EInv'
  <1> DEFINE o == [f \in Families |-> IF f = 4 THEN o4 ELSE o6]
  <1>1. PICK v : v = o
    OBVIOUS
  <1>2. PICK l : l = [w[p] EXCEPT !.pc = "fill", !.buf = v]
    OBVIOUS
  <1>3. w' = [w EXCEPT ![p] = l]
    BY <1>1, <1>2 DEF GetBuffers, IInv
  <1>4. \A f \in Families : bufs'[f] = bufs[f] \/ bufs'[f] = Append(bufs[f], NewBuf)
    BY DEF GetBuffers
  <1>5. l.pc = "fill"
    BY <1>2 DEF IInv, Locals
  <1>6. ASSUME NEW q \in Workers \ {p}, NEW f \in Families, w[q].pc = "encode"
        PROVE  bufs'[f][w[q].buf[f]] = bufs[f][w[q].buf[f]]
    <2>1. w[q].buf[f] \in DOMAIN bufs[f]
      BY <1>6 DEF IInv, Owns, Has, Ways
    <2>2. bufs[f] \in Seq(Buf) /\ DOMAIN bufs[f] = 1..Len(bufs[f])
      BY DEF TInv
    <2>3. \A i \in 1..Len(bufs[f]) : Append(bufs[f], NewBuf)[i] = bufs[f][i]
      BY <2>2, NewBufOK, AppendProperties
    <2>4. QED
      BY <1>4, <2>1, <2>2, <2>3
  <1>7. w'[p] = l
    BY <1>3 DEF IInv
  <1>8. Copied(p)' /\ Sent(p)'
    BY <1>5, <1>7 DEF Copied, Sent
  <1>9. QED
    BY <1>3, <1>6, <1>8, OthersKeep

LEMMA FillExact ==
    ASSUME IInv, TInv, EInv, NEW p \in Workers, PeerListBytes(p)
    PROVE  EInv'
  <1>1. PICK early \in BOOLEAN : early = (swarm[w[p].hash] = {} \/ w[p].numWant = 0)
    OBVIOUS
  <1>2. PICK h, S : h = w[p].hash /\ S = swarm[w[p].hash]
    OBVIOUS
  <1>3. PICK l : l = [w[p] EXCEPT !.pc = "encode", !.early = early, !.seen = {h} \X S]
    OBVIOUS
  <1>4. w' = [w EXCEPT ![p] = l] /\ w[p].pc = "fill"
    BY <1>1, <1>2, <1>3 DEF PeerListBytes, IInv
  <1>5. l.pc = "encode" /\ l.early = early /\ l.seen = {h} \X S /\ l.buf = w[p].buf
    BY <1>3 DEF IInv, Locals
  <1>6. w'[p] = l
    BY <1>4 DEF IInv
  <1>7. h \in Hashes /\ IsFiniteSet(S)
    BY <1>2, <1>4, FS_Subset, SwarmAssumption DEF TInv, Typed
  <1>8. ASSUME ~early
        PROVE  \E order \in Orders(S) :
                 bufs' = [f \in Families |-> [bufs[f] EXCEPT ![w[p].buf[f]] =
                                                Fill(@, h, order[f])]]
    BY <1>1, <1>2, <1>8 DEF PeerListBytes
  <1>9. early => bufs' = bufs
    BY <1>1 DEF PeerListBytes
  <1>10. ASSUME NEW q \in Workers \ {p}, NEW f \in Families, w[q].pc = "encode"
         PROVE  bufs'[f][w[q].buf[f]] = bufs[f][w[q].buf[f]]
    <2>1. w[q].buf[f] \in DOMAIN bufs[f]
      BY <1>10 DEF IInv, Owns, Has, Ways
    <2>2. w[q].buf[f] # 0
      BY <2>1 DEF TInv
    <2>3. w[q].buf[f] # w[p].buf[f]
      BY <2>2 DEF IInv, Apart
    <2>4. CASE early
      BY <1>9, <2>4
    <2>5. CASE ~early
      BY <1>8, <2>1, <2>3, <2>5
    <2>6. QED
      BY <2>4, <2>5
  <1>11. Copied(p)'
    <2>1. ASSUME ~early, NEW f \in Families
          PROVE  Exactly(Content(bufs'[f][l.buf[f]]), l.seen, f)
      <3>1. PICK order \in Orders(S) :
                 bufs' = [g \in Families |-> [bufs[g] EXCEPT ![w[p].buf[g]] =
                                                Fill(@, h, order[g])]]
        BY <1>8, <2>1
      <3>2. w[p].buf[f] \in DOMAIN bufs[f]
        BY <1>4 DEF IInv, Owns, Has, Ways
      <3>3. bufs'[f][w[p].buf[f]] = Fill(bufs[f][w[p].buf[f]], h, order[f])
        BY <3>1, <3>2
      <3>4. Exactly(Content(Fill(bufs[f][w[p].buf[f]], h, order[f])), {h} \X S, f)
        BY <1>7, FilledExactly
      <3>5. QED
        BY <1>5, <3>3, <3>4
    <2>2. QED
      BY <1>5, <1>6, <2>1 DEF Copied
  <1>12. Sent(p)'
    BY <1>5, <1>6 DEF Sent
  <1>13. QED
    BY <1>4, <1>10, <1>11, <1>12, OthersKeep

LEMMA EncodeExact ==
    ASSUME IInv, TInv, EInv, NEW p \in Workers, Encode(p)
    PROVE  EInv'
  <1>1. PICK c4, c6, c : /\ c4 = Content(bufs[4][w[p].buf[4]])
                         /\ c6 = Content(bufs[6][w[p].buf[6]])
                         /\ c = Content(bufs[w[p].family][w[p].buf[w[p].family]])
    OBVIOUS
  <1>2. PICK r : r = IF w[p].proto = "http" THEN c4 \o c6 ELSE c
    OBVIOUS
  <1>3. /\ w' = [w EXCEPT ![p].pc = "put", ![p].reply = r]
        /\ bufs' = bufs /\ w[p].pc = "encode"
    BY <1>1, <1>2 DEF Encode
  <1>4. PICK l : l = [w[p] EXCEPT !.pc = "put", !.reply = r]
    OBVIOUS
  <1>5. w' = [w EXCEPT ![p] = l]
    BY <1>3, <1>4 DEF IInv
  <1>6. /\ l.pc = "put" /\ l.reply = r /\ l.proto = w[p].proto /\ l.family = w[p].family
        /\ l.seen = w[p].seen /\ l.early = w[p].early
    BY <1>4 DEF IInv, Locals
  <1>7. w'[p] = l
    BY <1>5 DEF IInv
  <1>8. w[p].family \in Families
    BY <1>3 DEF TInv, Typed
  <1>9. ASSUME NEW f \in Families PROVE Content(bufs[f][w[p].buf[f]]) \in Seq(Entries \cup {ZeroEntry})
    <2>1. w[p].buf[f] \in DOMAIN bufs[f]
      BY <1>3 DEF IInv, Owns, Has, Ways
    <2>2. bufs[f][w[p].buf[f]] \in Buf
      BY <2>1 DEF TInv
    <2>3. QED
      BY <2>2, ContentTyped
  <1>10. ASSUME ~w[p].early PROVE Correct(r, w[p].seen, w[p].proto, w[p].family)
    <2>1. \A f \in Families : Exactly(Content(bufs[f][w[p].buf[f]]), w[p].seen, f)
      BY <1>3, <1>10 DEF EInv, Copied
    <2>2. /\ Exactly(c4, w[p].seen, 4) /\ Exactly(c6, w[p].seen, 6)
          /\ Exactly(c, w[p].seen, w[p].family)
      BY <1>1, <1>8, <2>1 DEF Families
    <2>3. c4 \in Seq(Entries \cup {ZeroEntry}) /\ c6 \in Seq(Entries \cup {ZeroEntry})
      BY <1>1, <1>9 DEF Families
    <2>4. CASE w[p].proto = "http"
      <3>1. Correct(c4 \o c6, w[p].seen, "http", w[p].family)
        BY <2>2, <2>3, BothLists
      <3>2. QED
        BY <1>2, <2>4, <3>1
    <2>5. CASE w[p].proto # "http"
      <3>1. Correct(c, w[p].seen, w[p].proto, w[p].family)
        BY <2>2, <2>5, OneList
      <3>2. QED
        BY <1>2, <2>5, <3>1
    <2>6. QED
      BY <2>4, <2>5
  <1>11. Sent(p)'
    BY <1>6, <1>7, <1>10 DEF Sent
  <1>12. Copied(p)'
    BY <1>6, <1>7 DEF Copied
  <1>13. QED
    BY <1>3, <1>5, <1>11, <1>12, OthersKeep

LEMMA ListExact ==
    ASSUME IInv, EInv, NEW p \in Workers, ListPeers(p)
    PROVE  EInv'
  <1>1. PICK seen, reply :
           /\ w' = [w EXCEPT ![p].pc = "put", ![p].seen = seen, ![p].reply = reply]
           /\ UNCHANGED bufs /\ w[p].pc = "list"
    BY DEF ListPeers
  <1>2. PICK l : l = [w[p] EXCEPT !.pc = "put", !.seen = seen, !.reply = reply]
    OBVIOUS
  <1>3. w' = [w EXCEPT ![p] = l]
    BY <1>1, <1>2 DEF IInv
  <1>4. l.pc = "put" /\ l.proto = "list"
    BY <1>1, <1>2 DEF IInv, Locals, Ways
  <1>5. QED
    BY <1>1, <1>3, <1>4, ElsewhereOK

LEMMA PutExact ==
    ASSUME IInv, EInv, NEW p \in Workers, PutBuffers(p)
    PROVE  EInv'
  <1>1. w' = [w EXCEPT ![p] = IdleWorker] /\ bufs' = bufs
    BY DEF PutBuffers
  <1>2. IdleWorker.pc = "idle"
    BY DEF IdleWorker, At
  <1>3. QED
    BY <1>1, <1>2, ElsewhereOK

LEMMA InitExact == Init => EInv
  <1>1. IdleWorker.pc = "idle"
    BY DEF IdleWorker, At
  <1>2. QED
    BY <1>1 DEF Init, EInv, Copied, Sent

LEMMA NextExact == IInv /\ TInv /\ EInv /\ [Next]_vars => EInv'
  <1> SUFFICES ASSUME IInv, TInv, EInv, [Next]_vars PROVE EInv'
    OBVIOUS
  <1>1. ASSUME UNCHANGED <<bufs, w>> PROVE EInv'
    BY <1>1 DEF EInv, Copied, Sent
  <1>2. CASE UNCHANGED vars
    BY <1>1, <1>2 DEF vars
  <1>3. CASE \E h \in Hashes, id \in PeerIDs : Leave(h, id)
    BY <1>1, <1>3 DEF Leave
  <1>4. CASE \E p \in Workers :
               \/ \E proto \in Protos, h \in Hashes, id \in PeerIDs,
                     n \in NumWants : Announce(p, proto, h, id, n)
               \/ \E o4, o6 \in 1..MaxBufs : GetBuffers(p, o4, o6)
               \/ PeerListBytes(p) \/ Encode(p) \/ PutBuffers(p) \/ ListPeers(p)
    BY <1>4, AnnounceExact, GetExact, FillExact, EncodeExact, PutExact, ListExact
  <1>5. QED
    BY <1>2, <1>3, <1>4 DEF Next

(* PeerListBytes and the encoding of its buffers, with any workers, buffers *)
(* and swarms: the reply that did not take an early return lists peers of   *)
(* its hash and family, each once, and all of them if they fit.             *)
THEOREM RepliesCorrect == Spec => []RepliesAreExact
  <1>1. EInv => RepliesAreExact
    <2> SUFFICES ASSUME EInv, NEW p \in Workers, w[p].pc = "put", w[p].proto # "list",
                        ~w[p].early
                 PROVE  /\ IsInjective(w[p].reply)
                        /\ ListedIn(p) \subseteq InFamilies(p, w[p].seen)
                        /\ Cardinality(w[p].seen) <= Limit =>
                              ListedIn(p) = InFamilies(p, w[p].seen)
      BY DEF RepliesAreExact, Replied
    <2>1. Correct(w[p].reply, w[p].seen, w[p].proto, w[p].family)
      BY DEF EInv, Sent
    <2>2. QED
      BY <2>1 DEF Correct, ListedIn, InFamilies
  <1>2. QED
    BY <1>1, InitOK, NextOK, InitTyped, NextTyped, InitExact, NextExact, PTL DEF Spec
=============================================================================
