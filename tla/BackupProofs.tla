---------------------------- MODULE BackupProofs ----------------------------
(***************************************************************************)
(* For any hashes and peers, and any number of changes, saves and crashes: *)
(* a save that had the database to itself wrote what Load makes the same   *)
(* database of.                                                            *)
(***************************************************************************)
EXTENDS Backup, SequenceTheorems, FiniteSetTheorems, TLAPS

\* What encodeBinary writes, and what is left of it after a crash
Tokens == [kind : {"header"}, hash : Hashes, count : Nat]
             \cup [kind : {"record"}, id : PeerIDs]

Bytes == Tokens \cup {Cut}

(* The header at i is followed by the peers of its hash in db, and they by  *)
(* another header or the end.                                               *)
Section(data, db, i) ==
    LET n == data[i].count
    IN  /\ i + n <= Len(data)
        /\ \A k \in i + 1..i + n : data[k].kind = "record"
        /\ i + n + 1 = Len(data) + 1 \/ IsHeader(data, i + n + 1)
        /\ db[data[i].hash] =
              {id \in PeerIDs : \E k \in i + 1..i + n : data[k] = Record(id)}

\* data is what encodeBinary makes of db, in some order of the hashes
Lays(data, db) ==
    /\ data \in Seq(Tokens)
    /\ data # <<>> => IsHeader(data, 1)
    /\ \A i \in DOMAIN data : IsHeader(data, i) =>
          data[i].hash \in DOMAIN db /\ Section(data, db, i)
    /\ \A h \in DOMAIN db : \E i \in DOMAIN data : IsHeader(data, i) /\ data[i].hash = h
    /\ \A i, j \in DOMAIN data :
          IsHeader(data, i) /\ IsHeader(data, j) /\ data[i].hash = data[j].hash => i = j


-----------------------------------------------------------------------------
(* What a layout decodes to                                                *)

LEMMA KindsOK ==
    /\ \A h, n : Header(h, n).kind = "header" /\ Header(h, n).hash = h /\ Header(h, n).count = n
    /\ \A id : Record(id).kind = "record" /\ Record(id).id = id
    /\ \A h \in Hashes, n \in Nat : Header(h, n) \in Tokens
    /\ \A id \in PeerIDs : Record(id) \in Tokens
    /\ \A t \in Tokens : /\ t.kind \in {"header", "record"}
                         /\ t.kind = "header" => t.hash \in Hashes /\ t.count \in Nat
    /\ Cut.kind = "cut"
  BY DEF Header, Record, Tokens, Cut

\* The next header is where the count of the one before says it is
LEMMA NextHeaderOK ==
    ASSUME NEW data \in Seq(Tokens), NEW i \in DOMAIN data, NEW n \in Nat,
           i + n <= Len(data),
           \A k \in i + 1..i + n : data[k].kind = "record",
           i + n + 1 = Len(data) + 1 \/ IsHeader(data, i + n + 1)
    PROVE  NextHeader(data, i) = i + n + 1
  <1> DEFINE Is(j) == /\ j = Len(data) + 1 \/ IsHeader(data, j)
                      /\ \A k \in i + 1..j - 1 : ~IsHeader(data, k)
  <1>1. i \in Nat /\ Len(data) \in Nat /\ i + n + 1 \in i + 1..Len(data) + 1
    OBVIOUS
  <1>2. Is(i + n + 1)
    <2>1. \A k \in i + 1..i + n + 1 - 1 : k \in i + 1..i + n
      BY <1>1
    <2>2. \A k \in i + 1..i + n : ~IsHeader(data, k)
      BY DEF IsHeader
    <2>3. QED
      BY <2>1, <2>2
  <1>3. ASSUME NEW j \in i + 1..Len(data) + 1, Is(j)
        PROVE  j = i + n + 1
    <2>1. CASE j < i + n + 1
      <3>1. j \in i + 1..i + n /\ j # Len(data) + 1
        BY <2>1, <1>1
      <3>2. ~IsHeader(data, j)
        BY <3>1 DEF IsHeader
      <3>3. QED
        BY <3>1, <3>2, <1>3
    <2>2. CASE j > i + n + 1
      <3>1. i + n + 1 \in i + 1..j - 1 /\ i + n + 1 # Len(data) + 1
        BY <2>2, <1>1
      <3>2. QED
        BY <3>1, <1>3
    <2>3. QED
      BY <2>1, <2>2, <1>1
  <1>4. NextHeader(data, i) = CHOOSE j \in i + 1..Len(data) + 1 : Is(j)
    BY DEF NextHeader
  <1> HIDE DEF Is
  <1>5. QED
    BY <1>1, <1>2, <1>3, <1>4

\* Load gives back the database that was written
LEMMA LayoutDecodes ==
    ASSUME NEW data, NEW db, IsMap(db, Hashes, SUBSET PeerIDs), Lays(data, db)
    PROVE  WellFormed(data) /\ Decoded(data) = db
  <1> DEFINE At(h) == {i \in DOMAIN data : IsHeader(data, i) /\ data[i].hash = h}
             Final(h) == CHOOSE i \in At(h) : \A j \in At(h) : j <= i
             IDs(i) == {id \in PeerIDs :
                           \E k \in i + 1..i + data[i].count : data[k] = Record(id)}
  <1>1. /\ data \in Seq(Tokens)
        /\ \A i \in DOMAIN data : data[i] \in Tokens /\ i \in Nat
    BY DEF Lays
  <1>2. ASSUME NEW i \in DOMAIN data, IsHeader(data, i)
        PROVE  NextHeader(data, i) = i + data[i].count + 1
    <2>1. data[i].count \in Nat
      BY <1>1, <1>2, KindsOK DEF IsHeader
    <2>2. Section(data, db, i)
      BY <1>2 DEF Lays
    <2>3. QED
      BY <1>1, <2>1, <2>2, NextHeaderOK DEF Section
  <1>3. WellFormed(data)
    BY <1>1, <1>2, KindsOK DEF WellFormed, Lays
  <1>4. ASSUME NEW h \in DOMAIN db
        PROVE  /\ Final(h) \in DOMAIN data
               /\ IsHeader(data, Final(h)) /\ data[Final(h)].hash = h
               /\ IDs(Final(h)) = db[h]
    <2>1. PICK i \in DOMAIN data : IsHeader(data, i) /\ data[i].hash = h
      BY DEF Lays
    <2>2. At(h) = {i}
      BY <2>1 DEF Lays
    <2>3. Final(h) = i
      <3>1. i \in At(h) /\ \A j \in At(h) : j <= i
        BY <2>2, <1>1
      <3>2. \A k \in At(h) : k = i
        BY <2>2
      <3> HIDE DEF At
      <3>3. QED
        BY <3>1, <3>2
    <2>4. Section(data, db, i)
      BY <2>1 DEF Lays
    <2>5. QED
      BY <2>1, <2>3, <2>4 DEF Section
  <1>5. {g \in Hashes : At(g) # {}} = DOMAIN db
    <2>1. \A g \in DOMAIN db : g \in Hashes /\ At(g) # {}
      BY DEF Lays, IsMap
    <2>2. \A g : At(g) # {} => g \in DOMAIN db
      BY DEF Lays
    <2>3. QED
      BY <2>1, <2>2
  <1>6. Decoded(data) = [h \in {g \in Hashes : At(g) # {}} |-> IDs(Final(h))]
    BY DEF Decoded
  <1>7. db = [h \in DOMAIN db |-> db[h]]
    BY DEF IsMap
  <1> HIDE DEF At, Final, IDs
  <1>8. [h \in {g \in Hashes : At(g) # {}} |-> IDs(Final(h))] = [h \in DOMAIN db |-> db[h]]
    BY <1>4, <1>5
  <1>9. QED
    BY <1>3, <1>6, <1>7, <1>8

LEMMA EmptyLayout ==
    ASSUME NEW db, DOMAIN db = {}
    PROVE  Lays(<<>>, db)
  BY DEF Lays

-----------------------------------------------------------------------------
(* One turn of the loop over the map                                       *)

LEMMA PermutationOK ==
    ASSUME NEW ids \in SUBSET PeerIDs, NEW order \in SetToSeqs(ids)
    PROVE  /\ Cardinality(ids) \in Nat
           /\ DOMAIN order = 1..Cardinality(ids)
           /\ \A i \in DOMAIN order : order[i] \in ids
           /\ \A id \in ids : \E i \in DOMAIN order : order[i] = id
  <1> DEFINE n == Cardinality(ids)
  <1>1. IsFiniteSet(ids) /\ n \in Nat
    BY SetsAssumption, FS_Subset, FS_CardinalityType
  <1>2. order \in [1..n -> ids] /\ \A i, j \in 1..n : i # j => order[i] # order[j]
    BY DEF SetToSeqs
  <1>3. order \in Injection(1..n, ids)
    BY <1>2 DEF Injection, IsInjective
  <1>4. Cardinality(1..n) = n
    <2>1. 1 \in Int /\ n \in Int
      BY <1>1
    <2>2. Cardinality(1..n) = IF 1 > n THEN 0 ELSE n - 1 + 1
      BY <2>1, FS_Interval
    <2>3. QED
      BY <2>2, <1>1
  <1>5. order \in Surjection(1..n, ids)
    BY <1>1, <1>3, <1>4, FS_Injection
  <1>6. QED
    BY <1>1, <1>2, <1>5 DEF Surjection

\* What is encoded after a turn
Turn(data, h, ids, order) ==
    Append(data, Header(h, Cardinality(ids)))
        \o [i \in DOMAIN order |-> Record(order[i])]

\* The tokens of one hash, behind those of the others
LEMMA TurnOK ==
    ASSUME NEW data \in Seq(Tokens), NEW h \in Hashes,
           NEW ids \in SUBSET PeerIDs, NEW order \in SetToSeqs(ids)
    PROVE  LET out == Turn(data, h, ids, order)
           IN  /\ out \in Seq(Tokens)
               /\ Len(out) = Len(data) + 1 + Cardinality(ids)
               /\ \A i \in 1..Len(data) : out[i] = data[i]
               /\ out[Len(data) + 1] = Header(h, Cardinality(ids))
               /\ \A i \in 1..Cardinality(ids) : out[Len(data) + 1 + i] = Record(order[i])
  <1> DEFINE n == Cardinality(ids)
             back == [i \in DOMAIN order |-> Record(order[i])]
  <1>1. n \in Nat /\ DOMAIN order = 1..n /\ \A i \in DOMAIN order : order[i] \in PeerIDs
    BY PermutationOK
  <1>2. Header(h, n) \in Tokens
    BY <1>1, KindsOK
  <1>3. back \in Seq(Tokens) /\ Len(back) = n
    <2>1. back \in [1..n -> Tokens]
      BY <1>1, KindsOK
    <2>2. QED
      BY <2>1, <1>1
  <1>4. \A i \in 1..n : back[i] = Record(order[i])
    BY <1>1
  <1> DEFINE front == Append(data, Header(h, n))
             out == front \o back
  <1>5. /\ front \in Seq(Tokens) /\ Len(front) = Len(data) + 1
        /\ \A i \in 1..Len(data) : front[i] = data[i]
        /\ front[Len(data) + 1] = Header(h, n)
    BY <1>2, AppendProperties
  <1>6. Len(data) \in Nat
    OBVIOUS
  <1> HIDE DEF n, front, back
  <1>7. /\ out \in Seq(Tokens) /\ Len(out) = Len(front) + Len(back)
        /\ \A i \in 1..Len(front) + Len(back) :
              out[i] = IF i <= Len(front) THEN front[i] ELSE back[i - Len(front)]
    BY <1>3, <1>5, ConcatProperties
  <1> HIDE DEF out
  <1>8. Len(out) = Len(data) + 1 + n
    BY <1>3, <1>5, <1>7
  <1>9. \A i \in 1..Len(data) : out[i] = data[i]
    BY <1>1, <1>3, <1>5, <1>6, <1>7
  <1>10. out[Len(data) + 1] = Header(h, n)
    BY <1>1, <1>3, <1>5, <1>6, <1>7
  <1>11. ASSUME NEW i \in 1..n
         PROVE  out[Len(data) + 1 + i] = Record(order[i])
    <2>1. Len(data) + 1 + i \in 1..Len(front) + Len(back) /\ ~(Len(data) + 1 + i <= Len(front))
      BY <1>1, <1>3, <1>5, <1>6
    <2>2. Len(data) + 1 + i - Len(front) = i
      BY <1>1, <1>5, <1>6
    <2>3. QED
      BY <2>1, <2>2, <1>4, <1>7
  <1>12. QED
    BY <1>7, <1>8, <1>9, <1>10, <1>11 DEF Turn, out, front, back, n

\* more is db with a hash more
Extends(more, db, h, ids) ==
    /\ h \notin DOMAIN db /\ DOMAIN more = DOMAIN db \cup {h}
    /\ more[h] = ids
    /\ \A g \in DOMAIN db : more[g] = db[g]

LEMMA TurnExtends ==
    ASSUME NEW data, NEW db, NEW more, NEW h \in Hashes,
           NEW ids \in SUBSET PeerIDs, NEW order \in SetToSeqs(ids),
           Lays(data, db), Extends(more, db, h, ids)
    PROVE  Lays(Turn(data, h, ids, order), more)
  <1> DEFINE n == Cardinality(ids)
             L == Len(data)
             out == Turn(data, h, ids, order)
  <1> USE DEF Extends
  <1>1. data \in Seq(Tokens)
    BY DEF Lays
  <1>2. /\ n \in Nat /\ DOMAIN order = 1..n
        /\ \A i \in DOMAIN order : order[i] \in ids
        /\ \A id \in ids : \E i \in DOMAIN order : order[i] = id
    BY PermutationOK
  <1>3. L \in Nat /\ DOMAIN data = 1..L /\ \A i \in 1..L : data[i] \in Tokens
    BY <1>1
  <1>4. /\ out \in Seq(Tokens) /\ Len(out) = L + 1 + n
        /\ \A i \in 1..L : out[i] = data[i]
        /\ out[L + 1] = Header(h, n)
        /\ \A i \in 1..n : out[L + 1 + i] = Record(order[i])
    <2>1. out \in Seq(Tokens)
      BY <1>1, TurnOK
    <2>2. Len(out) = L + 1 + n
      BY <1>1, TurnOK
    <2>3. \A i \in 1..L : out[i] = data[i]
      BY <1>1, TurnOK
    <2>4. out[L + 1] = Header(h, n)
      BY <1>1, TurnOK
    <2>5. \A i \in 1..n : out[L + 1 + i] = Record(order[i])
      BY <1>1, TurnOK
    <2>6. QED
      BY <2>1, <2>2, <2>3, <2>4, <2>5
  <1> HIDE DEF out, n, L
  <1>5. DOMAIN out = 1..L + 1 + n
    BY <1>4
  <1>6. \A i \in 1..n : out[L + 1 + i].kind = "record"
    BY <1>4, KindsOK
  <1>7. \A i \in DOMAIN out : IsHeader(out, i) <=> i = L + 1 \/ (i \in 1..L /\ IsHeader(data, i))
    <2>1. IsHeader(out, L + 1)
      BY <1>4, KindsOK DEF IsHeader
    <2>2. ASSUME NEW i \in DOMAIN out, i > L + 1
          PROVE  ~IsHeader(out, i)
      <3>1. i - (L + 1) \in 1..n /\ i = L + 1 + (i - (L + 1))
        BY <2>2, <1>2, <1>3, <1>5
      <3>2. QED
        BY <3>1, <1>6 DEF IsHeader
    <2>3. QED
      BY <2>1, <2>2, <1>2, <1>3, <1>4, <1>5 DEF IsHeader
  <1>8. ASSUME NEW i \in 1..L, IsHeader(data, i)
        PROVE  out[i].hash \in DOMAIN more /\ Section(out, more, i)
    <2> DEFINE c == data[i].count
    <2>1. c \in Nat
      BY <1>3, <1>8, KindsOK DEF IsHeader
    <2>2. data[i].hash \in DOMAIN db /\ Section(data, db, i)
      BY <1>3, <1>8 DEF Lays
    <2>3. out[i] = data[i] /\ i + c <= L
      BY <1>4, <2>2 DEF Section, L
    <2> HIDE DEF c
    <2>4. \A k \in i + 1..i + c : k \in 1..L /\ out[k] = data[k]
      BY <1>3, <1>4, <2>1, <2>3
    <2>5. i + c + 1 = L + 1 + n + 1 \/ IsHeader(out, i + c + 1)
      <3>1. i + c + 1 \in DOMAIN out
        BY <1>2, <1>3, <1>5, <2>1, <2>3
      <3>2. i + c + 1 = L + 1 \/ IsHeader(data, i + c + 1)
        BY <2>2 DEF Section, L, c
      <3>3. CASE i + c + 1 = L + 1
        BY <3>1, <3>3, <1>7
      <3>4. CASE i + c + 1 # L + 1
        <4>1. i + c + 1 \in 1..L
          BY <3>4, <1>3, <2>1, <2>3
        <4>2. QED
          BY <4>1, <3>1, <3>2, <3>4, <1>7
      <3>5. QED
        BY <3>3, <3>4
    <2>6. more[data[i].hash] = {id \in PeerIDs : \E k \in i + 1..i + c : out[k] = Record(id)}
      <3>1. more[data[i].hash] = db[data[i].hash]
        BY <2>2
      <3>2. db[data[i].hash] = {id \in PeerIDs : \E k \in i + 1..i + c : data[k] = Record(id)}
        BY <2>2 DEF Section, c
      <3>3. QED
        BY <3>1, <3>2, <2>4
    <2>7. \A k \in i + 1..i + c : out[k].kind = "record"
      BY <2>2, <2>4 DEF Section, c
    <2>8. i + c <= L + 1 + n
      BY <2>1, <2>3, <1>2, <1>3
    <2>9. QED
      BY <2>2, <2>3, <2>5, <2>6, <2>7, <2>8, <1>4 DEF Section, c
  <1>9. out[L + 1].hash = h /\ Section(out, more, L + 1)
    <2>1. out[L + 1].hash = h /\ out[L + 1].count = n
      BY <1>4, KindsOK
    <2>2. \A k \in L + 1 + 1..L + 1 + n : k - (L + 1) \in 1..n /\ k = L + 1 + (k - (L + 1))
      BY <1>2, <1>3
    <2>3. \A k \in L + 1 + 1..L + 1 + n : out[k] = Record(order[k - (L + 1)])
      BY <2>2, <1>4
    <2>4. \A k \in L + 1 + 1..L + 1 + n : out[k].kind = "record"
      BY <2>3, KindsOK
    <2>5. ids = {id \in PeerIDs : \E k \in L + 1 + 1..L + 1 + n : out[k] = Record(id)}
      <3>1. ASSUME NEW id \in ids
            PROVE  \E k \in L + 1 + 1..L + 1 + n : out[k] = Record(id)
        <4>1. PICK i \in 1..n : order[i] = id
          BY <1>2
        <4>2. L + 1 + i \in L + 1 + 1..L + 1 + n /\ out[L + 1 + i] = Record(id)
          BY <4>1, <1>2, <1>3, <1>4
        <4>3. QED
          BY <4>2
      <3>2. ASSUME NEW id \in PeerIDs, NEW k \in L + 1 + 1..L + 1 + n, out[k] = Record(id)
            PROVE  id \in ids
        <4>1. Record(order[k - (L + 1)]) = Record(id)
          BY <2>3, <3>2
        <4>2. order[k - (L + 1)] = id
          BY <4>1, KindsOK
        <4>3. QED
          BY <4>2, <2>2, <1>2
      <3>3. QED
        BY <3>1, <3>2
    <2>6. QED
      BY <2>1, <2>4, <2>5, <1>2, <1>3, <1>4 DEF Section
  <1>10. out # <<>> => IsHeader(out, 1)
    <2>1. 1 \in DOMAIN out
      BY <1>2, <1>3, <1>5
    <2>2. CASE L = 0
      BY <2>1, <2>2, <1>7
    <2>3. CASE L # 0
      <3>1. data # <<>> /\ 1 \in 1..L
        BY <2>3, <1>3 DEF L
      <3>2. QED
        BY <3>1, <2>1, <1>7 DEF Lays
    <2>4. QED
      BY <2>2, <2>3
  <1>11. \A i \in DOMAIN out : IsHeader(out, i) => out[i].hash \in DOMAIN more /\ Section(out, more, i)
    BY <1>7, <1>8, <1>9
  <1>12. \A g \in DOMAIN more : \E i \in DOMAIN out : IsHeader(out, i) /\ out[i].hash = g
    <2>1. L + 1 \in DOMAIN out /\ IsHeader(out, L + 1) /\ out[L + 1].hash = h
      BY <1>2, <1>3, <1>5, <1>7, <1>9
    <2>2. ASSUME NEW g \in DOMAIN db
          PROVE  \E i \in DOMAIN out : IsHeader(out, i) /\ out[i].hash = g
      <3>1. PICK i \in 1..L : IsHeader(data, i) /\ data[i].hash = g
        BY <1>3 DEF Lays
      <3>2. i \in DOMAIN out /\ out[i] = data[i]
        BY <1>2, <1>3, <1>4, <1>5
      <3>3. QED
        BY <3>1, <3>2, <1>7
    <2>3. QED
      BY <2>1, <2>2
  <1>13. \A i, j \in DOMAIN out :
            IsHeader(out, i) /\ IsHeader(out, j) /\ out[i].hash = out[j].hash => i = j
    <2>1. \A i \in 1..L : IsHeader(data, i) => out[i].hash \in DOMAIN db
      BY <1>3, <1>4 DEF Lays
    <2>2. \A i, j \in 1..L :
             IsHeader(data, i) /\ IsHeader(data, j) /\ out[i].hash = out[j].hash => i = j
      BY <1>3, <1>4 DEF Lays
    <2>3. out[L + 1].hash \notin DOMAIN db
      BY <1>9
    <2>4. QED
      BY <2>1, <2>2, <2>3, <1>7
  <1>14. Lays(out, more)
    BY <1>4, <1>10, <1>11, <1>12, <1>13 DEF Lays
  <1>15. QED
    BY <1>14 DEF out, n


-----------------------------------------------------------------------------
(* The invariant                                                           *)

SaverStates ==
    [pc : {"idle", "next", "entries", "truncate", "write", "exit"}, exit : BOOLEAN,
     todo : SUBSET Hashes, visited : SUBSET Hashes, hash : Hashes \cup {None},
     orphan : BOOLEAN, out : Seq(Tokens), alone : BOOLEAN]

Typed ==
    /\ kind \in Kinds
    /\ IsMap(swarm, Hashes, SUBSET PeerIDs)
    /\ file = NoFile \/ file \in Seq(Bytes)
    /\ up \in {"down", "serving", "panicked", "refused"}
    /\ s \in [Savers -> SaverStates]

Placed(l) ==
    /\ l.pc = "entries" => l.orphan \/ l.hash \in DOMAIN swarm
    /\ l.pc # "entries" => l.hash = None
    /\ l.pc = "write" => file \in Seq(Bytes)
    /\ up # "serving" => l.pc = "idle"

Part(H) == [h \in H |-> swarm[h]]

\* The range over the map has been at visited and will come to the rest
Ranges(l) == l.visited \subseteq DOMAIN swarm /\ DOMAIN swarm \subseteq l.visited \cup l.todo

(* What a saver that nothing has disturbed holds: the layout of the hashes  *)
(* it has been at, then that of the database.                               *)
Undisturbed(x) ==
    /\ \A y \in Savers \ {x} : s[y].pc = "idle"
    /\ s[x].pc = "next" => Ranges(s[x]) /\ Lays(s[x].out, Part(s[x].visited))
    /\ s[x].pc = "entries" =>
          /\ Ranges(s[x]) /\ ~s[x].orphan /\ s[x].hash \in s[x].visited
          /\ \E o : /\ Lays(o, Part(s[x].visited \ {s[x].hash}))
                    /\ s[x].out = Append(o, Header(s[x].hash, Cardinality(swarm[s[x].hash])))
    /\ s[x].pc \in {"truncate", "write"} => Lays(s[x].out, swarm)
    /\ s[x].pc = "write" => file = <<>>

(* QuietSavesAreExact says nothing of the savers, and not that a layout is  *)
(* more than well formed: a turn extends only a layout.                     *)
IInv ==
    /\ Typed
    /\ \A x \in Savers : Placed(s[x])
    /\ \A x \in Savers : s[x].pc # "idle" /\ s[x].alone => Undisturbed(x)
    /\ quiet # None => Lays(file, quiet) /\ IsMap(quiet, Hashes, SUBSET PeerIDs)

LEMMA IInvGivesTypes == IInv => TypeOK
  <1> SUFFICES ASSUME IInv PROVE TypeOK
    OBVIOUS
  <1>1. file = NoFile \/ \A i \in DOMAIN file : file[i].kind \in {"header", "record", "cut"}
    <2>1. CASE file \in Seq(Bytes)
      <3>1. \A i \in DOMAIN file : file[i] \in Bytes
        BY <2>1
      <3>2. QED
        BY <3>1, KindsOK DEF Bytes
    <2>2. QED
      BY <2>1 DEF IInv, Typed
  <1>2. ASSUME NEW x \in Savers
        PROVE  /\ s[x].pc \in {"idle", "next", "entries", "truncate", "write", "exit"}
               /\ s[x].pc = "entries" => s[x].orphan \/ s[x].hash \in DOMAIN swarm
               /\ s[x].pc \in {"idle", "next", "truncate", "write", "exit"} => s[x].hash = None
               /\ up # "serving" => s[x].pc = "idle"
    BY DEF IInv, Typed, SaverStates, Placed
  <1>3. QED
    BY <1>1, <1>2 DEF IInv, Typed, TypeOK

LEMMA IInvIsExact == IInv => QuietSavesAreExact
  BY LayoutDecodes DEF IInv, QuietSavesAreExact

LEMMA IdleOK ==
    /\ Idle \in SaverStates
    /\ Idle.pc = "idle" /\ Idle.hash = None
  <1>1. <<>> \in Seq(Tokens)
    OBVIOUS
  <1>2. QED
    BY <1>1 DEF Idle, SaverStates

LEMMA EmptyMapOK == DOMAIN EmptyMap = {} /\ IsMap(EmptyMap, Hashes, SUBSET PeerIDs)
  BY DEF EmptyMap, IsMap

LEMMA InitIInv == Init => IInv
  <1> SUFFICES ASSUME Init PROVE IInv
    OBVIOUS
  <1>1. s \in [Savers -> SaverStates] /\ \A x \in Savers : s[x] = Idle
    BY IdleOK DEF Init
  <1>2. Typed
    BY <1>1, EmptyMapOK DEF Init, Typed
  <1>3. \A x \in Savers : Placed(s[x])
    BY <1>1, IdleOK DEF Placed
  <1>4. QED
    BY <1>1, <1>2, <1>3, IdleOK DEF Init, IInv


-----------------------------------------------------------------------------
(* The database changes                                                    *)

\* A change disturbs every saver
LEMMA ChangeOK ==
    ASSUME IInv, UNCHANGED <<kind, file, up, quiet>>,
           IsMap(swarm', Hashes, SUBSET PeerIDs),
           s' \in [Savers -> SaverStates],
           \A x \in Savers : /\ s'[x].pc = s[x].pc /\ s'[x].hash = s[x].hash
                             /\ ~s'[x].alone
                             /\ s'[x].pc = "entries" =>
                                   s'[x].orphan \/ s'[x].hash \in DOMAIN swarm'
    PROVE  IInv'
  <1>1. Typed'
    BY DEF IInv, Typed
  <1>2. ASSUME NEW x \in Savers
        PROVE  Placed(s[x])'
    BY <1>2 DEF IInv, Placed
  <1>3. (quiet # None => Lays(file, quiet) /\ IsMap(quiet, Hashes, SUBSET PeerIDs))'
    BY DEF IInv, Lays, Section, IsHeader
  <1>4. QED
    BY <1>1, <1>2, <1>3 DEF IInv

LEMMA DisturbedOK ==
    ASSUME NEW l \in SaverStates
    PROVE  /\ Disturbed(l) \in SaverStates
           /\ ~Disturbed(l).alone /\ Disturbed(l).pc = l.pc /\ Disturbed(l).hash = l.hash
           /\ Disturbed(l).orphan = l.orphan
  BY DEF Disturbed, SaverStates

LEMMA JoinStep ==
    ASSUME IInv, NEW h \in Hashes, NEW id \in PeerIDs, Join(h, id)
    PROVE  IInv'
  <1>1. IsMap(swarm, Hashes, SUBSET PeerIDs) /\ s \in [Savers -> SaverStates]
    BY DEF IInv, Typed
  <1>2. /\ swarm' = Put(swarm, h, (IF h \in DOMAIN swarm THEN swarm[h] ELSE {}) \cup {id})
        /\ s' = [x \in Savers |-> Disturbed(s[x])]
        /\ UNCHANGED <<kind, file, up, quiet>>
    BY DEF Join
  <1>3. IsMap(swarm', Hashes, SUBSET PeerIDs) /\ DOMAIN swarm \subseteq DOMAIN swarm'
    BY <1>1, <1>2 DEF IsMap, Put
  <1>4. s' \in [Savers -> SaverStates]
    BY <1>1, <1>2, DisturbedOK
  <1>5. ASSUME NEW x \in Savers
        PROVE  /\ s'[x].pc = s[x].pc /\ s'[x].hash = s[x].hash /\ ~s'[x].alone
               /\ s'[x].pc = "entries" => s'[x].orphan \/ s'[x].hash \in DOMAIN swarm'
    BY <1>1, <1>2, <1>3, DisturbedOK DEF IInv, Placed
  <1>6. QED
    BY <1>2, <1>3, <1>4, <1>5, ChangeOK

LEMMA LeaveStep ==
    ASSUME IInv, NEW h \in Hashes, NEW id \in PeerIDs, Leave(h, id)
    PROVE  IInv'
  <1>1. IsMap(swarm, Hashes, SUBSET PeerIDs) /\ s \in [Savers -> SaverStates]
    BY DEF IInv, Typed
  <1>2. /\ swarm' = [swarm EXCEPT ![h] = @ \ {id}]
        /\ s' = [x \in Savers |-> Disturbed(s[x])]
        /\ UNCHANGED <<kind, file, up, quiet>>
    BY DEF Leave
  <1>3. IsMap(swarm', Hashes, SUBSET PeerIDs) /\ DOMAIN swarm' = DOMAIN swarm
    BY <1>1, <1>2 DEF IsMap
  <1>4. s' \in [Savers -> SaverStates]
    BY <1>1, <1>2, DisturbedOK
  <1>5. ASSUME NEW x \in Savers
        PROVE  /\ s'[x].pc = s[x].pc /\ s'[x].hash = s[x].hash /\ ~s'[x].alone
               /\ s'[x].pc = "entries" => s'[x].orphan \/ s'[x].hash \in DOMAIN swarm'
    BY <1>1, <1>2, <1>3, DisturbedOK DEF IInv, Placed
  <1>6. QED
    BY <1>2, <1>3, <1>4, <1>5, ChangeOK

LEMMA DropHashStep ==
    ASSUME IInv, NEW h \in Hashes, DropHash(h)
    PROVE  IInv'
  <1>1. IsMap(swarm, Hashes, SUBSET PeerIDs) /\ s \in [Savers -> SaverStates]
    BY DEF IInv, Typed
  <1>2. /\ swarm' = Del(swarm, h)
        /\ s' = [x \in Savers |-> [Disturbed(s[x]) EXCEPT !.orphan = @ \/ s[x].hash = h]]
        /\ UNCHANGED <<kind, file, up, quiet>>
    BY DEF DropHash
  <1>3. IsMap(swarm', Hashes, SUBSET PeerIDs) /\ DOMAIN swarm' = DOMAIN swarm \ {h}
    BY <1>1, <1>2 DEF IsMap, Del
  <1>4. ASSUME NEW x \in Savers
        PROVE  /\ s'[x] \in SaverStates
               /\ s'[x].pc = s[x].pc /\ s'[x].hash = s[x].hash /\ ~s'[x].alone
               /\ s'[x].orphan = (s[x].orphan \/ s[x].hash = h)
    BY <1>1, <1>2 DEF Disturbed, SaverStates
  <1>5. s' \in [Savers -> SaverStates]
    BY <1>2, <1>4
  <1>6. \A x \in Savers : s'[x].pc = "entries" => s'[x].orphan \/ s'[x].hash \in DOMAIN swarm'
    BY <1>3, <1>4 DEF IInv, Placed
  <1>7. QED
    BY <1>2, <1>3, <1>4, <1>5, <1>6, ChangeOK

-----------------------------------------------------------------------------
(* The savers                                                              *)

\* While a saver is at work, no other is undisturbed
LEMMA AlonesAreAlone ==
    ASSUME IInv, NEW x \in Savers, s[x].pc # "idle"
    PROVE  \A y \in Savers \ {x} : s[y].pc = "idle" \/ ~s[y].alone
  BY DEF IInv, Undisturbed

\* What is left to show of the step of a saver that does not change the map
LEMMA SaverStep ==
    ASSUME IInv, NEW x \in Savers, s[x].pc # "idle", UNCHANGED <<kind, swarm, up>>,
           s' \in [Savers -> SaverStates], \A y \in Savers \ {x} : s'[y] = s[y],
           file' = file \/ file' \in Seq(Bytes),
           Placed(s[x])',
           (s[x].pc # "idle" /\ s[x].alone => Undisturbed(x))',
           quiet' # None => Lays(file', quiet') /\ IsMap(quiet', Hashes, SUBSET PeerIDs)
    PROVE  IInv'
  <1>1. Typed'
    BY DEF IInv, Typed
  <1>2. ASSUME NEW y \in Savers
        PROVE  Placed(s[y])'
    <2>1. CASE y # x
      BY <2>1 DEF IInv, Placed
    <2>2. QED
      BY <2>1
  <1>3. ASSUME NEW y \in Savers, (s[y].pc # "idle" /\ s[y].alone)'
        PROVE  Undisturbed(y)'
    <2>1. CASE y # x
      BY <2>1, <1>3, AlonesAreAlone
    <2>2. QED
      BY <2>1, <1>3
  <1>4. (quiet # None => Lays(file, quiet) /\ IsMap(quiet, Hashes, SUBSET PeerIDs))'
    BY DEF Lays, Section, IsHeader, IsMap
  <1>5. QED
    BY <1>1, <1>2, <1>3, <1>4 DEF IInv

\* A quiet file stays what it is
LEMMA QuietStays ==
    ASSUME IInv, UNCHANGED <<file, quiet>>
    PROVE  quiet' # None => Lays(file', quiet') /\ IsMap(quiet', Hashes, SUBSET PeerIDs)
  BY DEF IInv

LEMMA SaveBeginStep ==
    ASSUME IInv, NEW x \in Savers, NEW exit \in BOOLEAN, SaveBegin(x, exit)
    PROVE  IInv'
  <1>1. IsMap(swarm, Hashes, SUBSET PeerIDs) /\ s \in [Savers -> SaverStates]
    BY DEF IInv, Typed
  <1>2. /\ up = "serving"
        /\ UNCHANGED <<kind, swarm, file, up, quiet>>
        /\ s' = [y \in Savers |->
                   IF y = x THEN [Idle EXCEPT !.pc = "next", !.exit = exit,
                                     !.todo = DOMAIN swarm,
                                     !.alone = \A z \in Savers \ {x} : s[z].pc = "idle"]
                   ELSE Disturbed(s[y])]
    BY DEF SaveBegin, Serving
  <1>3. /\ s'[x] \in SaverStates /\ s'[x].pc = "next" /\ s'[x].hash = None
        /\ s'[x].todo = DOMAIN swarm /\ s'[x].visited = {} /\ s'[x].out = <<>>
        /\ s'[x].alone => \A z \in Savers \ {x} : s[z].pc = "idle"
    <2> DEFINE quietly == \A z \in Savers \ {x} : s[z].pc = "idle"
    <2>1. s'[x] = [Idle EXCEPT !.pc = "next", !.exit = exit,
                               !.todo = DOMAIN swarm, !.alone = quietly]
      BY <1>2
    <2>2. quietly \in BOOLEAN /\ DOMAIN swarm \in SUBSET Hashes /\ <<>> \in Seq(Tokens)
      BY <1>1 DEF IsMap
    <2>3. quietly => \A z \in Savers \ {x} : s[z].pc = "idle"
      OBVIOUS
    <2> HIDE DEF quietly
    <2>4. QED
      BY <2>1, <2>2, <2>3 DEF Idle, SaverStates
  <1>4. ASSUME NEW y \in Savers \ {x}
        PROVE  /\ s'[y] \in SaverStates /\ ~s'[y].alone /\ s'[y].pc = s[y].pc
               /\ s'[y].hash = s[y].hash /\ s'[y].orphan = s[y].orphan
    BY <1>1, <1>2, DisturbedOK
  <1>5. Typed'
    <2>1. s' \in [Savers -> SaverStates]
      BY <1>2, <1>3, <1>4
    <2>2. QED
      BY <1>2, <2>1 DEF IInv, Typed
  <1>6. ASSUME NEW y \in Savers
        PROVE  Placed(s[y])'
    <2>1. CASE y = x
      BY <2>1, <1>2, <1>3 DEF Placed
    <2>2. CASE y # x
      BY <2>2, <1>2, <1>4 DEF IInv, Placed
    <2>3. QED
      BY <2>1, <2>2
  <1>7. ASSUME s'[x].alone
        PROVE  Undisturbed(x)'
    <2>1. \A y \in Savers \ {x} : s'[y].pc = "idle"
      BY <1>3, <1>4, <1>7
    <2>2. Ranges(s[x])'
      BY <1>2, <1>3 DEF Ranges
    <2>3. Lays(s[x].out, Part(s[x].visited))'
      <3>1. DOMAIN [h \in {} |-> swarm'[h]] = {}
        OBVIOUS
      <3>2. Lays(<<>>, [h \in {} |-> swarm'[h]])
        BY <3>1, EmptyLayout
      <3>3. QED
        BY <3>2, <1>3 DEF Part, Lays, Section, IsHeader
    <2>4. QED
      BY <2>1, <2>2, <2>3, <1>3 DEF Undisturbed
  <1>8. (quiet # None => Lays(file, quiet) /\ IsMap(quiet, Hashes, SUBSET PeerIDs))'
    BY <1>2, QuietStays DEF Lays, Section, IsHeader, IsMap
  <1>9. QED
    BY <1>4, <1>5, <1>6, <1>7, <1>8 DEF IInv


LEMMA EncodeHeaderStep ==
    ASSUME IInv, NEW x \in Savers, NEW h \in Hashes, EncodeHeader(x, h)
    PROVE  IInv'
  <1> DEFINE n == Cardinality(swarm[h])
  <1>1. IsMap(swarm, Hashes, SUBSET PeerIDs) /\ s \in [Savers -> SaverStates]
    BY DEF IInv, Typed
  <1>2. /\ up = "serving" /\ s[x].pc = "next" /\ h \in DOMAIN swarm \ s[x].visited
        /\ s' = [s EXCEPT ![x].pc = "entries", ![x].hash = h, ![x].orphan = FALSE,
                          ![x].todo = @ \ {h}, ![x].visited = @ \cup {h},
                          ![x].out = Append(@, Header(h, n))]
        /\ UNCHANGED <<kind, swarm, file, up, quiet>>
    BY DEF EncodeHeader, Serving
  <1>3. Append(s[x].out, Header(h, n)) \in Seq(Tokens)
    <2>1. swarm[h] \in SUBSET PeerIDs
      BY <1>1, <1>2 DEF IsMap
    <2>2. n \in Nat
      BY <2>1, SetsAssumption, FS_Subset, FS_CardinalityType
    <2>3. Header(h, n) \in Tokens /\ s[x].out \in Seq(Tokens)
      BY <1>1, <2>2, KindsOK DEF SaverStates
    <2>4. QED
      BY <2>3, AppendProperties
  <1>4. /\ s'[x] \in SaverStates /\ s'[x].pc = "entries" /\ s'[x].hash = h /\ ~s'[x].orphan
        /\ s'[x].visited = s[x].visited \cup {h} /\ s'[x].todo = s[x].todo \ {h}
        /\ s'[x].alone = s[x].alone /\ s'[x].out = Append(s[x].out, Header(h, n))
    BY <1>1, <1>2, <1>3 DEF SaverStates
  <1>5. \A y \in Savers \ {x} : s'[y] = s[y]
    BY <1>1, <1>2
  <1>6. s' \in [Savers -> SaverStates]
    BY <1>1, <1>2, <1>4, <1>5
  <1>7. Placed(s[x])'
    BY <1>2, <1>4 DEF Placed
  <1>8. ASSUME s'[x].alone
        PROVE  Undisturbed(x)'
    <2>1. Undisturbed(x)
      BY <1>2, <1>4, <1>8 DEF IInv
    <2>2. \A y \in Savers \ {x} : s'[y].pc = "idle"
      BY <1>5, <2>1 DEF Undisturbed
    <2>3. Ranges(s[x])'
      BY <1>2, <1>4, <2>1 DEF Undisturbed, Ranges
    <2>4. Lays(s[x].out, [g \in s'[x].visited \ {h} |-> swarm[g]])
      <3>1. s'[x].visited \ {h} = s[x].visited
        BY <1>2, <1>4
      <3>2. QED
        BY <3>1, <1>2, <2>1 DEF Undisturbed, Part
    <2>5. \E o : /\ Lays(o, [g \in s'[x].visited \ {h} |-> swarm'[g]])
                 /\ s'[x].out = Append(o, Header(h, Cardinality(swarm'[h])))
      BY <1>2, <1>4, <2>4
    <2>6. (\E o : /\ Lays(o, Part(s[x].visited \ {s[x].hash}))
                  /\ s[x].out = Append(o, Header(s[x].hash, Cardinality(swarm[s[x].hash]))))'
      BY <1>4, <2>5 DEF Part
    <2>7. s'[x].hash \in s'[x].visited
      BY <1>4
    <2>8. QED
      BY <1>4, <2>2, <2>3, <2>6, <2>7 DEF Undisturbed
  <1>9. QED
    BY <1>2, <1>5, <1>6, <1>7, <1>8, QuietStays, SaverStep

LEMMA EncodeEntriesStep ==
    ASSUME IInv, NEW x \in Savers, EncodeEntries(x)
    PROVE  IInv'
  <1> DEFINE ids == IF s[x].orphan THEN {} ELSE swarm[s[x].hash]
             Records(order) == [i \in DOMAIN order |-> Record(order[i])]
  <1>1. IsMap(swarm, Hashes, SUBSET PeerIDs) /\ s \in [Savers -> SaverStates]
    BY DEF IInv, Typed
  <1>2. PICK order \in SetToSeqs(ids) :
           s' = [s EXCEPT ![x].pc = "next", ![x].hash = None, ![x].orphan = FALSE,
                          ![x].out = @ \o Records(order)]
    BY DEF EncodeEntries
  <1>3. /\ up = "serving" /\ s[x].pc = "entries"
        /\ UNCHANGED <<kind, swarm, file, up, quiet>>
    BY DEF EncodeEntries, Serving
  <1>4. ids \in SUBSET PeerIDs
    BY <1>1, <1>3 DEF IInv, Placed, IsMap
  <1>5. s[x].out \o Records(order) \in Seq(Tokens)
    <2>1. /\ Cardinality(ids) \in Nat /\ DOMAIN order = 1..Cardinality(ids)
          /\ \A i \in DOMAIN order : order[i] \in PeerIDs
      BY <1>4, PermutationOK
    <2>2. Records(order) \in [1..Cardinality(ids) -> Tokens]
      BY <2>1, KindsOK
    <2>3. Records(order) \in Seq(Tokens) /\ s[x].out \in Seq(Tokens)
      BY <1>1, <2>1, <2>2 DEF SaverStates
    <2> HIDE DEF Records
    <2>4. QED
      BY <2>3, ConcatProperties
  <1> DEFINE out == s[x].out \o Records(order)
  <1> HIDE DEF ids, out
  <1>6. /\ s'[x] \in SaverStates /\ s'[x].pc = "next" /\ s'[x].hash = None
        /\ s'[x].visited = s[x].visited /\ s'[x].todo = s[x].todo
        /\ s'[x].alone = s[x].alone /\ s'[x].out = out
    <2>1. s' = [s EXCEPT ![x].pc = "next", ![x].hash = None, ![x].orphan = FALSE,
                         ![x].out = out]
      BY <1>2 DEF out
    <2>2. out \in Seq(Tokens)
      BY <1>5 DEF out
    <2>3. QED
      BY <1>1, <2>1, <2>2 DEF SaverStates
  <1>7. \A y \in Savers \ {x} : s'[y] = s[y]
    BY <1>1, <1>2, <1>6
  <1>8. s' \in [Savers -> SaverStates]
    BY <1>1, <1>2, <1>6, <1>7
  <1>9. Placed(s[x])'
    BY <1>3, <1>6 DEF Placed
  <1>10. ASSUME s'[x].alone
         PROVE  Undisturbed(x)'
    <2> DEFINE h == s[x].hash
               all == s[x].visited
               old == [g \in all \ {h} |-> swarm[g]]
               new == [g \in all |-> swarm[g]]
    <2>1. Undisturbed(x)
      BY <1>3, <1>6, <1>10 DEF IInv
    <2>2. \A y \in Savers \ {x} : s'[y].pc = "idle"
      BY <1>7, <2>1 DEF Undisturbed
    <2>3. Ranges(s[x])'
      BY <1>3, <1>6, <2>1 DEF Undisturbed, Ranges
    <2>4. PICK o : /\ Lays(o, Part(all \ {h}))
                   /\ s[x].out = Append(o, Header(h, Cardinality(swarm[h])))
      BY <1>3, <2>1 DEF Undisturbed
    <2>5. /\ h \in all /\ all \subseteq DOMAIN swarm /\ h \in Hashes
          /\ ids = swarm[h]
      BY <1>1, <1>3, <2>1 DEF Undisturbed, Ranges, IsMap, ids
    <2>6. Lays(o, old)
      BY <2>4 DEF Part
    <2>7. Extends(new, old, h, ids)
      BY <2>5 DEF Extends
    <2> HIDE DEF old, new, h, all
    <2>8. Lays(Turn(o, h, ids, order), new)
      BY <1>4, <2>5, <2>6, <2>7, TurnExtends
    <2>9. s'[x].out = Turn(o, h, ids, order)
      BY <1>6, <2>4, <2>5 DEF Turn, out, Records
    <2>10. Lays(s[x].out, Part(s[x].visited))'
      BY <1>3, <1>6, <2>8, <2>9 DEF new, all, Part
    <2>11. QED
      BY <1>6, <2>2, <2>3, <2>10 DEF Undisturbed
  <1>11. QED
    BY <1>3, <1>7, <1>8, <1>9, <1>10, QuietStays, SaverStep

LEMMA EncodeDoneStep ==
    ASSUME IInv, NEW x \in Savers, EncodeDone(x)
    PROVE  IInv'
  <1>1. IsMap(swarm, Hashes, SUBSET PeerIDs) /\ s \in [Savers -> SaverStates]
    BY DEF IInv, Typed
  <1>2. /\ up = "serving" /\ s[x].pc = "next" /\ s[x].todo \cap DOMAIN swarm = {}
        /\ s' = [s EXCEPT ![x].pc = "truncate"]
        /\ UNCHANGED <<kind, swarm, file, up, quiet>>
    BY DEF EncodeDone, Serving
  <1>3. /\ s'[x] \in SaverStates /\ s'[x].pc = "truncate" /\ s'[x].hash = s[x].hash
        /\ s'[x].alone = s[x].alone /\ s'[x].out = s[x].out
    BY <1>1, <1>2 DEF SaverStates
  <1>4. \A y \in Savers \ {x} : s'[y] = s[y]
    BY <1>1, <1>2
  <1>5. s' \in [Savers -> SaverStates]
    BY <1>1, <1>2, <1>3, <1>4
  <1>6. Placed(s[x])'
    BY <1>2, <1>3 DEF IInv, Placed
  <1>7. ASSUME s'[x].alone
        PROVE  Undisturbed(x)'
    <2>1. Undisturbed(x)
      BY <1>2, <1>3, <1>7 DEF IInv
    <2>2. s[x].visited = DOMAIN swarm
      BY <1>2, <2>1 DEF Undisturbed, Ranges
    <2>3. Part(s[x].visited) = swarm
      BY <1>1, <2>2 DEF Part, IsMap
    <2>4. Lays(s[x].out, swarm)
      BY <1>2, <2>1, <2>3 DEF Undisturbed
    <2>5. Lays(s[x].out, swarm)'
      BY <1>2, <1>3, <2>4 DEF Lays, Section, IsHeader
    <2>6. QED
      BY <1>3, <1>4, <2>1, <2>5 DEF Undisturbed
  <1>8. QED
    BY <1>2, <1>4, <1>5, <1>6, <1>7, QuietStays, SaverStep


-----------------------------------------------------------------------------
(* The file                                                                *)

LEMMA BytesOK ==
    /\ Seq(Tokens) \subseteq Seq(Bytes)
    /\ <<>> \in Seq(Bytes) /\ <<Cut>> \in Seq(Bytes)
  BY DEF Bytes

LEMMA SubSeqOK ==
    ASSUME NEW data \in Seq(Bytes), NEW m \in 1..Len(data) + 1, NEW n \in 0..Len(data)
    PROVE  SubSeq(data, m, n) \in Seq(Bytes)
  <1>1. m \in Int /\ n \in Int /\ \A i \in m..n : data[i] \in Bytes
    OBVIOUS
  <1>2. QED
    BY <1>1, SubSeqProperties

LEMMA SizeOK ==
    /\ Size(<<>>) = 0
    /\ \A data \in Seq(Bytes) : Size(data) \in Nat
  <1>1. Size(<<>>) = 0
    <2>1. {i \in DOMAIN <<>> : IsHeader(<<>>, i)} = {} /\ DOMAIN <<>> \ {} = {}
      OBVIOUS
    <2>2. Cardinality({}) = 0
      BY FS_EmptySet
    <2>3. QED
      BY <2>1, <2>2 DEF Size
  <1>2. ASSUME NEW data \in Seq(Bytes)
        PROVE  Size(data) \in Nat
    <2> DEFINE headers == {i \in DOMAIN data : IsHeader(data, i)}
    <2>1. DOMAIN data = 1..Len(data) /\ Len(data) \in Nat
      OBVIOUS
    <2>2. IsFiniteSet(DOMAIN data)
      BY <2>1, FS_Interval
    <2>3. Cardinality(headers) \in Nat /\ Cardinality(DOMAIN data \ headers) \in Nat
      BY <2>2, FS_Subset, FS_CardinalityType
    <2>4. QED
      BY <2>3 DEF Size
  <1>3. QED
    BY <1>1, <1>2

LEMMA OverwriteOK ==
    ASSUME NEW old \in Seq(Bytes), NEW out \in Seq(Bytes)
    PROVE  /\ Overwrite(old, out) \in Seq(Bytes)
           /\ Overwrite(<<>>, out) = out
  <1> DEFINE Fits(k) == Size(SubSeq(old, 1, k)) = Size(out)
             cut == CHOOSE k \in 0..Len(old) : Fits(k)
             rest == SubSeq(old, 1 + cut, Len(old))
  <1>1. Overwrite(<<>>, out) = out
    <2>1. Size(<<>>) <= Size(out)
      BY SizeOK
    <2>2. QED
      BY <2>1 DEF Overwrite
  <1>2. Overwrite(old, out) =
           IF Size(old) <= Size(out) THEN out
           ELSE IF \E k \in 0..Len(old) : Fits(k) THEN out \o rest ELSE Append(out, Cut)
    BY DEF Overwrite
  <1>3. Append(out, Cut) \in Seq(Bytes)
    <2>1. Cut \in Bytes
      BY DEF Bytes
    <2>2. QED
      BY <2>1, AppendProperties
  <1>4. ASSUME \E k \in 0..Len(old) : Fits(k)
        PROVE  out \o rest \in Seq(Bytes)
    <2>1. cut \in 0..Len(old)
      <3> HIDE DEF Fits
      <3>1. QED
        BY <1>4
    <2> HIDE DEF cut
    <2>2. 1 + cut \in 1..Len(old) + 1 /\ Len(old) \in 0..Len(old)
      BY <2>1
    <2>3. rest \in Seq(Bytes)
      BY <2>2, SubSeqOK
    <2> HIDE DEF rest
    <2>4. QED
      BY <2>3, ConcatProperties
  <1> HIDE DEF Fits, rest
  <1>5. QED
    BY <1>1, <1>2, <1>3, <1>4

LEMMA TruncateStep ==
    ASSUME IInv, NEW x \in Savers, Truncate(x)
    PROVE  IInv'
  <1>1. s \in [Savers -> SaverStates]
    BY DEF IInv, Typed
  <1>2. /\ up = "serving" /\ s[x].pc = "truncate" /\ file' = <<>> /\ quiet' = None
        /\ s' = [s EXCEPT ![x].pc = "write"]
        /\ UNCHANGED <<kind, swarm, up>>
    BY DEF Truncate, Serving
  <1>3. /\ s'[x] \in SaverStates /\ s'[x].pc = "write" /\ s'[x].hash = s[x].hash
        /\ s'[x].alone = s[x].alone /\ s'[x].out = s[x].out
    BY <1>1, <1>2 DEF SaverStates
  <1>4. \A y \in Savers \ {x} : s'[y] = s[y]
    BY <1>1, <1>2
  <1>5. s' \in [Savers -> SaverStates]
    BY <1>1, <1>2, <1>3, <1>4
  <1>6. file' \in Seq(Bytes)
    BY <1>2, BytesOK
  <1>7. Placed(s[x])'
    BY <1>2, <1>3, <1>6 DEF IInv, Placed
  <1>8. ASSUME s'[x].alone
        PROVE  Undisturbed(x)'
    <2>1. Undisturbed(x)
      BY <1>2, <1>3, <1>8 DEF IInv
    <2>2. Lays(s[x].out, swarm)'
      BY <1>2, <1>3, <2>1 DEF Undisturbed
    <2>3. QED
      BY <1>2, <1>3, <1>4, <2>1, <2>2 DEF Undisturbed
  <1>9. QED
    BY <1>2, <1>4, <1>5, <1>6, <1>7, <1>8, SaverStep

\* The saver is done, and may be about to exit
LEMMA SavedOK ==
    ASSUME IInv, NEW x \in Savers, s[x].hash = None, s' = Saved(x)
    PROVE  /\ s' \in [Savers -> SaverStates] /\ \A y \in Savers \ {x} : s'[y] = s[y]
           /\ s'[x].pc \in {"idle", "exit"} /\ s'[x].hash = None
           /\ s'[x].pc = "exit" => s'[x].alone = s[x].alone
  <1>1. s \in [Savers -> SaverStates]
    BY DEF IInv, Typed
  <1>2. CASE s[x].exit
    <2>1. s' = [s EXCEPT ![x] = [s[x] EXCEPT !.pc = "exit"]]
      BY <1>2 DEF Saved
    <2>2. s[x] \in SaverStates /\ s'[x] = [s[x] EXCEPT !.pc = "exit"]
      BY <1>1, <2>1
    <2>3. /\ s'[x] \in SaverStates /\ s'[x].pc = "exit" /\ s'[x].hash = s[x].hash
          /\ s'[x].alone = s[x].alone
      BY <2>2 DEF SaverStates
    <2>4. QED
      BY <1>1, <2>1, <2>3
  <1>3. CASE ~s[x].exit
    <2>1. s' = [s EXCEPT ![x] = Idle]
      BY <1>3 DEF Saved
    <2>2. QED
      BY <1>1, <2>1, IdleOK
  <1>4. QED
    BY <1>2, <1>3

LEMMA WriteStep ==
    ASSUME IInv, NEW x \in Savers, Write(x)
    PROVE  IInv'
  <1>1. s \in [Savers -> SaverStates] /\ IsMap(swarm, Hashes, SUBSET PeerIDs)
    BY DEF IInv, Typed
  <1>2. /\ up = "serving" /\ s[x].pc = "write" /\ file' = Overwrite(file, s[x].out)
        /\ quiet' = (IF s[x].alone THEN swarm ELSE None)
        /\ s' = Saved(x)
        /\ UNCHANGED <<kind, swarm, up>>
    BY DEF Write, Serving
  <1>3. s[x].hash = None /\ file \in Seq(Bytes) /\ s[x].out \in Seq(Bytes)
    BY <1>1, <1>2, BytesOK DEF IInv, Placed, SaverStates
  <1>4. /\ s' \in [Savers -> SaverStates] /\ \A y \in Savers \ {x} : s'[y] = s[y]
        /\ s'[x].pc \in {"idle", "exit"} /\ s'[x].hash = None
        /\ s'[x].pc = "exit" => s'[x].alone = s[x].alone
    BY <1>2, <1>3, SavedOK
  <1>5. file' \in Seq(Bytes)
    BY <1>2, <1>3, OverwriteOK
  <1>6. Placed(s[x])'
    BY <1>2, <1>4 DEF Placed
  <1>7. ASSUME s[x].alone
        PROVE  Undisturbed(x) /\ Lays(s[x].out, swarm) /\ file' = s[x].out
    <2>1. Undisturbed(x)
      BY <1>2, <1>7 DEF IInv
    <2>2. Lays(s[x].out, swarm) /\ file = <<>>
      BY <1>2, <2>1 DEF Undisturbed
    <2>3. QED
      BY <1>2, <1>3, <2>1, <2>2, OverwriteOK
  <1>8. ASSUME s'[x].alone, s'[x].pc # "idle"
        PROVE  Undisturbed(x)'
    BY <1>4, <1>7, <1>8 DEF Undisturbed
  <1>9. quiet' # None => Lays(file', quiet') /\ IsMap(quiet', Hashes, SUBSET PeerIDs)
    BY <1>1, <1>2, <1>7
  <1>10. QED
    BY <1>2, <1>4, <1>5, <1>6, <1>8, <1>9, SaverStep


LEMMA GoneOK ==
    ASSUME IInv, Gone, UNCHANGED kind, file' = file \/ file' \in Seq(Bytes),
           quiet' # None => Lays(file', quiet') /\ IsMap(quiet', Hashes, SUBSET PeerIDs)
    PROVE  IInv'
  <1>1. swarm' = EmptyMap /\ s' = [x \in Savers |-> Idle] /\ up' = "down"
    BY DEF Gone
  <1>2. \A x \in Savers : s'[x] = Idle
    BY <1>1
  <1>3. s' \in [Savers -> SaverStates]
    BY <1>1, IdleOK
  <1>4. IsMap(swarm', Hashes, SUBSET PeerIDs)
    BY <1>1, EmptyMapOK
  <1>5. Typed'
    BY <1>1, <1>3, <1>4 DEF IInv, Typed
  <1>6. ASSUME NEW x \in Savers
        PROVE  Placed(s[x])' /\ s'[x].pc = "idle"
    BY <1>2, IdleOK DEF Placed
  <1>7. (quiet # None => Lays(file, quiet) /\ IsMap(quiet, Hashes, SUBSET PeerIDs))'
    BY DEF Lays, Section, IsHeader, IsMap
  <1>8. QED
    BY <1>5, <1>6, <1>7 DEF IInv

LEMMA InsertStep ==
    ASSUME IInv, NEW x \in Savers, Insert(x)
    PROVE  IInv'
  <1>1. s \in [Savers -> SaverStates] /\ IsMap(swarm, Hashes, SUBSET PeerIDs)
    BY DEF IInv, Typed
  <1>2. /\ up = "serving" /\ s[x].pc = "truncate" /\ file' = s[x].out
        /\ quiet' = (IF s[x].alone THEN swarm ELSE None)
        /\ UNCHANGED kind
    BY DEF Insert, Serving
  <1>3. s[x].hash = None /\ file' \in Seq(Bytes)
    BY <1>1, <1>2, BytesOK DEF IInv, Placed, SaverStates
  <1>4. ASSUME s[x].alone
        PROVE  Undisturbed(x) /\ Lays(s[x].out, swarm)
    BY <1>2, <1>4 DEF IInv, Undisturbed
  <1>5. quiet' # None => Lays(file', quiet') /\ IsMap(quiet', Hashes, SUBSET PeerIDs)
    BY <1>1, <1>2, <1>4
  <1>6. CASE Gone
    BY <1>2, <1>3, <1>5, <1>6, GoneOK
  <1>7. CASE s' = Saved(x) /\ UNCHANGED <<swarm, up>>
    <2>1. /\ s' \in [Savers -> SaverStates] /\ \A y \in Savers \ {x} : s'[y] = s[y]
          /\ s'[x].pc \in {"idle", "exit"} /\ s'[x].hash = None
          /\ s'[x].pc = "exit" => s'[x].alone = s[x].alone
      BY <1>3, <1>7, SavedOK
    <2>2. Placed(s[x])'
      BY <1>2, <1>7, <2>1 DEF Placed
    <2>3. ASSUME s'[x].alone, s'[x].pc # "idle"
          PROVE  Undisturbed(x)'
      BY <1>4, <2>1, <2>3 DEF Undisturbed
    <2>4. QED
      BY <1>2, <1>3, <1>5, <1>7, <2>1, <2>2, <2>3, SaverStep
  <1>8. QED
    BY <1>6, <1>7 DEF Insert

LEMMA ExitStep ==
    ASSUME IInv, NEW x \in Savers, Exit(x)
    PROVE  IInv'
  BY GoneOK, QuietStays DEF Exit

LEMMA CrashStep ==
    ASSUME IInv, Crash
    PROVE  IInv'
  <1>1. Gone /\ UNCHANGED kind
    BY DEF Crash
  <1>2. CASE UNCHANGED <<kind, file, quiet>>
    BY <1>1, <1>2, GoneOK, QuietStays
  <1>3. CASE \E x \in Savers :
               /\ s[x].pc = "write"
               /\ \E k \in 0..Len(s[x].out), torn \in {<<>>, <<Cut>>} :
                    file' = SubSeq(s[x].out, 1, k) \o torn
               /\ quiet' = None
    <2>1. PICK x \in Savers : /\ \E k \in 0..Len(s[x].out), torn \in {<<>>, <<Cut>>} :
                                   file' = SubSeq(s[x].out, 1, k) \o torn
                              /\ quiet' = None
      BY <1>3
    <2>2. PICK k \in 0..Len(s[x].out) : \E torn \in {<<>>, <<Cut>>} :
                                   file' = SubSeq(s[x].out, 1, k) \o torn
      BY <2>1
    <2>3. PICK torn \in {<<>>, <<Cut>>} : file' = SubSeq(s[x].out, 1, k) \o torn
      BY <2>2
    <2>4. s[x].out \in Seq(Bytes)
      BY BytesOK DEF IInv, Typed, SaverStates
    <2> DEFINE start == SubSeq(s[x].out, 1, k)
    <2>5. start \in Seq(Bytes)
      <3>1. 1 \in 1..Len(s[x].out) + 1
        BY <2>4
      <3>2. QED
        BY <2>4, <3>1, SubSeqOK
    <2>6. torn \in Seq(Bytes)
      BY BytesOK
    <2> HIDE DEF start
    <2>7. start \o torn \in Seq(Bytes)
      BY <2>5, <2>6, ConcatProperties
    <2>8. file' \in Seq(Bytes)
      BY <2>3, <2>7 DEF start
    <2>9. QED
      BY <1>1, <2>1, <2>8, GoneOK
  <1>4. QED
    BY <1>2, <1>3 DEF Crash

LEMMA DecodedOK ==
    ASSUME NEW data
    PROVE  IsMap(Decoded(data), Hashes, SUBSET PeerIDs)
  BY DEF Decoded, IsMap

LEMMA StartStep ==
    ASSUME IInv, Start
    PROVE  IInv'
  <1>1. /\ up = "down"
        /\ up' \in {"serving", "panicked", "refused"}
        /\ swarm' \in {EmptyMap, swarm, Decoded(file)}
        /\ UNCHANGED <<kind, file, s, quiet>>
    BY DEF Start
  <1>2. IsMap(swarm', Hashes, SUBSET PeerIDs)
    BY <1>1, EmptyMapOK, DecodedOK DEF IInv, Typed
  <1>3. Typed'
    BY <1>1, <1>2 DEF IInv, Typed
  <1>4. ASSUME NEW x \in Savers
        PROVE  Placed(s[x])' /\ s'[x].pc = "idle"
    BY <1>1 DEF IInv, Placed
  <1>5. (quiet # None => Lays(file, quiet) /\ IsMap(quiet, Hashes, SUBSET PeerIDs))'
    BY <1>1, QuietStays DEF Lays, Section, IsHeader, IsMap
  <1>6. QED
    BY <1>3, <1>4, <1>5 DEF IInv

LEMMA StutterOK == IInv /\ UNCHANGED vars => IInv'
  <1> SUFFICES ASSUME IInv, UNCHANGED vars PROVE IInv'
    OBVIOUS
  <1>1. UNCHANGED <<kind, swarm, file, up, s, quiet>>
    BY DEF vars
  <1>2. Typed'
    BY <1>1 DEF IInv, Typed
  <1>3. \A x \in Savers : Placed(s[x])'
    BY <1>1 DEF IInv, Placed
  <1>4. ASSUME NEW x \in Savers, (s[x].pc # "idle" /\ s[x].alone)'
        PROVE  Undisturbed(x)'
    <2>1. Undisturbed(x)
      BY <1>1, <1>4 DEF IInv
    <2>2. QED
      BY <1>1, <2>1 DEF Undisturbed, Ranges, Part
  <1>5. (quiet # None => Lays(file, quiet) /\ IsMap(quiet, Hashes, SUBSET PeerIDs))'
    BY <1>1 DEF IInv
  <1>6. QED
    BY <1>2, <1>3, <1>4, <1>5 DEF IInv

LEMMA StepIInv == IInv /\ [Next]_vars => IInv'
  <1> SUFFICES ASSUME IInv, [Next]_vars PROVE IInv'
    OBVIOUS
  <1>1. ASSUME NEW h \in Hashes, NEW id \in PeerIDs, Join(h, id) \/ Leave(h, id)
        PROVE  IInv'
    BY <1>1, JoinStep, LeaveStep
  <1>2. ASSUME NEW h \in Hashes, DropHash(h)
        PROVE  IInv'
    BY <1>2, DropHashStep
  <1>3. ASSUME NEW x \in Savers, NEW exit \in BOOLEAN, SaveBegin(x, exit)
        PROVE  IInv'
    BY <1>3, SaveBeginStep
  <1>4. ASSUME NEW x \in Savers, NEW h \in Hashes, EncodeHeader(x, h)
        PROVE  IInv'
    BY <1>4, EncodeHeaderStep
  <1>5. ASSUME NEW x \in Savers, EncodeEntries(x) \/ EncodeDone(x)
        PROVE  IInv'
    BY <1>5, EncodeEntriesStep, EncodeDoneStep
  <1>6. ASSUME NEW x \in Savers, Truncate(x) \/ Write(x) \/ Insert(x) \/ Exit(x)
        PROVE  IInv'
    BY <1>6, TruncateStep, WriteStep, InsertStep, ExitStep
  <1>7. CASE Crash
    BY <1>7, CrashStep
  <1>8. CASE Start
    BY <1>8, StartStep
  <1>9. QED
    BY <1>1, <1>2, <1>3, <1>4, <1>5, <1>6, <1>7, <1>8, StutterOK DEF Next

-----------------------------------------------------------------------------
(* TypeOK of Backup.tla, of every behaviour: among others, a saver that is  *)
(* at the entries of a hash has them in the map or keeps its own pointer.   *)
THEOREM TypeCorrect == Spec => []TypeOK
  BY InitIInv, StepIInv, IInvGivesTypes, PTL DEF Spec

(* QuietSavesAreExact of Backup.tla, of every behaviour: whatever saves,    *)
(* crashes and panics came before, a save of encodeBinary that had the      *)
(* database to itself wrote what decodeBinary makes the same database of.   *)
THEOREM SavesCanBeLoaded == Spec => []QuietSavesAreExact
  BY InitIInv, StepIInv, IInvIsExact, PTL DEF Spec
=============================================================================
