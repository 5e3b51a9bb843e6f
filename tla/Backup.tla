------------------------------- MODULE Backup -------------------------------
(***************************************************************************)
(* The backups of the peer database: encodeBinary walks the map while      *)
(* announces, drops and the trimmer change it, the bytes go to a file,     *)
(* which os.WriteFile truncates first, or to a new row of a Postgres       *)
(* table, and the next start decodes them                                  *)
(* (tracker/storage/map/encode_binary.go, backup_file.go, backup_pg.go,    *)
(* memory.go, tracker/signalhandler.go, tracker/tracker.go).               *)
(*                                                                         *)
(*   kind    the backup that is configured, "file" or "pg"                 *)
(*   swarm   Memory.hashmap: hash -> the ids in its peermap                *)
(*   file    the file or the newest row, a sequence of tokens, or NoFile   *)
(*   up      the process: "down", "serving", "panicked" or "refused",      *)
(*           when storage.Open failed                                      *)
(*   s       program counter and locals of each goroutine that saves: the  *)
(*           one RunOn starts if Backup.Frequency > 0, and signalHandler   *)
(*   quiet   the database a save wrote if nothing else went on during the  *)
(*           save and the file is untouched since, or None: a history      *)
(*           variable that nothing reads                                   *)
(*                                                                         *)
(* A header token is a hash with its number of peers, a record token a     *)
(* peer.  What a peer's record says beyond its id is left out, as are      *)
(* errors of the file system and of Postgres, and Load's wait for a newer  *)
(* row, which another process would have to write.  A peermap that the     *)
(* trimmer took out of the map while a save is at it is taken to stay      *)
(* empty.                                                                  *)
(***************************************************************************)
EXTENDS GoMap, Sequences, FiniteSets, SequencesExt

CONSTANTS Hashes, PeerIDs,
          Kinds,       \* a subset of {"file", "pg"}
          Savers,      \* a subset of {"periodic", "signal"}
          Crashes,
          MaxChanges,  \* bound on the changes to the database
          MaxSaves,    \* bound on the saves
          None

ASSUME SaversAssumption ==
    Savers \subseteq {"periodic", "signal"} /\ Kinds \subseteq {"file", "pg"}
ASSUME SetsAssumption ==
    /\ IsFiniteSet(Hashes) /\ IsFiniteSet(PeerIDs) /\ Crashes \in BOOLEAN
ASSUME BoundsAssumption == MaxChanges \in Nat /\ MaxSaves \in Nat

VARIABLES kind, swarm, file, up, s, quiet, changes, saves

vars == <<kind, swarm, file, up, s, quiet, changes, saves>>

-----------------------------------------------------------------------------
Header(h, n) == [kind |-> "header", hash |-> h, count |-> n]
Record(id) == [kind |-> "record", id |-> id]
\* Bytes that are not whole tokens
Cut == [kind |-> "cut"]

NoFile == <<[kind |-> "no file"]>>

IsHeader(data, i) == data[i].kind = "header"

\* Where the header after place i is, or would be
NextHeader(data, i) ==
    CHOOSE j \in i + 1..Len(data) + 1 :
        /\ j = Len(data) + 1 \/ IsHeader(data, j)
        /\ \A k \in i + 1..j - 1 : ~IsHeader(data, k)

\* decodeBinary finds after each header as many records as it says
WellFormed(data) ==
    /\ \A i \in DOMAIN data : data[i].kind # "cut"
    /\ data # <<>> => IsHeader(data, 1)
    /\ \A i \in DOMAIN data : IsHeader(data, i) =>
          NextHeader(data, i) = i + data[i].count + 1

\* What decodeBinary makes of a well-formed file: makePeermap replaces a
\* hash that comes again
Decoded(data) ==
    LET At(h) == {i \in DOMAIN data : IsHeader(data, i) /\ data[i].hash = h}
        Final(h) == CHOOSE i \in At(h) : \A j \in At(h) : j <= i
    IN  [h \in {g \in Hashes : At(g) # {}} |->
            {id \in PeerIDs :
                \E k \in Final(h) + 1..Final(h) + data[Final(h)].count :
                    data[k] = Record(id)}]

\* What binary.Write makes of the tokens, in bytes; addresses are IPv4
Size(data) ==
    LET headers == {i \in DOMAIN data : IsHeader(data, i)}
    IN  24 * Cardinality(headers) + 39 * Cardinality(DOMAIN data \ headers)

\* out written at the start of a file that holds old
Overwrite(old, out) ==
    IF Size(old) <= Size(out) THEN out
    ELSE IF \E k \in 0..Len(old) : Size(SubSeq(old, 1, k)) = Size(out)
    THEN out \o SubSeq(old, 1 + CHOOSE k \in 0..Len(old) :
                                   Size(SubSeq(old, 1, k)) = Size(out), Len(old))
    ELSE Append(out, Cut)

-----------------------------------------------------------------------------
Idle == [pc |-> "idle", exit |-> FALSE, todo |-> {}, visited |-> {},
         hash |-> None, orphan |-> FALSE, out |-> <<>>, alone |-> TRUE]

Init ==
    /\ kind \in Kinds
    /\ swarm = EmptyMap
    /\ file = NoFile
    /\ up = "down"
    /\ s = [x \in Savers |-> Idle]
    /\ quiet = None
    /\ changes = 0 /\ saves = 0

Serving == up = "serving"

Disturbed(saver) == [saver EXCEPT !.alone = FALSE]

-----------------------------------------------------------------------------
(* The database changes under the saves                                    *)

Change ==
    /\ Serving
    /\ changes < MaxChanges
    /\ changes' = changes + 1

\* Memory.Save of a peer that is not there
Join(h, id) ==
    /\ Change
    /\ h \in DOMAIN swarm => id \notin swarm[h]
    /\ swarm' = Put(swarm, h, (IF h \in DOMAIN swarm THEN swarm[h] ELSE {}) \cup {id})
    /\ s' = [x \in Savers |-> Disturbed(s[x])]
    /\ UNCHANGED <<kind, file, up, quiet, saves>>

\* Memory.Drop, and delete by the trimmer
Leave(h, id) ==
    /\ Change
    /\ h \in DOMAIN swarm
    /\ id \in swarm[h]
    /\ swarm' = [swarm EXCEPT ![h] = @ \ {id}]
    /\ s' = [x \in Savers |-> Disturbed(s[x])]
    /\ UNCHANGED <<kind, file, up, quiet, saves>>

\* The trimmer takes an empty peermap out of the map; a saver that is at it
\* keeps its pointer
DropHash(h) ==
    /\ Change
    /\ h \in DOMAIN swarm
    /\ swarm[h] = {}
    /\ swarm' = Del(swarm, h)
    /\ s' = [x \in Savers |-> [Disturbed(s[x]) EXCEPT !.orphan = @ \/ s[x].hash = h]]
    /\ UNCHANGED <<kind, file, up, quiet, saves>>

-----------------------------------------------------------------------------
(* FileBackup.Save                                                         *)

\* The tick of RunOn, or a signal: SIGUSR1, or one to exit
SaveBegin(x, exit) ==
    /\ Serving
    /\ s[x].pc = "idle"
    /\ exit => x = "signal"
    /\ saves < MaxSaves
    /\ saves' = saves + 1
    /\ s' = [y \in Savers |->
               IF y = x THEN [Idle EXCEPT !.pc = "next", !.exit = exit,
                                 !.todo = DOMAIN swarm,
                                 !.alone = \A z \in Savers \ {x} : s[z].pc = "idle"]
               ELSE Disturbed(s[y])]
    /\ UNCHANGED <<kind, swarm, file, up, quiet, changes>>

\* Mutant of EncodeHeader: the number written is that of hashes
EncodeHeaderNoCount(x, h) ==
    /\ Serving
    /\ s[x].pc = "next"
    /\ h \in DOMAIN swarm \ s[x].visited
    /\ s' = [s EXCEPT ![x].pc = "entries", ![x].hash = h, ![x].orphan = FALSE,
                      ![x].todo = @ \ {h}, ![x].visited = @ \cup {h},
                      ![x].out = Append(@, Header(h, 1))]
    /\ UNCHANGED <<kind, swarm, file, up, quiet, changes, saves>>

\* The range over the map reaches h, and the number of its peers is read
\* before submap.mutex is taken
EncodeHeader(x, h) ==
    /\ Serving
    /\ s[x].pc = "next"
    /\ h \in DOMAIN swarm \ s[x].visited
    /\ s' = [s EXCEPT ![x].pc = "entries", ![x].hash = h, ![x].orphan = FALSE,
                      ![x].todo = @ \ {h}, ![x].visited = @ \cup {h},
                      ![x].out = Append(@, Header(h, Cardinality(swarm[h])))]
    /\ UNCHANGED <<kind, swarm, file, up, quiet, changes, saves>>

\* Mutant of EncodeEntries: the loop variable outlives the entries
EncodeEntriesKeepsHash(x) ==
    LET ids == IF s[x].orphan THEN {} ELSE swarm[s[x].hash]
    IN  /\ Serving
        /\ s[x].pc = "entries"
        /\ \E order \in SetToSeqs(ids) :
              s' = [s EXCEPT ![x].pc = "next",
                             ![x].out = @ \o [i \in DOMAIN order |-> Record(order[i])]]
        /\ UNCHANGED <<kind, swarm, file, up, quiet, changes, saves>>

\* The entries, under submap.mutex.RLock
EncodeEntries(x) ==
    LET ids == IF s[x].orphan THEN {} ELSE swarm[s[x].hash]
    IN  /\ Serving
        /\ s[x].pc = "entries"
        /\ \E order \in SetToSeqs(ids) :
              s' = [s EXCEPT ![x].pc = "next", ![x].hash = None, ![x].orphan = FALSE,
                             ![x].out = @ \o [i \in DOMAIN order |-> Record(order[i])]]
        /\ UNCHANGED <<kind, swarm, file, up, quiet, changes, saves>>

EncodeDone(x) ==
    /\ Serving
    /\ s[x].pc = "next"
    /\ s[x].todo \cap DOMAIN swarm = {}
    /\ s' = [s EXCEPT ![x].pc = "truncate"]
    /\ UNCHANGED <<kind, swarm, file, up, quiet, changes, saves>>

\* os.WriteFile opens the file with O_TRUNC, then writes it in one go
Truncate(x) ==
    /\ Serving
    /\ kind = "file"
    /\ s[x].pc = "truncate"
    /\ file' = <<>>
    /\ quiet' = None
    /\ s' = [s EXCEPT ![x].pc = "write"]
    /\ UNCHANGED <<kind, swarm, up, changes, saves>>

\* The process is gone and everything in memory with it
Gone == swarm' = EmptyMap /\ s' = [x \in Savers |-> Idle] /\ up' = "down"

\* What a saver does next: signalHandler may be on its way to exit
Saved(x) == [s EXCEPT ![x] = IF s[x].exit THEN [@ EXCEPT !.pc = "exit"] ELSE Idle]

\* The rest of os.WriteFile
Write(x) ==
    /\ Serving
    /\ s[x].pc = "write"
    /\ file' = Overwrite(file, s[x].out)
    /\ quiet' = IF s[x].alone THEN swarm ELSE None
    /\ s' = Saved(x)
    /\ UNCHANGED <<kind, swarm, up, changes, saves>>

\* PgBackup.Save inserts the row, and logs data[:20]: a panic if there is none
Insert(x) ==
    /\ Serving
    /\ kind = "pg"
    /\ s[x].pc = "truncate"
    /\ file' = s[x].out
    /\ quiet' = IF s[x].alone THEN swarm ELSE None
    /\ IF s[x].out = <<>> THEN Gone ELSE s' = Saved(x) /\ UNCHANGED <<swarm, up>>
    /\ UNCHANGED <<kind, changes, saves>>

\* os.Exit, after WriteConns
Exit(x) ==
    /\ Serving
    /\ s[x].pc = "exit"
    /\ Gone
    /\ UNCHANGED <<kind, file, quiet, changes, saves>>

-----------------------------------------------------------------------------
(* Crash and start                                                         *)

\* A crash in the middle of the write leaves any part of it
Crash ==
    /\ Crashes /\ Serving
    /\ Gone
    /\ \/ UNCHANGED <<kind, file, quiet>>
       \/ \E x \in Savers :
            /\ s[x].pc = "write"
            /\ \E k \in 0..Len(s[x].out), torn \in {<<>>, <<Cut>>} :
                 file' = SubSeq(s[x].out, 1, k) \o torn
            /\ quiet' = None
    /\ UNCHANGED <<kind, changes, saves>>

\* decodeBinary asks pools.Peers for a peer after the first header that
\* counts any, if the bytes of an id follow
ReachesPeer(data) ==
    \E i \in DOMAIN data :
        /\ IsHeader(data, i) /\ data[i].count > 0
        /\ i < Len(data)
        /\ \A j \in 1..i - 1 : IsHeader(data, j) /\ data[j].count = 0

\* PgBackup.Load logs bytes[:20]
LoadPanics(data) == kind = "pg" /\ data = <<>>

\* Run: storage.Open comes before pools.Initialize, so that pools.Peers is nil
Start ==
    /\ up = "down"
    /\ IF file = NoFile
       THEN up' = "serving" /\ swarm' = EmptyMap
       ELSE IF ReachesPeer(file) \/ LoadPanics(file)
       THEN up' = "panicked" /\ swarm' = swarm
       ELSE IF ~WellFormed(file) THEN up' = "refused" /\ swarm' = swarm
       ELSE up' = "serving" /\ swarm' = Decoded(file)
    /\ UNCHANGED <<kind, file, s, quiet, changes, saves>>

Next ==
    \/ \E h \in Hashes, id \in PeerIDs : Join(h, id) \/ Leave(h, id)
    \/ \E h \in Hashes : DropHash(h)
    \/ \E x \in Savers :
          \/ \E exit \in BOOLEAN : SaveBegin(x, exit)
          \/ \E h \in Hashes : EncodeHeader(x, h)
          \/ EncodeEntries(x) \/ EncodeDone(x) \/ Truncate(x) \/ Write(x) \/ Insert(x) \/ Exit(x)
    \/ Crash \/ Start

Spec == Init /\ [][Next]_vars

-----------------------------------------------------------------------------
TypeOK ==
    /\ kind \in Kinds
    /\ IsMap(swarm, Hashes, SUBSET PeerIDs)
    /\ file = NoFile \/ \A i \in DOMAIN file : file[i].kind \in {"header", "record", "cut"}
    /\ up \in {"down", "serving", "panicked", "refused"}
    /\ \A x \in Savers :
          /\ s[x].pc \in {"idle", "next", "entries", "truncate", "write", "exit"}
          /\ s[x].pc = "entries" => s[x].orphan \/ s[x].hash \in DOMAIN swarm
          /\ s[x].pc \in {"idle", "next", "truncate", "write", "exit"} => s[x].hash = None
          /\ up # "serving" => s[x].pc = "idle"

(* A save that had the database to itself can be read back, and gives the   *)
(* database: every hash, those without peers too, with every peer.          *)
QuietSavesAreExact ==
    quiet # None => WellFormed(file) /\ Decoded(file) = quiet

(* "Open opens and initializes given database type" (database.go:15): a     *)
(* file that decodes is loaded by the next start.                           *)
OpenLoadsBackups == up = "panicked" => ~WellFormed(file)
=============================================================================
