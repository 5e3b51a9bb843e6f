----------------------------- MODULE UdpTracker -----------------------------
(***************************************************************************)
(* The UDP tracker: the connection database that hands out and validates   *)
(* connection ids (tracker/udp/conndb.go), the workers that process        *)
(* datagrams (udptracker.go, connect.go, announce.go, scrape.go), and the  *)
(* conn.db file that carries the ids over a restart (WriteConns, called by *)
(* the signal handler; loadFromFile, called by Init).                      *)
(*                                                                         *)
(*   conndb    connectionDatabase.connectionMap; TimeStamp is kept as the  *)
(*             age of the entry, cut off where no comparison can tell      *)
(*   sock      the UDP socket: "open", "closing" once Shutdown has been    *)
(*             called and Serve has yet to close it, "closed", or "down"   *)
(*   accepted  requests that passed check and are still being processed    *)
(*   peers     the peer database, of one swarm: peer id -> address; there  *)
(*             is no peer backup here (DB.Backup.Type none)                *)
(*   file      conn.db: absent, whole, or torn in the middle of            *)
(*             os.WriteFile                                                *)
(*   sig       the signal handler: idle, saving, or saving before exit     *)
(*   sinceTrim, uptime   seconds since the last trim tick, and since Init  *)
(*                                                                         *)
(* Clients and the network are external.  Datagrams may be lost, delayed,  *)
(* reordered and, with Duplicates, delivered again; a retry repeats its    *)
(* transaction id, so transaction ids do not tell answers apart.           *)
(***************************************************************************)
EXTENDS GoMap, FiniteSets

CONSTANTS Clients, Addrs, IDs, NoID,
          Kinds,       \* the requests clients send once connected
          Validate,    \* config UDP.ConnDB.Validate
          Threads,     \* config UDP.Threads, the number of workers
          Expiry,      \* config UDP.ConnDB.Expiry
          TrimEvery,   \* config UDP.ConnDB.Trim
          Duplicates, Crashes,
          Signals,     \* the operator sends signals
          MaxNet       \* bound on the datagrams under way when a client sends

ASSUME TimesAssumption == Expiry \in Nat /\ TrimEvery \in Nat \ {0}
ASSUME ThreadsAssumption == Threads \in Nat \ {0}
ASSUME FlagsAssumption == {Validate, Duplicates, Crashes, Signals} \subseteq BOOLEAN
ASSUME KindsAssumption == Kinds \subseteq {"announce", "bad port", "stop", "scrape"}
ASSUME MaxNetAssumption == MaxNet \in Nat
ASSUME NoIDAssumption == NoID \notin IDs

VARIABLES conndb, sock, accepted, peers, file, sig, snap, sinceTrim, uptime,
          issued, net, client

server == <<conndb, sock, accepted, peers>>
timers == <<sinceTrim, uptime>>
signal == <<sig, snap>>
vars == <<conndb, sock, accepted, peers, file, sig, snap, sinceTrim, uptime,
          issued, net, client>>

-----------------------------------------------------------------------------
MaxAge == Expiry + TrimEvery + 1

ConnectionInfo == [ID : IDs, Age : 0..MaxAge]

Requests == [kind : {"connect"} \cup Kinds, from : Addrs,
             id : IDs \cup {NoID}, peer : Clients]
Answers == [kind : {"connected", "error"} \cup Kinds, to : Addrs,
            id : IDs \cup {NoID}]

Absent == [state |-> "absent", db |-> EmptyMap]
TornFile == [state |-> "torn", db |-> EmptyMap]
Whole(db) == [state |-> "whole", db |-> db]

Init ==
    /\ conndb = EmptyMap
    /\ sock = "open"
    /\ accepted = {}
    /\ peers = EmptyMap
    /\ file = Absent
    /\ sig = "idle" /\ snap = EmptyMap
    /\ sinceTrim \in 0..TrimEvery - 1 /\ uptime = 0
    /\ issued = {}
    /\ net = {}
    /\ client \in [Clients -> [addr : Addrs, phase : {"idle"}, id : {NoID}]]
    /\ \A c, d \in Clients : client[c].addr = client[d].addr => c = d

Running == sock # "down"
Receiving == sock \in {"open", "closing"}

Answer(kind, to, id) == [kind |-> kind, to |-> to, id |-> id]

\* The network after datagram m is taken from it, with nothing new in it
Taken(m) ==
    IF Duplicates /\ Cardinality(net) < MaxNet THEN {net, net \ {m}} ELSE {net \ {m}}

\* A worker is free, and the socket gives it m
Receive(m) ==
    Receiving /\ Cardinality(accepted) < Threads /\ m \in net \cap Requests

-----------------------------------------------------------------------------
(* The workers                                                             *)

\* Mutants of Connect: the zero id is stored; a connected address is not
\* answered
ConnectZero(m, id) ==
    /\ Receive(m)
    /\ m.kind = "connect"
    /\ conndb' = Put(conndb, m.from, [ID |-> NoID, Age |-> 0])
    /\ issued' = issued \cup {<<m.from, id>>}
    /\ \E rest \in Taken(m) : net' = rest \cup {Answer("connected", m.from, id)}
    /\ UNCHANGED <<sock, accepted, peers, file, signal, timers, client>>

ConnectOnce(m, id) ==
    /\ Receive(m)
    /\ m.kind = "connect"
    /\ IF m.from \in DOMAIN conndb
       THEN net' \in Taken(m) /\ UNCHANGED <<conndb, issued>>
       ELSE /\ conndb' = Put(conndb, m.from, [ID |-> id, Age |-> 0])
            /\ issued' = issued \cup {<<m.from, id>>}
            /\ \E rest \in Taken(m) : net' = rest \cup {Answer("connected", m.from, id)}
    /\ UNCHANGED <<sock, accepted, peers, file, signal, timers, client>>

\* connect: rand.Int63 may return any id; add overwrites the address's entry
Connect(m, id) ==
    /\ Receive(m)
    /\ m.kind = "connect"
    /\ conndb' = Put(conndb, m.from, [ID |-> id, Age |-> 0])
    /\ issued' = issued \cup {<<m.from, id>>}
    /\ \E rest \in Taken(m) : net' = rest \cup {Answer("connected", m.from, id)}
    /\ UNCHANGED <<sock, accepted, peers, file, signal, timers, client>>

\* Mutant of Check: an id is good for every address
CheckAnyAddress(id, addr) == \E a \in DOMAIN conndb : conndb[a].ID = id

\* connectionDatabase.check: no look at the entry's age
Check(id, addr) == addr \in DOMAIN conndb /\ conndb[addr].ID = id

\* Mutant of Process: a bad connection id is met with silence
ProcessSilent(m) ==
    /\ Receive(m)
    /\ m.kind # "connect"
    /\ net' \in Taken(m)
    /\ accepted' = IF Check(m.id, m.from) \/ ~Validate
                   THEN accepted \cup {m} ELSE accepted
    /\ UNCHANGED <<conndb, sock, peers, file, signal, timers, issued, client>>

\* process, up to the switch on the action
Process(m) ==
    /\ Receive(m)
    /\ m.kind # "connect"
    /\ \E rest \in Taken(m) :
         IF Check(m.id, m.from) \/ ~Validate
         THEN accepted' = accepted \cup {m} /\ net' = rest
         ELSE accepted' = accepted /\ net' = rest \cup {Answer("error", m.from, NoID)}
    /\ UNCHANGED <<conndb, sock, peers, file, signal, timers, issued, client>>

Finish(m, answer) ==
    /\ Running
    /\ m \in accepted
    /\ accepted' = accepted \ {m}
    /\ net' = IF Receiving THEN net \cup {Answer(answer, m.from, NoID)} ELSE net
    /\ UNCHANGED <<conndb, sock, file, signal, timers, issued, client>>

\* announce: Save under the peer id, with the address the datagram came from
Announce(m) ==
    /\ m.kind = "announce"
    /\ Finish(m, "announce")
    /\ peers' = Put(peers, m.peer, m.from)

\* announce with event stopped: Drop, whatever address it comes from
Stop(m) ==
    /\ m.kind = "stop"
    /\ Finish(m, "stop")
    /\ peers' = Del(peers, m.peer)

\* announce with port 0, and scrape, which only reads
Refuse(m) ==
    /\ m.kind = "bad port"
    /\ Finish(m, "error")
    /\ UNCHANGED peers

Scrape(m) ==
    /\ m.kind = "scrape"
    /\ Finish(m, "scrape")
    /\ UNCHANGED peers

-----------------------------------------------------------------------------
(* The trimmer, on its tick, and time                                      *)

\* Mutant of Trim: an entry is kept one second too long
TrimLate ==
    /\ Running
    /\ sinceTrim = TrimEvery
    /\ sinceTrim' = 0
    /\ conndb' = [a \in {b \in DOMAIN conndb : conndb[b].Age <= Expiry + 1} |-> conndb[a]]
    /\ UNCHANGED <<sock, accepted, peers, file, signal, uptime, issued, net, client>>

Trim ==
    /\ Running
    /\ sinceTrim = TrimEvery
    /\ sinceTrim' = 0
    /\ conndb' = [a \in {b \in DOMAIN conndb : conndb[b].Age <= Expiry} |-> conndb[a]]
    /\ UNCHANGED <<sock, accepted, peers, file, signal, uptime, issued, net, client>>

Older(db) ==
    [a \in DOMAIN db |->
        [db[a] EXCEPT !.Age = IF @ < MaxAge THEN @ + 1 ELSE @]]

Tick ==
    /\ Running => sinceTrim < TrimEvery
    /\ sinceTrim' = IF Running THEN sinceTrim + 1 ELSE 0
    /\ uptime' = IF Running /\ uptime <= TrimEvery THEN uptime + 1 ELSE uptime
    /\ conndb' = Older(conndb)
    /\ file' = [file EXCEPT !.db = Older(@)]
    /\ snap' = Older(snap)
    /\ UNCHANGED <<sock, accepted, peers, sig, issued, net, client>>

-----------------------------------------------------------------------------
(* Signals, shutdown, crash and restart                                    *)

\* SIGUSR1, or SIGINT/SIGTERM: Shutdown hands over to Serve and returns
SaveSignal ==
    /\ Signals /\ Running /\ sig = "idle"
    /\ sig' = "save"
    /\ UNCHANGED <<server, file, snap, timers, issued, net, client>>

ExitSignal ==
    /\ Signals /\ sock = "open" /\ sig = "idle"
    /\ sig' = "exit"
    /\ sock' = "closing"
    /\ UNCHANGED <<conndb, accepted, peers, file, snap, timers, issued, net, client>>

\* Serve wakes up and closes the socket
CloseSocket ==
    /\ sock = "closing"
    /\ sock' = "closed"
    /\ UNCHANGED <<conndb, accepted, peers, file, signal, timers, issued, net, client>>

\* writeToFile: gobEncode under the lock, then truncate, then write
Encode ==
    /\ sig \in {"save", "exit"}
    /\ sig' = IF sig = "save" THEN "save truncate" ELSE "exit truncate"
    /\ snap' = conndb
    /\ UNCHANGED <<server, file, timers, issued, net, client>>

Truncate ==
    /\ sig \in {"save truncate", "exit truncate"}
    /\ sig' = IF sig = "save truncate" THEN "save write" ELSE "exit write"
    /\ file' = TornFile
    /\ UNCHANGED <<server, snap, timers, issued, net, client>>

\* The process is gone and everything in memory with it
Gone ==
    /\ sock' = "down"
    /\ conndb' = EmptyMap
    /\ accepted' = {}
    /\ peers' = EmptyMap
    /\ sinceTrim' = 0 /\ uptime' = 0
    /\ sig' = "idle" /\ snap' = EmptyMap

SaveWrite ==
    /\ sig = "save write"
    /\ file' = Whole(snap)
    /\ sig' = "idle" /\ snap' = EmptyMap
    /\ UNCHANGED <<server, timers, issued, net, client>>

\* os.Exit follows the write
ExitWrite ==
    /\ sig = "exit write"
    /\ file' = Whole(snap)
    /\ Gone
    /\ UNCHANGED <<issued, net, client>>

Crash ==
    /\ Crashes /\ Running
    /\ Gone
    /\ UNCHANGED <<file, issued, net, client>>

\* Mutant of Start: what a torn file is missing decodes as zero
StartFromTorn ==
    /\ sock = "down"
    /\ sock' = "open"
    /\ conndb' = IF file.state = "torn" THEN [a \in Addrs |-> [ID |-> NoID, Age |-> 0]]
                 ELSE file.db
    /\ sinceTrim' \in 0..TrimEvery - 1
    /\ UNCHANGED <<accepted, peers, file, signal, uptime, issued, net, client>>

\* Init: an absent file or one gob cannot decode leaves an empty database.
\* RunOn waits for the next multiple of TrimEvery.
Start ==
    /\ sock = "down"
    /\ sock' = "open"
    /\ conndb' = IF file.state = "whole" THEN file.db ELSE EmptyMap
    /\ sinceTrim' \in 0..TrimEvery - 1
    /\ UNCHANGED <<accepted, peers, file, signal, uptime, issued, net, client>>

-----------------------------------------------------------------------------
(* Clients and the network                                                 *)

SendConnect(c) ==
    /\ client[c].phase \in {"idle", "connecting"}
    /\ Cardinality(net) < MaxNet
    /\ client' = [client EXCEPT ![c].phase = "connecting"]
    /\ net' = net \cup {[kind |-> "connect", from |-> client[c].addr,
                         id |-> NoID, peer |-> c]}
    /\ UNCHANGED <<server, file, signal, timers, issued>>

SendRequest(c, kind) ==
    /\ client[c].phase \in {"connected", "waiting"}
    /\ Cardinality(net) < MaxNet
    /\ client' = [client EXCEPT ![c].phase = "waiting"]
    /\ net' = net \cup {[kind |-> kind, from |-> client[c].addr,
                         id |-> client[c].id, peer |-> c]}
    /\ UNCHANGED <<server, file, signal, timers, issued>>

\* An error sends the client back to connecting
Deliver(m, c) ==
    /\ m \in net \cap Answers
    /\ client[c].addr = m.to
    /\ net' \in Taken(m)
    /\ client' = [client EXCEPT ![c] =
         IF @.phase = "connecting" /\ m.kind = "connected"
         THEN [@ EXCEPT !.phase = "connected", !.id = m.id]
         ELSE IF @.phase = "waiting" /\ m.kind = "error"
         THEN [@ EXCEPT !.phase = "idle", !.id = NoID]
         ELSE IF @.phase = "waiting" /\ m.kind \in Kinds
         THEN [@ EXCEPT !.phase = "connected"]
         ELSE @]
    /\ UNCHANGED <<server, file, signal, timers, issued>>

Lose(m) ==
    /\ m \in net
    /\ net' = net \ {m}
    /\ UNCHANGED <<server, file, signal, timers, issued, client>>

\* A NAT gives the client another address
Rebind(c) ==
    /\ \E a \in Addrs : /\ \A d \in Clients : client[d].addr # a
                        /\ client' = [client EXCEPT ![c].addr = a]
    /\ UNCHANGED <<server, file, signal, timers, issued, net>>

-----------------------------------------------------------------------------
Work(m) == Announce(m) \/ Stop(m) \/ Refuse(m) \/ Scrape(m)

SignalStep == Encode \/ Truncate \/ SaveWrite \/ ExitWrite

Next ==
    \/ \E m \in net : Process(m) \/ Lose(m) \/ \E id \in IDs : Connect(m, id)
    \/ \E m \in accepted : Work(m)
    \/ Trim \/ Tick
    \/ SaveSignal \/ ExitSignal \/ CloseSocket \/ SignalStep \/ Crash \/ Start
    \/ \E c \in Clients :
          \/ SendConnect(c) \/ Rebind(c)
          \/ \E kind \in Kinds : SendRequest(c, kind)
          \/ \E m \in net : Deliver(m, c)

Spec == Init /\ [][Next]_vars

(* The scheduler runs every goroutine, the operator restarts the tracker,   *)
(* and clients retry; the network may lose any datagram but not all copies  *)
(* of one that is sent for ever.  Nothing makes time pass, a signal arrive  *)
(* or the process crash, and nothing keeps them from happening at will.     *)
FairSpec ==
    /\ Spec
    /\ WF_vars(CloseSocket) /\ WF_vars(SignalStep) /\ WF_vars(Start)
    /\ \A c \in Clients :
          /\ SF_vars(SendConnect(c) /\ net' # net)
          /\ SF_vars(\E kind \in Kinds : SendRequest(c, kind) /\ net' # net)
          /\ SF_vars(\E m \in net \cap Requests :
                        m.peer = c /\ (Process(m) \/ \E id \in IDs : Connect(m, id)))
          /\ SF_vars(\E m \in accepted : m.peer = c /\ Work(m))
          /\ SF_vars(\E m \in net : Deliver(m, c) /\ m \notin net')

-----------------------------------------------------------------------------
\* db is a connection database
IsConnDb(db) == IsMap(db, Addrs, ConnectionInfo)

TypeOK ==
    /\ IsConnDb(conndb) /\ IsConnDb(snap) /\ IsConnDb(file.db)
    /\ file.state \in {"absent", "torn", "whole"}
    /\ sock \in {"open", "closing", "closed", "down"}
    /\ sig \in {"idle", "save", "exit", "save truncate", "exit truncate",
                "save write", "exit write"}
    /\ accepted \subseteq Requests
    /\ IsMap(peers, Clients, Addrs)
    /\ sinceTrim \in 0..TrimEvery /\ uptime \in 0..TrimEvery + 1
    /\ issued \subseteq Addrs \X IDs
    /\ net \subseteq Requests \cup Answers
    /\ client \in [Clients -> [addr : Addrs, phase : {"idle", "connecting",
                                 "connected", "waiting"}, id : IDs \cup {NoID}]]

\* Every entry of db was handed out by connect, to the address it is under
Genuine(db) == \A a \in DOMAIN db : <<a, db[a].ID>> \in issued

(* A connection id is good for the address connect gave it to and for no    *)
(* other, through trims, saves that are cut short, crashes and restarts     *)
(* from whatever conn.db holds.                                             *)
OnlyIssuedIDs == Genuine(conndb)

(* With validation on, no request is served unless connect had answered its *)
(* address with the id it carries, so no address gets into the swarm that   *)
(* never asked for a connection: datagrams delayed past a restart, repeated *)
(* or sent after the client's address changed change nothing about that.    *)
ServedOnlyAfterConnect ==
    Validate =>
        /\ \A m \in accepted : <<m.from, m.id>> \in issued
        /\ \A c \in DOMAIN peers : \E id \in IDs : <<peers[c], id>> \in issued

(* check never looks at TimeStamp, trim alone enforces Expiry: the oldest   *)
(* id a running tracker accepts is Expiry plus one trim interval old.  The  *)
(* exception is the first interval after a start, when conn.db may have     *)
(* brought back ids of any age, trimmed ones included.                      *)
IDsExpire ==
    uptime > TrimEvery => \A a \in DOMAIN conndb : conndb[a].Age <= Expiry + TrimEvery

StaysUp == <>[](sock = "open")

(* Once the tracker stays up, a client that keeps asking for a connection   *)
(* gets one, whatever is lost or trimmed on the way and whatever crash or   *)
(* torn conn.db came before.                                                *)
ConnectsAreAnswered ==
    StaysUp => \A c \in Clients :
        client[c].phase = "connecting" ~> client[c].phase = "connected"

(* And one that keeps repeating a request gets an answer to it: an id the   *)
(* tracker has forgotten or replaced is answered with an error, not silence.*)
RequestsAreAnswered ==
    StaysUp => \A c \in Clients :
        client[c].phase = "waiting" ~> client[c].phase # "waiting"
=============================================================================
