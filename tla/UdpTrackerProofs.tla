-------------------------- MODULE UdpTrackerProofs --------------------------
(***************************************************************************)
(* For any number of clients, addresses and ids, any network and any       *)
(* pattern of crashes and signals: connection ids stay with the address    *)
(* connect gave them to, only their holders are served, and none of them   *)
(* lives for long.  Then the bytes: for numbers, structs and datagrams of  *)
(* any content, what one side writes is what the other side reads.         *)
(***************************************************************************)
EXTENDS UdpWire, SequenceTheorems, NaturalsInduction, WellFoundedInduction, TLAPS

Dbs == IsConnDb(conndb) /\ IsConnDb(snap) /\ IsConnDb(file.db)

(* The database comes back from snap through file, so both must be genuine  *)
(* too; a served request was accepted, so accepted is what peers rests on.  *)
IInv ==
    /\ Dbs
    /\ file = [state |-> file.state, db |-> file.db]
    /\ issued \subseteq Addrs \X IDs
    /\ Genuine(conndb) /\ Genuine(snap) /\ Genuine(file.db)
    /\ accepted \subseteq Requests
    /\ DOMAIN peers \subseteq Clients
    /\ ServedOnlyAfterConnect

(* No database, nothing to show.                                            *)
LEMMA EmptyOK == IsConnDb(EmptyMap) /\ Genuine(EmptyMap)
  BY DEF IsConnDb, IsMap, EmptyMap, Genuine

(* Time changes no id.                                                      *)
LEMMA OlderOK ==
    ASSUME NEW db, IsConnDb(db), Genuine(db)
    PROVE  IsConnDb(Older(db)) /\ Genuine(Older(db))
  <1>1. /\ DOMAIN Older(db) = DOMAIN db
        /\ \A a \in DOMAIN db : Older(db)[a] =
              [db[a] EXCEPT !.Age = IF db[a].Age < MaxAge THEN db[a].Age + 1 ELSE db[a].Age]
    BY DEF Older
  <1>2. \A a \in DOMAIN db : db[a] \in ConnectionInfo
    BY DEF IsConnDb, IsMap
  <1>3. MaxAge \in Nat
    BY TimesAssumption DEF MaxAge
  <1>4. \A a \in DOMAIN db : /\ Older(db)[a] \in ConnectionInfo
                             /\ Older(db)[a].ID = db[a].ID
    BY <1>1, <1>2, <1>3 DEF ConnectionInfo
  <1>5. Older(db) \in [DOMAIN Older(db) -> ConnectionInfo]
    BY <1>1, <1>4 DEF Older
  <1>6. QED
    BY <1>1, <1>4, <1>5 DEF IsConnDb, IsMap, Genuine

(* A database stays genuine when connect hands out more ids.                *)
LEMMA ConnectOK ==
    ASSUME IInv, NEW m \in net, NEW id \in IDs, Connect(m, id)
    PROVE  IInv'
  <1>1. m \in Requests
    BY DEF Connect, Receive
  <1>2. m.from \in Addrs
    BY <1>1 DEF Requests
  <1>3. /\ conndb' = Put(conndb, m.from, [ID |-> id, Age |-> 0])
        /\ issued' = issued \cup {<<m.from, id>>}
        /\ UNCHANGED <<sock, accepted, peers, file, sig, snap>>
    BY DEF Connect, signal
  <1>4. [ID |-> id, Age |-> 0] \in ConnectionInfo
    BY TimesAssumption DEF ConnectionInfo, MaxAge
  <1>5. IsConnDb(conndb')
    BY <1>2, <1>3, <1>4 DEF IInv, Dbs, IsConnDb, IsMap, Put
  <1>6. /\ \A a \in DOMAIN conndb' : <<a, conndb'[a].ID>> \in issued'
        /\ \A a \in DOMAIN snap' : <<a, snap'[a].ID>> \in issued'
        /\ \A a \in DOMAIN file'.db : <<a, file'.db[a].ID>> \in issued'
    BY <1>3 DEF IInv, Genuine, Put
  <1>7. issued' \subseteq Addrs \X IDs
    BY <1>2, <1>3 DEF IInv
  <1>8. ServedOnlyAfterConnect'
    BY <1>3 DEF IInv, ServedOnlyAfterConnect
  <1>9. QED
    BY <1>3, <1>5, <1>6, <1>7, <1>8 DEF IInv, Dbs, Genuine

(* check only lets through the id that connect put there.                   *)
LEMMA ProcessOK ==
    ASSUME IInv, NEW m \in net, Process(m)
    PROVE  IInv'
  <1>1. m \in Requests
    BY DEF Process, Receive
  <1>2. UNCHANGED <<conndb, sock, peers, file, sig, snap, issued>>
    BY DEF Process, signal
  <1>3. \/ accepted' = accepted
        \/ accepted' = accepted \cup {m} /\ (Check(m.id, m.from) \/ ~Validate)
    BY DEF Process
  <1>4. Check(m.id, m.from) => <<m.from, m.id>> \in issued
    BY DEF IInv, Genuine, Check
  <1>5. ServedOnlyAfterConnect'
    BY <1>2, <1>3, <1>4 DEF IInv, ServedOnlyAfterConnect
  <1>6. accepted' \subseteq Requests
    BY <1>1, <1>3 DEF IInv
  <1>7. QED
    BY <1>2, <1>5, <1>6 DEF IInv, Dbs, Genuine

(* Only accepted requests reach the peer database.                          *)
LEMMA WorkOK ==
    ASSUME IInv, NEW m \in accepted, Work(m)
    PROVE  IInv'
  <1>1. /\ UNCHANGED <<conndb, sock, file, sig, snap, issued>>
        /\ accepted' = accepted \ {m}
    BY DEF Work, Announce, Stop, Refuse, Scrape, Finish, signal
  <1>2. \/ peers' = Put(peers, m.peer, m.from)
        \/ peers' = Del(peers, m.peer)
        \/ peers' = peers
    BY DEF Work, Announce, Stop, Refuse, Scrape
  <1>3. /\ m \in Requests /\ m.peer \in Clients
        /\ Validate => <<m.from, m.id>> \in issued /\ m.id \in IDs
    BY DEF IInv, ServedOnlyAfterConnect, Requests
  <1>4. DOMAIN peers' \subseteq Clients
    BY <1>2, <1>3 DEF IInv, Put, Del
  <1>5. ServedOnlyAfterConnect'
    <2> SUFFICES ASSUME Validate
                 PROVE  /\ \A n \in accepted' : <<n.from, n.id>> \in issued
                        /\ \A c \in DOMAIN peers' : \E id \in IDs : <<peers'[c], id>> \in issued
      BY <1>1 DEF ServedOnlyAfterConnect
    <2>1. \A c \in DOMAIN peers : \E id \in IDs : <<peers[c], id>> \in issued
      BY DEF IInv, ServedOnlyAfterConnect
    <2>2. \A c \in DOMAIN peers' :
             \/ c \in DOMAIN peers /\ peers'[c] = peers[c]
             \/ peers'[c] = m.from
      BY <1>2 DEF Put, Del
    <2>3. QED
      BY <1>1, <1>3, <2>1, <2>2 DEF IInv, ServedOnlyAfterConnect
  <1>6. QED
    BY <1>1, <1>4, <1>5 DEF IInv, Dbs, Genuine

(* Trimming only forgets entries.                                           *)
LEMMA TrimOK ==
    ASSUME IInv, Trim
    PROVE  IInv'
  <1>1. /\ conndb' = [a \in {b \in DOMAIN conndb : conndb[b].Age <= Expiry} |-> conndb[a]]
        /\ UNCHANGED <<accepted, peers, file, snap, issued>>
    BY DEF Trim, signal
  <1>2. IsConnDb(conndb')
    BY <1>1 DEF IInv, Dbs, IsConnDb, IsMap
  <1>3. Genuine(conndb)'
    BY <1>1 DEF IInv, Genuine
  <1>4. ServedOnlyAfterConnect'
    BY <1>1 DEF IInv, ServedOnlyAfterConnect
  <1>5. QED
    BY <1>1, <1>2, <1>3, <1>4 DEF IInv, Dbs, Genuine, IsConnDb

(* The three copies of the database age together.                           *)
LEMMA TickOK ==
    ASSUME IInv, Tick
    PROVE  IInv'
  <1>1. /\ conndb' = Older(conndb) /\ snap' = Older(snap)
        /\ file' = [file EXCEPT !.db = Older(@)]
        /\ UNCHANGED <<accepted, peers, issued>>
    BY DEF Tick
  <1>2. /\ IsConnDb(Older(conndb)) /\ Genuine(Older(conndb))
        /\ IsConnDb(Older(snap)) /\ Genuine(Older(snap))
        /\ IsConnDb(Older(file.db)) /\ Genuine(Older(file.db))
    BY OlderOK DEF IInv, Dbs
  <1>3. file' = [state |-> file.state, db |-> Older(file.db)]
    BY <1>1 DEF IInv
  <1>4. ServedOnlyAfterConnect'
    BY <1>1 DEF IInv, ServedOnlyAfterConnect
  <1>5. file'.db = Older(file.db) /\ file'.state = file.state
    BY <1>3
  <1>6. IsConnDb(conndb') /\ IsConnDb(snap') /\ IsConnDb(file'.db)
    BY <1>1, <1>2, <1>5
  <1>7. Genuine(conndb)' /\ Genuine(snap)' /\ Genuine(file.db)'
    BY <1>1, <1>2, <1>5 DEF Genuine
  <1>8. QED
    BY <1>1, <1>3, <1>4, <1>5, <1>6, <1>7 DEF IInv, Dbs, IsConnDb

(* When the process is gone nothing is accepted and nobody is in the swarm. *)
LEMMA GoneOK ==
    ASSUME IInv, Gone, UNCHANGED issued, \/ UNCHANGED file
                                         \/ file' = Whole(snap)
    PROVE  IInv'
  <1>1. /\ conndb' = EmptyMap /\ snap' = EmptyMap /\ accepted' = {} /\ peers' = EmptyMap
        /\ issued' = issued
    BY DEF Gone
  <1>2. DOMAIN EmptyMap = {}
    BY DEF EmptyMap
  <1>3. ServedOnlyAfterConnect'
    BY <1>1, <1>2 DEF ServedOnlyAfterConnect
  <1>4. Genuine(conndb)' /\ Genuine(snap)'
    BY <1>1, <1>2 DEF Genuine
  <1>5. file'.db = file.db \/ file'.db = snap
    BY DEF Whole
  <1>6. file' = [state |-> file'.state, db |-> file'.db]
    BY DEF Whole, IInv
  <1>7. Genuine(file.db)'
    BY <1>1, <1>5 DEF Genuine, IInv
  <1>8. Dbs'
    BY <1>1, <1>5, EmptyOK DEF Dbs, IInv, IsConnDb
  <1>9. QED
    BY <1>1, <1>2, <1>3, <1>4, <1>6, <1>7, <1>8 DEF IInv

(* conn.db holds what was encoded from the database, or nothing usable.     *)
LEMMA SignalOK ==
    ASSUME IInv, SignalStep
    PROVE  IInv'
  <1>1. CASE Encode
    <2>1. snap' = conndb /\ UNCHANGED <<conndb, accepted, peers, file, issued>>
      BY <1>1 DEF Encode, server
    <2>2. QED
      BY <2>1 DEF IInv, Dbs, Genuine, ServedOnlyAfterConnect, IsConnDb
  <1>2. CASE Truncate
    <2>1. file' = TornFile /\ UNCHANGED <<conndb, accepted, peers, snap, issued>>
      BY <1>2 DEF Truncate, server
    <2>2. file' = [state |-> file'.state, db |-> file'.db] /\ file'.db = EmptyMap
      BY <2>1 DEF TornFile
    <2>3. QED
      BY <2>1, <2>2, EmptyOK DEF IInv, Dbs, Genuine, ServedOnlyAfterConnect, IsConnDb, EmptyMap
  <1>3. CASE SaveWrite
    <2>1. /\ file' = Whole(snap) /\ snap' = EmptyMap
          /\ UNCHANGED <<conndb, accepted, peers, issued>>
      BY <1>3 DEF SaveWrite, server
    <2>2. file' = [state |-> file'.state, db |-> file'.db] /\ file'.db = snap
      BY <2>1 DEF Whole
    <2>3. QED
      BY <2>1, <2>2, EmptyOK DEF IInv, Dbs, Genuine, ServedOnlyAfterConnect, IsConnDb, EmptyMap
  <1>4. CASE ExitWrite
    BY <1>4, GoneOK DEF ExitWrite
  <1>5. QED
    BY <1>1, <1>2, <1>3, <1>4 DEF SignalStep

(* A restart reads back what conn.db holds.                                 *)
LEMMA StartOK ==
    ASSUME IInv, Start
    PROVE  IInv'
  <1>1. /\ conndb' = file.db \/ conndb' = EmptyMap
        /\ UNCHANGED <<accepted, peers, file, snap, issued>>
    BY DEF Start, signal
  <1>2. IsConnDb(conndb')
    BY <1>1, EmptyOK DEF IInv, Dbs
  <1>3. Genuine(conndb)'
    BY <1>1 DEF IInv, Genuine, EmptyMap
  <1>4. QED
    BY <1>1, <1>2, <1>3 DEF IInv, Dbs, Genuine, ServedOnlyAfterConnect, IsConnDb

(* What clients and the network do, and the start of a shutdown, leaves the *)
(* tracker's memory and its file alone.                                     *)
LEMMA OutsideOK ==
    ASSUME IInv, UNCHANGED <<conndb, accepted, peers, file, snap, issued>>
    PROVE  IInv'
  BY DEF IInv, Dbs, Genuine, ServedOnlyAfterConnect, IsConnDb, IsMap

LEMMA InitOK == Init => IInv
  <1> SUFFICES ASSUME Init PROVE IInv
    OBVIOUS
  <1>1. /\ conndb = EmptyMap /\ snap = EmptyMap /\ peers = EmptyMap
        /\ accepted = {} /\ issued = {}
        /\ file = [state |-> "absent", db |-> EmptyMap]
    BY DEF Init, Absent
  <1>2. file.db = EmptyMap /\ file.state = "absent"
    BY <1>1
  <1>3. ServedOnlyAfterConnect /\ DOMAIN peers \subseteq Clients
    BY <1>1 DEF ServedOnlyAfterConnect, EmptyMap
  <1>4. QED
    BY <1>1, <1>2, <1>3, EmptyOK DEF IInv, Dbs

LEMMA NextOK == IInv /\ [Next]_vars => IInv'
  <1> SUFFICES ASSUME IInv, [Next]_vars PROVE IInv'
    OBVIOUS
  <1>1. CASE \E m \in net : Process(m)
    BY <1>1, ProcessOK
  <1>2. CASE \E m \in net, id \in IDs : Connect(m, id)
    BY <1>2, ConnectOK
  <1>3. CASE \E m \in accepted : Work(m)
    BY <1>3, WorkOK
  <1>4. CASE Trim
    BY <1>4, TrimOK
  <1>5. CASE Tick
    BY <1>5, TickOK
  <1>6. CASE SignalStep
    BY <1>6, SignalOK
  <1>7. CASE Crash
    BY <1>7, GoneOK DEF Crash
  <1>8. CASE Start
    BY <1>8, StartOK
  <1>9. CASE SaveSignal \/ ExitSignal \/ CloseSocket
    BY <1>9, OutsideOK DEF SaveSignal, ExitSignal, CloseSocket, server, signal
  <1>10. CASE \E m \in net : Lose(m) \/ \E c \in Clients : Deliver(m, c)
    BY <1>10, OutsideOK DEF Lose, Deliver, server, signal
  <1>11. CASE \E c \in Clients : \/ SendConnect(c) \/ Rebind(c)
                                 \/ \E kind \in Kinds : SendRequest(c, kind)
    BY <1>11, OutsideOK DEF SendConnect, Rebind, SendRequest, server, signal
  <1>12. CASE UNCHANGED vars
    BY <1>12, OutsideOK DEF vars
  <1>13. QED
    BY <1>1, <1>2, <1>3, <1>4, <1>5, <1>6, <1>7, <1>8, <1>9, <1>10, <1>11, <1>12 DEF Next

-----------------------------------------------------------------------------
(* The invariant the other theorems rest on, for every behaviour of the     *)
(* tracker, its clients and the network.                                    *)
THEOREM Invariance == Spec => []IInv
  <1>. QED BY InitOK, NextOK, PTL DEF Spec

(* connectionDatabase holds no id that connect did not hand to the address  *)
(* it is under, whatever conn.db brings back.                               *)
THEOREM IDsAreIssued == Spec => []OnlyIssuedIDs
  <1>1. IInv => OnlyIssuedIDs
    BY DEF IInv, OnlyIssuedIDs
  <1>. QED BY <1>1, Invariance, PTL

(* With Validate on, process serves nobody who was not issued an id: every  *)
(* address in the swarm is one that connect answered.                       *)
THEOREM ServiceNeedsConnect == Spec => []ServedOnlyAfterConnect
  <1>1. IInv => ServedOnlyAfterConnect
    BY DEF IInv
  <1>. QED BY <1>1, Invariance, PTL
-----------------------------------------------------------------------------
\* No entry has lived longer than since it was last spared by the trimmer
Young == \A a \in DOMAIN conndb : conndb[a].Age <= Expiry + sinceTrim

(* An entry that IDsExpire allows may be too old for the next second:       *)
(* what keeps the bound is that the age it may have grows with sinceTrim,   *)
(* once the process has been up for longer than sinceTrim.                  *)
Ages ==
    /\ sinceTrim \in 0..TrimEvery /\ uptime \in 0..TrimEvery + 1
    /\ ~Running => conndb = EmptyMap /\ uptime = 0
    /\ Young \/ uptime <= sinceTrim

LEMMA AgesInitOK == Init => Ages
  BY TimesAssumption DEF Init, Ages, Young, EmptyMap, Running

(* Entries come in with age zero, or when the process has just started.     *)
LEMMA AgesNextOK == IInv /\ Ages /\ [Next]_vars => Ages'
  <1> SUFFICES ASSUME IInv, Ages, [Next]_vars PROVE Ages'
    OBVIOUS
  <1> USE TimesAssumption DEF Ages
  <1>1. \A a \in DOMAIN conndb : conndb[a].Age \in Nat
    BY DEF IInv, Dbs, IsConnDb, IsMap, ConnectionInfo
  <1>2. ASSUME NEW m \in net, NEW id \in IDs, Connect(m, id) PROVE Ages'
    <2>1. /\ conndb' = Put(conndb, m.from, [ID |-> id, Age |-> 0])
          /\ UNCHANGED <<sinceTrim, uptime, sock>> /\ Running
      BY <1>2 DEF Connect, Receive, Receiving, Running, timers
    <2>2. \A a \in DOMAIN conndb' :
             conndb'[a].Age = 0 \/ (a \in DOMAIN conndb /\ conndb'[a] = conndb[a])
      BY <2>1 DEF Put
    <2>3. QED
      BY <2>1, <2>2 DEF Young, Running
  <1>3. CASE Trim
    <2>1. sinceTrim' = 0 /\ UNCHANGED <<uptime, sock>> /\ Running
      BY <1>3 DEF Trim
    <2>2. Young'
      BY <1>3, <2>1 DEF Trim, Young
    <2>3. QED
      BY <2>1, <2>2 DEF Running
  <1>4. CASE Tick
    <2>1. sock' = sock /\ conndb' = Older(conndb)
      BY <1>4 DEF Tick
    <2>2. /\ DOMAIN conndb' = DOMAIN conndb
          /\ \A a \in DOMAIN conndb : /\ conndb'[a].Age \in Nat
                                     /\ conndb'[a].Age <= conndb[a].Age + 1
      <3>1. \A a \in DOMAIN conndb : conndb[a] \in ConnectionInfo
        BY DEF IInv, Dbs, IsConnDb, IsMap
      <3>2. QED
        BY <1>1, <2>1, <3>1 DEF Older, ConnectionInfo
    <2>3. CASE Running
      <3>1. sinceTrim' = sinceTrim + 1 /\ sinceTrim < TrimEvery
        BY <1>4, <2>3 DEF Tick
      <3>2. uptime' = IF uptime <= TrimEvery THEN uptime + 1 ELSE uptime
        BY <1>4, <2>3 DEF Tick
      <3>3. ASSUME Young, NEW a \in DOMAIN conndb
            PROVE  conndb'[a].Age <= Expiry + (sinceTrim + 1)
        BY <1>1, <2>2, <3>3 DEF Young
      <3>4. QED
        BY <2>1, <2>2, <2>3, <3>1, <3>2, <3>3 DEF Running, Young
    <2>4. CASE ~Running
      <3>1. sinceTrim' = 0 /\ uptime' = 0 /\ DOMAIN conndb = {}
        BY <1>4, <2>4 DEF Tick, EmptyMap
      <3>2. conndb' = EmptyMap
        BY <2>1, <3>1 DEF Older, EmptyMap
      <3>3. QED
        BY <2>1, <2>4, <3>1, <3>2 DEF Running
    <2>5. QED
      BY <2>3, <2>4
  <1>5. CASE Gone
    BY <1>5 DEF Gone, Young, EmptyMap, Running
  <1>6. CASE Start
    BY <1>6 DEF Start, timers, Running
  <1>7. ASSUME UNCHANGED <<conndb, timers>>, sock' = "down" <=> sock = "down"
        PROVE  Ages'
    BY <1>7 DEF timers, Young, Running
  <1>8. ASSUME NEW m \in net, Process(m) \/ Lose(m) \/ \E c \in Clients : Deliver(m, c)
        PROVE  Ages'
    BY <1>7, <1>8 DEF Process, Lose, Deliver, server
  <1>9. ASSUME NEW m \in accepted, Work(m) PROVE Ages'
    BY <1>7, <1>9 DEF Work, Announce, Stop, Refuse, Scrape, Finish
  <1>10. CASE SaveSignal \/ ExitSignal \/ CloseSocket \/ SignalStep \/ Crash
    BY <1>5, <1>7, <1>10 DEF SaveSignal, ExitSignal, CloseSocket, SignalStep, Encode,
       Truncate, SaveWrite, ExitWrite, Crash, server
  <1>11. CASE \E c \in Clients : \/ SendConnect(c) \/ Rebind(c)
                                 \/ \E kind \in Kinds : SendRequest(c, kind)
    BY <1>7, <1>11 DEF SendConnect, Rebind, SendRequest, server
  <1>12. CASE UNCHANGED vars
    BY <1>7, <1>12 DEF vars, timers
  <1>13. QED
    BY <1>2, <1>3, <1>4, <1>6, <1>8, <1>9, <1>10, <1>11, <1>12 DEF Next

(* No id that a tracker accepts is older than Expiry and an interval of the *)
(* trimmer, once the first interval after its start is over.                *)
THEOREM IDsAreShortLived == Spec => []IDsExpire
  <1>1. IInv /\ Ages => IDsExpire
    <2> SUFFICES ASSUME Dbs, Ages, uptime > TrimEvery, NEW a \in DOMAIN conndb
                 PROVE  conndb[a].Age <= Expiry + TrimEvery
      BY DEF IInv, IDsExpire
    <2>1. conndb[a].Age \in Nat
      BY DEF Dbs, IsConnDb, IsMap, ConnectionInfo
    <2>2. QED
      BY <2>1, TimesAssumption DEF Ages, Young
  <1>2. Spec => []Ages
    BY AgesInitOK, AgesNextOK, Invariance, PTL DEF Spec
  <1>3. QED
    BY <1>1, <1>2, Invariance, PTL
-----------------------------------------------------------------------------
Client == [addr : Addrs, phase : {"idle", "connecting", "connected", "waiting"},
           id : IDs \cup {NoID}]

(* The conjuncts of TypeOK that IInv and Ages do not have.                  *)
Others ==
    /\ file.state \in {"absent", "torn", "whole"}
    /\ sock \in {"open", "closing", "closed", "down"}
    /\ sig \in {"idle", "save", "exit", "save truncate", "exit truncate",
                "save write", "exit write"}
    /\ IsMap(peers, Clients, Addrs)
    /\ net \subseteq Requests \cup Answers
    /\ client \in [Clients -> Client]

LEMMA OthersInitOK == Init => Others
  BY DEF Init, Others, Absent, IsMap, EmptyMap, Client

(* A worker puts an answer to the sender into the network, or nothing.      *)
LEMMA AnswersOK ==
    ASSUME Others, NEW m, m.from \in Addrs, NEW id \in IDs \cup {NoID},
           NEW kind \in {"connected", "error"} \cup Kinds,
           NEW rest, rest \subseteq net, net' \in {rest, rest \cup {Answer(kind, m.from, id)}}
    PROVE  net' \subseteq Requests \cup Answers
  <1>1. [kind |-> kind, to |-> m.from, id |-> id] \in Answers
    BY DEF Answers
  <1>2. QED
    BY <1>1 DEF Others, Answer

LEMMA OthersNextOK == IInv /\ Others /\ [Next]_vars => Others'
  <1> SUFFICES ASSUME IInv, Others, [Next]_vars PROVE Others'
    OBVIOUS
  <1>1. \A m \in net \cap Requests : m.from \in Addrs
    BY DEF Requests
  <1>2. \A m \in accepted : m.from \in Addrs /\ m.peer \in Clients
                            /\ m.kind \in {"connect"} \cup Kinds
    BY DEF IInv, Requests
  <1>3. \A m \in net : \A rest \in Taken(m) : rest \subseteq net
    BY DEF Taken
  <1>4. ASSUME NEW m \in net, NEW id \in IDs, Connect(m, id) PROVE Others'
    <2>1. UNCHANGED <<file, sock, sig, peers, client>>
      BY <1>4 DEF Connect, signal
    <2>2. PICK rest \in Taken(m) : net' = rest \cup {Answer("connected", m.from, id)}
      BY <1>4 DEF Connect
    <2>3. net' \subseteq Requests \cup Answers
      BY <1>1, <1>3, <1>4, <2>2, AnswersOK DEF Connect, Receive
    <2>4. QED
      BY <2>1, <2>3 DEF Others
  <1>5. ASSUME NEW m \in net, Process(m) PROVE Others'
    <2>1. UNCHANGED <<file, sock, sig, peers, client>>
      BY <1>5 DEF Process, signal
    <2>2. PICK rest \in Taken(m) : net' \in {rest, rest \cup {Answer("error", m.from, NoID)}}
      BY <1>5 DEF Process
    <2>3. net' \subseteq Requests \cup Answers
      BY <1>1, <1>3, <1>5, <2>2, AnswersOK DEF Process, Receive
    <2>4. QED
      BY <2>1, <2>3 DEF Others
  <1>6. ASSUME NEW m \in accepted, Work(m) PROVE Others'
    <2>1. UNCHANGED <<file, sock, sig, client>>
      BY <1>6 DEF Work, Announce, Stop, Refuse, Scrape, Finish, signal
    <2>2. PICK kind \in {"error"} \cup Kinds :
             net' \in {net, net \cup {Answer(kind, m.from, NoID)}}
      BY <1>2, <1>6 DEF Work, Announce, Stop, Refuse, Scrape, Finish
    <2>3. net' \subseteq Requests \cup Answers
      BY <1>2, <2>2, AnswersOK
    <2>4. peers' \in {peers, Put(peers, m.peer, m.from), Del(peers, m.peer)}
      BY <1>6 DEF Work, Announce, Stop, Refuse, Scrape
    <2>5. IsMap(peers', Clients, Addrs)
      BY <1>2, <2>4 DEF Others, IsMap, Put, Del
    <2>6. QED
      BY <2>1, <2>3, <2>5 DEF Others
  <1>7. ASSUME NEW m \in net, NEW c \in Clients, Deliver(m, c) PROVE Others'
    <2>1. UNCHANGED <<file, sock, sig, peers>> /\ m \in Answers /\ net' \subseteq net
      BY <1>3, <1>7 DEF Deliver, server, signal
    <2>2. PICK new \in {client[c], [client[c] EXCEPT !.phase = "connected", !.id = m.id],
                        [client[c] EXCEPT !.phase = "idle", !.id = NoID],
                        [client[c] EXCEPT !.phase = "connected"]} :
             client' = [client EXCEPT ![c] = new]
      BY <1>7 DEF Deliver
    <2>3. client[c] \in Client /\ m.id \in IDs \cup {NoID}
      BY <2>1 DEF Others, Answers
    <2>4. new \in Client
      BY <2>2, <2>3 DEF Client
    <2>5. QED
      BY <2>1, <2>2, <2>4 DEF Others
  <1>8. ASSUME NEW m \in net, Lose(m) PROVE Others'
    BY <1>8 DEF Lose, server, signal, Others
  <1>9. ASSUME NEW c \in Clients, SendConnect(c) \/ \E kind \in Kinds : SendRequest(c, kind)
        PROVE  Others'
    <2>1. UNCHANGED <<file, sock, sig, peers>>
      BY <1>9 DEF SendConnect, SendRequest, server, signal
    <2>2. client[c] \in Client
      BY DEF Others
    <2>3. PICK kind \in {"connect"} \cup Kinds, id \in IDs \cup {NoID} :
             net' = net \cup {[kind |-> kind, from |-> client[c].addr, id |-> id, peer |-> c]}
      BY <1>9, <2>2 DEF SendConnect, SendRequest, Client
    <2>4. [kind |-> kind, from |-> client[c].addr, id |-> id, peer |-> c] \in Requests
      BY <2>2 DEF Client, Requests
    <2>5. PICK phase \in {"connecting", "waiting"} : client' = [client EXCEPT ![c].phase = phase]
      BY <1>9 DEF SendConnect, SendRequest
    <2>6. client' \in [Clients -> Client]
      BY <2>5 DEF Others, Client
    <2>7. QED
      BY <2>1, <2>3, <2>4, <2>6 DEF Others
  <1>10. ASSUME NEW c \in Clients, Rebind(c) PROVE Others'
    <2>1. PICK a \in Addrs : client' = [client EXCEPT ![c].addr = a]
      BY <1>10 DEF Rebind
    <2>2. client' \in [Clients -> Client]
      BY <2>1 DEF Others, Client
    <2>3. QED
      BY <1>10, <2>2 DEF Rebind, server, signal, Others
  <1>11. CASE Trim \/ Tick
    <2>1. file'.state = file.state
      BY <1>11 DEF Trim, Tick, IInv
    <2>2. QED
      BY <1>11, <2>1 DEF Trim, Tick, signal, Others
  <1>12. CASE SaveSignal \/ ExitSignal \/ CloseSocket \/ Start
    BY <1>12 DEF SaveSignal, ExitSignal, CloseSocket, Start, server, signal, Others
  <1>13. CASE SignalStep \/ Crash
    <2>1. CASE Encode
      BY <2>1 DEF Encode, server, Others
    <2>2. CASE Truncate
      BY <2>2 DEF Truncate, server, Others, TornFile
    <2>3. CASE SaveWrite
      BY <2>3 DEF SaveWrite, server, Others, Whole
    <2>4. CASE ExitWrite \/ Crash
      <3>1. Gone /\ UNCHANGED <<net, client>> /\ file' \in {file, Whole(snap)}
        BY <2>4 DEF ExitWrite, Crash
      <3>2. file'.state \in {"absent", "torn", "whole"}
        <4>1. CASE file' = file
          BY <4>1 DEF Others
        <4>2. CASE file' = Whole(snap)
          BY <4>2 DEF Whole
        <4>3. QED
          BY <3>1, <4>1, <4>2
      <3>3. IsMap(peers', Clients, Addrs)
        BY <3>1 DEF Gone, IsMap, EmptyMap
      <3>4. QED
        BY <3>1, <3>2, <3>3 DEF Gone, Others
    <2>5. QED
      BY <1>13, <2>1, <2>2, <2>3, <2>4 DEF SignalStep
  <1>14. CASE UNCHANGED vars
    BY <1>14 DEF vars, Others
  <1>15. QED
    BY <1>4, <1>5, <1>6, <1>7, <1>8, <1>9, <1>10, <1>11, <1>12, <1>13, <1>14 DEF Next

(* The tracker, its file, its clients and the network keep their types.     *)
THEOREM TypeCorrect == Spec => []TypeOK
  <1>1. IInv /\ Ages /\ Others => TypeOK
    BY DEF IInv, Dbs, Ages, Others, TypeOK, Client
  <1>2. Spec => []Others
    BY OthersInitOK, OthersNextOK, Invariance, PTL DEF Spec
  <1>3. Spec => []Ages
    BY AgesInitOK, AgesNextOK, Invariance, PTL DEF Spec
  <1>4. QED
    BY <1>1, <1>2, <1>3, Invariance, PTL

-----------------------------------------------------------------------------
(* Counting up                                                              *)

(* What is not true of every number up to n fails somewhere first.          *)
LEMMA UpTo ==
    ASSUME NEW n \in Nat, NEW T, 0 \in T, \A i \in 1..n : i - 1 \in T => i \in T
    PROVE  \A i \in 0..n : i \in T
  <1> DEFINE R == {ss \in Nat \X Nat : ss[1] < ss[2]}
             Rest == {i \in 0..n : i \notin T}
  <1>1. IsWellFoundedOn(R, Nat)
    BY NatLessThanWellFounded DEF OpToRel
  <1>2. Rest \in SUBSET Nat
    OBVIOUS
  <1>3. CASE Rest = {}
    BY <1>3
  <1>4. CASE Rest # {}
    <2>1. PICK i \in Rest : \A j \in Rest : ~(<<j, i>> \in R)
      <3> HIDE DEF R, Rest
      <3>1. QED
        BY <1>1, <1>2, <1>4, WFMin
    <2>2. i \in 0..n /\ i # 0 /\ i \notin T
      OBVIOUS
    <2>3. i \in 1..n /\ i - 1 \in 0..n /\ <<i - 1, i>> \in R
      BY <2>2
    <2>4. i - 1 \notin Rest
      BY <2>1, <2>3
    <2>5. i - 1 \in T
      BY <2>3, <2>4
    <2>6. QED
      BY <2>2, <2>3, <2>5
  <1>5. QED
    BY <1>3, <1>4

-----------------------------------------------------------------------------
(* Numbers                                                                  *)

\* read has the number that the first i bytes are, for each i
Reads(read, bytes, n) ==
    /\ read[0] = IF bytes[1] > 127 THEN -1 ELSE 0
    /\ \A i \in 1..n : read[i] = 256 * read[i - 1] + bytes[i]

(* Number is the last of them.                                              *)
LEMMA NumberIs ==
    ASSUME NEW n \in Nat, NEW bytes, Len(bytes) = n, NEW read, Reads(read, bytes, n)
    PROVE  Number(bytes) = read[n]
  <1> DEFINE At(g, i) == IF i > 0 THEN 256 * g[i - 1] + bytes[i]
                         ELSE IF bytes[1] > 127 THEN -1 ELSE 0
             R(g) == g = [i \in 0..n |-> At(g, i)]
  <1>1. Number(bytes) = (CHOOSE g : R(g))[n]
    BY DEF Number
  <1>2. PICK p : p = [i \in 0..n |-> read[i]]
    OBVIOUS
  <1>3. R(p)
    <2>1. ASSUME NEW i \in 0..n PROVE p[i] = At(p, i)
      <3>1. CASE i = 0
        BY <1>2, <3>1 DEF Reads
      <3>2. CASE i \in 1..n
        BY <1>2, <3>2 DEF Reads
      <3>3. QED
        BY <3>1, <3>2
    <2>2. QED
      BY <1>2, <2>1
  <1>4. PICK g : g = CHOOSE h : R(h)
    OBVIOUS
  <1>5. R(g)
    <2> HIDE DEF R
    <2>1. QED
      BY <1>3, <1>4
  <1>6. PICK T : T = {i \in 0..n : g[i] = p[i]}
    OBVIOUS
  <1>7. 0 \in T
    BY <1>3, <1>5, <1>6
  <1>8. \A i \in 1..n : i - 1 \in T => i \in T
    BY <1>3, <1>5, <1>6
  <1>9. \A i \in 0..n : i \in T
    BY <1>7, <1>8, UpTo
  <1>10. g[n] = read[n]
    BY <1>2, <1>6, <1>9
  <1>11. QED
    BY <1>1, <1>4, <1>10

Long == {n \in Int : -2147483648 <= n /\ n <= 2147483647}
Short == {n \in Int : -32768 <= n /\ n <= 32767}

\* n has room in so many bytes
Fits(width, n) == (width = 2 /\ n \in Short) \/ (width \in Nat /\ width > 3 /\ n \in Long)

Powers == 256^0 = 1 /\ 256^1 = 256 /\ 256^2 = 65536 /\ 256^3 = 16777216

(* The four places of a number.                                             *)
LEMMA PowersOK == Powers
  BY SMT DEF Powers

Sign(n) == IF n < 0 THEN -1 ELSE 0

\* One byte more: n has q in front of the lower bytes, and that ends in byte r
Shift(n, m, s, q, r) ==
    /\ n \div m = q /\ q % 256 = r
    /\ s \in Int /\ q \in Int /\ r \in 0..255 /\ q = 256 * s + r

(* A shift by whole bytes gives what is left of the one before.             *)
LEMMA ShiftOK ==
    ASSUME NEW n \in Int
    PROVE  /\ \E q, r : Shift(n, 1, n \div 256, q, r)
           /\ \E q, r : Shift(n, 256, n \div 65536, q, r)
           /\ \E q, r : Shift(n, 65536, n \div 16777216, q, r)
  <1>1. PICK a \in Int : a = n \div 1 /\ a = n
    BY SMT
  <1>2. PICK b \in Int : b = n \div 256 /\ 256 * b <= n /\ n < 256 * b + 256
    BY SMT
  <1>3. PICK c \in Int : c = n \div 65536 /\ 65536 * c <= n /\ n < 65536 * c + 65536
    BY SMT
  <1>4. PICK d \in Int : /\ d = n \div 16777216
                         /\ 16777216 * d <= n /\ n < 16777216 * d + 16777216
    BY SMT
  <1>5. \A q, s \in Int : 256 * s <= q /\ q < 256 * s + 256 =>
           \E r \in 0..255 : q % 256 = r /\ q = 256 * s + r
    <2> SUFFICES ASSUME NEW q \in Int, NEW s \in Int, 256 * s <= q, q < 256 * s + 256
                 PROVE  \E r \in 0..255 : q % 256 = r /\ q = 256 * s + r
      OBVIOUS
    <2>1. PICK r \in Int : r = q - 256 * s
      OBVIOUS
    <2>2. q % 256 = q - 256 * s
      OBVIOUS
    <2>3. r \in 0..255 /\ q % 256 = r /\ q = 256 * s + r
      BY <2>1, <2>2
    <2>4. QED
      BY <2>3
  <1>6. PICK r \in 0..255 : a % 256 = r /\ a = 256 * b + r
    BY SMT, <1>1, <1>2, <1>5
  <1>7. PICK s \in 0..255 : b % 256 = s /\ b = 256 * c + s
    <2>1. 256 * c <= b /\ b < 256 * c + 256
      BY SMT, <1>2, <1>3
    <2>2. QED
      BY <2>1, <1>5
  <1>8. PICK t \in 0..255 : c % 256 = t /\ c = 256 * d + t
    <2>1. 256 * d <= c /\ c < 256 * d + 256
      BY SMT, <1>3, <1>4
    <2>2. QED
      BY <2>1, <1>5
  <1>9. Shift(n, 1, n \div 256, a, r)
    BY SMT, <1>1, <1>2, <1>6 DEF Shift
  <1>10. Shift(n, 256, n \div 65536, b, s)
    BY SMT, <1>2, <1>3, <1>7 DEF Shift
  <1>11. Shift(n, 65536, n \div 16777216, c, t)
    BY SMT, <1>3, <1>4, <1>8 DEF Shift
  <1>12. QED
    BY SMT, <1>9, <1>10, <1>11

(* The first byte of a number tells its sign.                               *)
LEMMA FirstByteOK ==
    ASSUME NEW n \in Long
    PROVE  \E q, r : Shift(n, 16777216, Sign(n), q, r) /\ (r > 127 <=> n < 0)
  <1>1. PICK q \in Int : q = n \div 16777216 /\ 16777216 * q <= n /\ n < 16777216 * q + 16777216
    BY SMT DEF Long
  <1>2. q \in -128..127 /\ (q < 0 <=> n < 0)
    BY SMT, <1>1 DEF Long
  <1>3. CASE q < 0
    <2>1. PICK r \in 128..255 : r = q + 256
      BY SMT, <1>2, <1>3
    <2>2. q % 256 = r
      BY SMT, <1>2, <1>3, <2>1
    <2>3. Sign(n) = -1
      BY SMT, <1>2, <1>3 DEF Sign
    <2>4. Shift(n, 16777216, Sign(n), q, r)
      BY SMT, <1>1, <2>1, <2>2, <2>3 DEF Shift
    <2>5. QED
      BY SMT, <1>2, <1>3, <2>1, <2>4
  <1>4. CASE q >= 0
    <2>1. q % 256 = q
      BY SMT, <1>2, <1>4
    <2>2. Sign(n) = 0
      BY SMT, <1>2, <1>4 DEF Sign
    <2>3. Shift(n, 16777216, Sign(n), q, q)
      BY SMT, <1>1, <1>2, <1>4, <2>1, <2>2 DEF Shift
    <2>4. QED
      BY SMT, <1>2, <1>4, <2>3
  <1>5. QED
    BY SMT, <1>2, <1>3, <1>4

(* The first of two bytes has the sign in its top bit.                      *)
LEMMA FirstOfTwoOK ==
    ASSUME NEW n \in Short
    PROVE  \E q, r : Shift(n, 256, Sign(n), q, r) /\ (r > 127 <=> n < 0)
  <1>1. PICK q \in Int : q = n \div 256 /\ 256 * q <= n /\ n < 256 * q + 256
    BY SMT DEF Short
  <1>2. q \in -128..127 /\ (q < 0 <=> n < 0)
    BY SMT, <1>1 DEF Short
  <1>3. CASE q < 0
    <2>1. PICK r \in 128..255 : r = q + 256
      BY SMT, <1>2, <1>3
    <2>2. q % 256 = r
      BY SMT, <1>2, <1>3, <2>1
    <2>3. Sign(n) = -1
      BY SMT, <1>2, <1>3 DEF Sign
    <2>4. Shift(n, 256, Sign(n), q, r)
      BY SMT, <1>1, <2>1, <2>2, <2>3 DEF Shift
    <2>5. QED
      BY SMT, <1>2, <1>3, <2>1, <2>4
  <1>4. CASE q >= 0
    <2>1. q % 256 = q
      BY SMT, <1>2, <1>4
    <2>2. Sign(n) = 0
      BY SMT, <1>2, <1>4 DEF Sign
    <2>3. Shift(n, 256, Sign(n), q, q)
      BY SMT, <1>1, <1>2, <1>4, <2>1, <2>2 DEF Shift
    <2>4. QED
      BY SMT, <1>2, <1>4, <2>3
  <1>5. QED
    BY SMT, <1>2, <1>3, <1>4

Byte == 0..255

\* The bytes of n, written out
LongBytes(b, w, n) ==
    /\ \A i \in 1..w - 4 : b[i] = IF n < 0 THEN 255 ELSE 0
    /\ b[w - 3] = (n \div 16777216) % 256
    /\ b[w - 2] = (n \div 65536) % 256
    /\ b[w - 1] = (n \div 256) % 256
    /\ b[w] = (n \div 1) % 256

(* Of the three lower places of a long and of what is left of it in front,  *)
(* each has its byte; what lies further in front has the sign.              *)
LEMMA LongBytesOK ==
    ASSUME NEW n \in Int, NEW w \in Nat, w > 3
    PROVE  LongBytes(BigEndian(w, n), w, n)
  <1>1. PICK b : b = BigEndian(w, n)
    OBVIOUS
  <1>2. \A i \in 1..w : b[i] = IF w - i > 3 THEN IF n < 0 THEN 255 ELSE 0
                               ELSE (n \div 256^(w - i)) % 256
    BY SMT, <1>1 DEF BigEndian
  <1>3. \A i \in 1..w - 4 : b[i] = IF n < 0 THEN 255 ELSE 0
    BY SMT, <1>2
  <1>4. b[w - 3] = (n \div 16777216) % 256
    <2>1. PICK j \in 1..w : j = w - 3 /\ w - j = 3 /\ ~(w - j > 3)
      OBVIOUS
    <2>2. b[j] = (n \div 256^(w - j)) % 256
      BY Zenon, <1>2, <2>1
    <2>3. b[w - 3] = (n \div 256^3) % 256
      BY Zenon, <2>1, <2>2
    <2>4. QED
      BY SMT, <2>3, PowersOK DEF Powers
  <1>5. b[w - 2] = (n \div 65536) % 256
    <2>1. PICK j \in 1..w : j = w - 2 /\ w - j = 2 /\ ~(w - j > 3)
      OBVIOUS
    <2>2. b[j] = (n \div 256^(w - j)) % 256
      BY Zenon, <1>2, <2>1
    <2>3. b[w - 2] = (n \div 256^2) % 256
      BY Zenon, <2>1, <2>2
    <2>4. QED
      BY SMT, <2>3, PowersOK DEF Powers
  <1>6. b[w - 1] = (n \div 256) % 256
    <2>1. PICK j \in 1..w : j = w - 1 /\ w - j = 1 /\ ~(w - j > 3)
      OBVIOUS
    <2>2. b[j] = (n \div 256^(w - j)) % 256
      BY Zenon, <1>2, <2>1
    <2>3. b[w - 1] = (n \div 256^1) % 256
      BY Zenon, <2>1, <2>2
    <2>4. QED
      BY SMT, <2>3, PowersOK DEF Powers
  <1>7. b[w] = (n \div 1) % 256
    <2>1. w \in 1..w /\ w - w = 0 /\ ~(w - w > 3)
      OBVIOUS
    <2>2. b[w] = (n \div 256^(w - w)) % 256
      BY Zenon, <1>2, <2>1
    <2>3. b[w] = (n \div 256^0) % 256
      BY Zenon, <2>1, <2>2
    <2>4. QED
      BY SMT, <2>3, PowersOK DEF Powers
  <1>8. QED
    BY SMT, <1>1, <1>3, <1>4, <1>5, <1>6, <1>7 DEF LongBytes

(* A short has its two bytes.                                               *)
LEMMA ShortBytesOK ==
    ASSUME NEW n \in Int
    PROVE  BigEndian(2, n)[1] = (n \div 256) % 256 /\ BigEndian(2, n)[2] = (n \div 1) % 256
  <1>1. PICK b : b = BigEndian(2, n)
    OBVIOUS
  <1>2. \A i \in 1..2 : b[i] = IF 2 - i > 3 THEN IF n < 0 THEN 255 ELSE 0
                               ELSE (n \div 256^(2 - i)) % 256
    BY SMT, <1>1 DEF BigEndian
  <1>3. b[1] = (n \div 256^1) % 256 /\ b[2] = (n \div 256^0) % 256
    <2>1. 1 \in 1..2 /\ 2 \in 1..2 /\ 2 - 1 = 1 /\ 2 - 2 = 0
      OBVIOUS
    <2>2. QED
      BY <1>2, <2>1
  <1>4. QED
    BY SMT, <1>1, <1>3, PowersOK DEF Powers

(* What BigEndian writes are bytes, as many as the width says.              *)
LEMMA BytesOK ==
    ASSUME NEW n \in Int, NEW w \in Nat
    PROVE  BigEndian(w, n) \in Seq(Byte) /\ Len(BigEndian(w, n)) = w
  <1>1. PICK b : b = BigEndian(w, n)
    OBVIOUS
  <1>2. ASSUME NEW i \in 1..w
        PROVE  (IF w - i > 3 THEN IF n < 0 THEN 255 ELSE 0
                ELSE (n \div 256^(w - i)) % 256) \in Byte
    <2>1. CASE w - i > 3
      BY <2>1 DEF Byte
    <2>2. CASE w - i \in 0..3
      <3>1. PICK q \in Int : q = n \div 256^(w - i)
        <4>1. CASE w - i = 0
          BY SMT, <4>1, PowersOK DEF Powers
        <4>2. CASE w - i = 1
          BY SMT, <4>2, PowersOK DEF Powers
        <4>3. CASE w - i = 2
          BY SMT, <4>3, PowersOK DEF Powers
        <4>4. CASE w - i = 3
          BY SMT, <4>4, PowersOK DEF Powers
        <4>5. QED
          BY <2>2, <4>1, <4>2, <4>3, <4>4
      <3>2. q % 256 \in 0..255
        OBVIOUS
      <3>3. QED
        BY <2>2, <3>1, <3>2 DEF Byte
    <2>3. QED
      BY <2>1, <2>2
  <1>3. b \in [1..w -> Byte]
    BY <1>1, <1>2 DEF BigEndian
  <1>4. b \in Seq(Byte) /\ Len(b) = w
    BY <1>3, SeqDef
  <1>5. QED
    BY <1>1, <1>4

\* n and what is left of it, byte by byte
Left(n, q, r) ==
    /\ q \in [0..3 -> Int] /\ r \in [0..3 -> 0..255]
    /\ q[0] = n /\ \A k \in 0..2 : q[k] = 256 * q[k + 1] + r[k]
    /\ q[3] = 256 * Sign(n) + r[3]
    /\ r[3] > 127 <=> n < 0

(* What the bytes of a long leave of it, one after the other, ends in its   *)
(* sign.                                                                    *)
LEMMA LongLeft ==
    ASSUME NEW n \in Long, NEW w \in Nat, w > 3
    PROVE  \E q, r : /\ Left(n, q, r)
                     /\ \A k \in 0..3 : BigEndian(w, n)[w - k] = r[k]
                     /\ \A i \in 1..w - 4 : BigEndian(w, n)[i] = IF n < 0 THEN 255 ELSE 0
  <1>1. n \in Int
    BY SMT DEF Long
  <1>2. PICK b : b = BigEndian(w, n) /\ LongBytes(b, w, n)
    BY <1>1, LongBytesOK
  <1>3. PICK q0, r0 : Shift(n, 1, n \div 256, q0, r0)
    BY <1>1, ShiftOK
  <1>4. PICK q1, r1 : Shift(n, 256, n \div 65536, q1, r1)
    BY SMT, <1>1, ShiftOK
  <1>5. PICK q2, r2 : Shift(n, 65536, n \div 16777216, q2, r2)
    BY SMT, <1>1, ShiftOK
  <1>6. PICK q3, r3 : Shift(n, 16777216, Sign(n), q3, r3) /\ (r3 > 127 <=> n < 0)
    BY SMT, FirstByteOK
  <1>7. q0 = n
    <2>1. n \div 1 = n
      BY SMT, <1>1
    <2>2. QED
      BY SMT, <1>3, <2>1 DEF Shift
  <1>8. {q0, q1, q2, q3} \subseteq Int /\ {r0, r1, r2, r3} \subseteq 0..255
    BY SMT, <1>3, <1>4, <1>5, <1>6 DEF Shift
  <1>9. q0 = 256 * q1 + r0
    BY SMT, <1>3, <1>4 DEF Shift
  <1>10. q1 = 256 * q2 + r1
    BY SMT, <1>4, <1>5 DEF Shift
  <1>11. q2 = 256 * q3 + r2
    BY SMT, <1>5, <1>6 DEF Shift
  <1>12. q3 = 256 * Sign(n) + r3
    BY SMT, <1>6 DEF Shift
  <1>13. b[w] = r0 /\ b[w - 1] = r1
    BY SMT, <1>2, <1>3, <1>4 DEF LongBytes, Shift
  <1>14. b[w - 2] = r2 /\ b[w - 3] = r3
    BY SMT, <1>2, <1>5, <1>6 DEF LongBytes, Shift
  <1>15. \A i \in 1..w - 4 : b[i] = IF n < 0 THEN 255 ELSE 0
    BY SMT, <1>2 DEF LongBytes
  <1>16. PICK q : q = [k \in 0..3 |-> IF k = 0 THEN q0 ELSE IF k = 1 THEN q1
                                     ELSE IF k = 2 THEN q2 ELSE q3]
    OBVIOUS
  <1>17. PICK r : r = [k \in 0..3 |-> IF k = 0 THEN r0 ELSE IF k = 1 THEN r1
                                     ELSE IF k = 2 THEN r2 ELSE r3]
    OBVIOUS
  <1>18. /\ q[0] = q0 /\ q[1] = q1 /\ q[2] = q2 /\ q[3] = q3
         /\ r[0] = r0 /\ r[1] = r1 /\ r[2] = r2 /\ r[3] = r3
    BY <1>16, <1>17
  <1>19. q \in [0..3 -> Int] /\ r \in [0..3 -> 0..255]
    BY <1>8, <1>16, <1>17
  <1>20. \A k \in 0..2 : q[k] = 256 * q[k + 1] + r[k]
    <2>1. \A k \in 0..2 : k = 0 \/ k = 1 \/ k = 2
      OBVIOUS
    <2>2. 0 + 1 = 1 /\ 1 + 1 = 2 /\ 2 + 1 = 3
      OBVIOUS
    <2>3. QED
      BY <1>9, <1>10, <1>11, <1>18, <2>1, <2>2
  <1>21. Left(n, q, r)
    BY <1>6, <1>7, <1>12, <1>18, <1>19, <1>20 DEF Left
  <1>22. \A k \in 0..3 : b[w - k] = r[k]
    <2>1. \A k \in 0..3 : k = 0 \/ k = 1 \/ k = 2 \/ k = 3
      OBVIOUS
    <2>2. w - 0 = w
      OBVIOUS
    <2>3. QED
      BY <1>13, <1>14, <1>18, <2>1, <2>2
  <1>23. QED
    BY <1>2, <1>15, <1>21, <1>22

(* A number of four or more bytes that is no larger than four has room for  *)
(* is read as it was written, a negative one too: the hash and the peer id  *)
(* of 20 bytes, the ids of 8.                                               *)
LEMMA LongComesBack ==
    ASSUME NEW n \in Long, NEW w \in Nat, w > 3
    PROVE  Number(BigEndian(w, n)) = n
  <1>1. PICK b : b = BigEndian(w, n)
    OBVIOUS
  <1>2. n \in Int
    BY SMT DEF Long
  <1>3. PICK q, r : /\ Left(n, q, r)
                    /\ \A k \in 0..3 : b[w - k] = r[k]
                    /\ \A i \in 1..w - 4 : b[i] = IF n < 0 THEN 255 ELSE 0
    BY <1>1, LongLeft
  <1>4. Len(b) = w
    BY <1>1, <1>2, BytesOK
  <1>5. PICK read : read = [i \in 0..w |-> IF i < w - 3 THEN Sign(n) ELSE q[w - i]]
    OBVIOUS
  <1>6. read[0] = IF b[1] > 127 THEN -1 ELSE 0
    <2>1. read[0] = Sign(n)
      BY <1>5
    <2>2. b[1] > 127 <=> n < 0
      <3>1. CASE w = 4
        <4>1. b[w - 3] = r[3] /\ w - 3 = 1
          BY <1>3, <3>1
        <4>2. QED
          BY <1>3, <4>1 DEF Left
      <3>2. CASE w > 4
        <4>1. 1 \in 1..w - 4
          BY <3>2
        <4>2. b[1] = IF n < 0 THEN 255 ELSE 0
          BY <1>3, <4>1
        <4>3. QED
          BY <4>2
      <3>3. QED
        BY <3>1, <3>2
    <2>3. QED
      BY <2>1, <2>2 DEF Sign
  <1>7. ASSUME NEW i \in 1..w PROVE read[i] = 256 * read[i - 1] + b[i]
    <2>1. CASE i < w - 3
      <3>1. read[i] = Sign(n) /\ read[i - 1] = Sign(n)
        BY <1>5, <2>1
      <3>2. b[i] = IF n < 0 THEN 255 ELSE 0
        BY <1>3, <2>1
      <3>3. QED
        BY <1>2, <3>1, <3>2 DEF Sign
    <2>2. CASE i = w - 3
      <3>1. read[i] = q[3] /\ read[i - 1] = Sign(n)
        <4>1. w - i = 3 /\ ~(i < w - 3) /\ i - 1 < w - 3 /\ i - 1 \in 0..w
          BY <2>2
        <4>2. QED
          BY <1>5, <4>1
      <3>2. b[i] = r[3]
        BY <1>3, <2>2
      <3>3. QED
        BY <1>3, <3>1, <3>2 DEF Left
    <2>3. CASE i > w - 3
      <3>1. PICK k \in 0..2 : k = w - i
        BY <2>3
      <3>2. read[i] = q[k] /\ read[i - 1] = q[k + 1]
        <4>1. w - (i - 1) = k + 1 /\ ~(i < w - 3) /\ ~(i - 1 < w - 3) /\ i - 1 \in 0..w
          BY <2>3, <3>1
        <4>2. QED
          BY <1>5, <3>1, <4>1
      <3>3. b[i] = r[k]
        <4>1. w - k = i
          BY <3>1
        <4>2. QED
          BY <1>3, <4>1
      <3>4. QED
        BY <1>3, <3>2, <3>3 DEF Left
    <2>4. QED
      BY <2>1, <2>2, <2>3
  <1>8. Reads(read, b, w)
    BY <1>6, <1>7 DEF Reads
  <1>9. Number(b) = read[w]
    BY <1>4, <1>8, NumberIs
  <1>10. read[w] = n
    <2>1. w - w = 0 /\ ~(w < w - 3) /\ w \in 0..w
      OBVIOUS
    <2>2. read[w] = q[0]
      BY <1>5, <2>1
    <2>3. QED
      BY <1>3, <2>2 DEF Left
  <1>11. QED
    BY <1>1, <1>9, <1>10

(* So is one of two bytes: the port and the first octets of an address.     *)
LEMMA ShortComesBack ==
    ASSUME NEW n \in Short
    PROVE  Number(BigEndian(2, n)) = n
  <1>1. n \in Int /\ n \div 1 = n
    BY SMT DEF Short
  <1>2. PICK b : b = BigEndian(2, n)
    OBVIOUS
  <1>3. b[1] = (n \div 256) % 256 /\ b[2] = (n \div 1) % 256 /\ Len(b) = 2
    <2>1. b[1] = (n \div 256) % 256 /\ b[2] = (n \div 1) % 256
      BY <1>1, <1>2, ShortBytesOK
    <2>2. 2 \in Nat
      OBVIOUS
    <2>3. Len(b) = 2
      BY <1>1, <1>2, <2>2, BytesOK
    <2>4. QED
      BY <2>1, <2>3
  <1>4. PICK q0, r0 : Shift(n, 1, n \div 256, q0, r0)
    BY <1>1, ShiftOK
  <1>5. PICK q1, r1 : Shift(n, 256, Sign(n), q1, r1) /\ (r1 > 127 <=> n < 0)
    BY SMT, FirstOfTwoOK
  <1>6. b[1] = r1 /\ b[2] = r0 /\ q0 = n
    BY SMT, <1>1, <1>3, <1>4, <1>5 DEF Shift
  <1>7. n = 256 * q1 + r0 /\ q1 = 256 * Sign(n) + r1
    BY SMT, <1>4, <1>5, <1>6 DEF Shift
  <1>8. PICK read : read = [i \in 0..2 |-> IF i = 0 THEN Sign(n) ELSE IF i = 1 THEN q1 ELSE n]
    OBVIOUS
  <1>9. read[0] = Sign(n) /\ read[1] = q1 /\ read[2] = n
    BY <1>8
  <1>10. read[0] = IF b[1] > 127 THEN -1 ELSE 0
    BY <1>5, <1>6, <1>9 DEF Sign
  <1>11. \A i \in 1..2 : read[i] = 256 * read[i - 1] + b[i]
    <2>1. 1 - 1 = 0 /\ 2 - 1 = 1 /\ \A i \in 1..2 : i = 1 \/ i = 2
      OBVIOUS
    <2>2. QED
      BY <1>6, <1>7, <1>9, <2>1
  <1>12. Reads(read, b, 2)
    BY <1>10, <1>11 DEF Reads
  <1>13. Number(b) = read[2]
    <2>1. 2 \in Nat /\ Len(b) = 2
      BY <1>3
    <2>2. QED
      BY <1>12, <2>1, NumberIs
  <1>14. QED
    BY <1>2, <1>9, <1>13

(* binary.BigEndian reads what it wrote: no number with room in its field   *)
(* comes back as another, whatever its sign and the width of the field.     *)
THEOREM NumbersComeBack ==
    ASSUME NEW w, NEW n, Fits(w, n)
    PROVE  Number(BigEndian(w, n)) = n
  BY LongComesBack, ShortComesBack DEF Fits

-----------------------------------------------------------------------------
(* Layouts                                                                  *)

IsLayout(layout, n) ==
    /\ n \in Nat \ {0} /\ Len(layout) = n /\ DOMAIN layout = 1..n
    /\ layout = [i \in 1..n |-> layout[i]]
    /\ \A i \in 1..n : layout[i][2] \in Nat \ {0}
    /\ \A i, j \in 1..n : layout[i][1] = layout[j][1] => i = j

\* Field i ends at byte ends[i]
Ends(ends, layout, n) ==
    /\ ends \in [0..n -> Nat] /\ ends[0] = 0
    /\ \A i \in 1..n : ends[i] = ends[i - 1] + layout[i][2]

(* Every layout has its fields behind each other.                           *)
LEMMA EndsExist ==
    ASSUME NEW layout, NEW n, IsLayout(layout, n)
    PROVE  \E ends : Ends(ends, layout, n)
  <1> DEFINE Upto(k, t) == /\ t \in [0..k -> Nat] /\ t[0] = 0
                           /\ \A i \in 1..k : t[i] = t[i - 1] + layout[i][2]
  <1>1. PICK T : T = {k \in 0..n : \E t : Upto(k, t)}
    OBVIOUS
  <1>2. n \in Nat
    BY DEF IsLayout
  <1>3. 0 \in T
    <2>1. PICK t : t = [i \in 0..0 |-> 0]
      OBVIOUS
    <2>2. Upto(0, t)
      BY <2>1
    <2>3. 0 \in 0..n
      BY <1>2
    <2>4. QED
      BY <1>1, <2>2, <2>3
  <1>4. ASSUME NEW k \in 1..n, k - 1 \in T PROVE k \in T
    <2>1. PICK t : Upto(k - 1, t)
      BY <1>1, <1>4
    <2>2. k \in Nat /\ layout[k][2] \in Nat
      BY <1>2 DEF IsLayout
    <2>3. PICK u : u = [i \in 0..k |-> IF i = k THEN t[k - 1] + layout[k][2] ELSE t[i]]
      OBVIOUS
    <2>4. t[k - 1] \in Nat
      BY <2>1, <2>2
    <2>5. u \in [0..k -> Nat]
      BY <2>1, <2>2, <2>3, <2>4
    <2>6. u[0] = 0 /\ \A i \in 1..k : u[i] = u[i - 1] + layout[i][2]
      BY <2>1, <2>2, <2>3
    <2>7. QED
      BY <1>1, <2>5, <2>6
  <1>5. \A i \in 0..n : i \in T
    <2> HIDE DEF Upto
    <2>1. QED
      BY <1>2, <1>3, <1>4, UpTo
  <1>6. n \in 0..n
    BY <1>2
  <1>7. QED
    BY <1>1, <1>5, <1>6 DEF Ends

(* A later field ends later.                                                *)
LEMMA EndsGrow ==
    ASSUME NEW layout, NEW n, IsLayout(layout, n), NEW ends, Ends(ends, layout, n),
           NEW i \in 0..n
    PROVE  \A k \in i..n : ends[i] <= ends[k]
  <1>1. PICK T : T = {k \in 0..n : k < i \/ ends[i] <= ends[k]}
    OBVIOUS
  <1>2. n \in Nat /\ ends \in [0..n -> Nat]
    BY DEF IsLayout, Ends
  <1>3. 0 \in T
    BY <1>1, <1>2
  <1>4. ASSUME NEW k \in 1..n, k - 1 \in T PROVE k \in T
    <2>1. ends[k] = ends[k - 1] + layout[k][2] /\ layout[k][2] \in Nat
      BY DEF IsLayout, Ends
    <2>2. k - 1 \in 0..n /\ k \in 0..n
      BY <1>2
    <2>3. ends[k - 1] \in Nat /\ ends[k] \in Nat /\ ends[i] \in Nat
      BY <1>2, <2>2
    <2>4. QED
      BY <1>1, <1>2, <1>4, <2>1, <2>2, <2>3
  <1>5. \A k \in 0..n : k \in T
    BY <1>2, <1>3, <1>4, UpTo
  <1>6. QED
    BY <1>1, <1>2, <1>5

(* Size finds where a field starts.                                         *)
LEMMA SizeIs ==
    ASSUME NEW layout, NEW n, IsLayout(layout, n), NEW ends, Ends(ends, layout, n),
           NEW k \in 0..n
    PROVE  Size(SubSeq(layout, 1, k)) = ends[k]
  <1>1. n \in Nat /\ k \in Nat /\ ends \in [0..n -> Nat]
    BY DEF IsLayout, Ends
  <1>2. PICK first : first = SubSeq(layout, 1, k)
    OBVIOUS
  <1>3. Len(first) = k /\ \A i \in 1..k : first[i] = layout[i]
    <2>1. PICK S : S = {layout[i] : i \in 1..n}
      OBVIOUS
    <2>2. layout \in Seq(S)
      <3>1. layout \in [1..n -> S]
        BY <2>1 DEF IsLayout
      <3>2. QED
        BY <1>1, <3>1, SeqDef
    <2>3. Len(layout) = n
      BY DEF IsLayout
    <2>4. QED
      BY <1>1, <1>2, <2>2, <2>3
  <1> DEFINE At(g, i) == IF i > 0 THEN g[i - 1] + first[i][2] ELSE 0
             R(g) == g = [i \in 0..k |-> At(g, i)]
  <1>4. Size(first) = (CHOOSE g : R(g))[k]
    BY <1>3 DEF Size
  <1>5. PICK p : p = [i \in 0..k |-> ends[i]]
    OBVIOUS
  <1>6. R(p)
    <2>1. ASSUME NEW i \in 0..k PROVE p[i] = At(p, i)
      <3>1. CASE i = 0
        BY <1>1, <1>5, <3>1 DEF Ends
      <3>2. CASE i \in 1..k
        <4>1. ends[i] = ends[i - 1] + layout[i][2] /\ first[i] = layout[i]
          BY <1>1, <1>3, <3>2 DEF Ends
        <4>2. p[i] = ends[i] /\ p[i - 1] = ends[i - 1] /\ i > 0
          BY <1>1, <1>5, <3>2
        <4>3. QED
          BY <4>1, <4>2
      <3>3. QED
        BY <1>1, <3>1, <3>2
    <2>2. QED
      BY <1>5, <2>1
  <1>7. PICK g : g = CHOOSE h : R(h)
    OBVIOUS
  <1>8. R(g)
    <2> HIDE DEF R
    <2>1. QED
      BY <1>6, <1>7
  <1>9. PICK T : T = {i \in 0..k : g[i] = p[i]}
    OBVIOUS
  <1>10. 0 \in T
    BY <1>1, <1>6, <1>8, <1>9
  <1>11. \A i \in 1..k : i - 1 \in T => i \in T
    BY <1>6, <1>8, <1>9
  <1>12. \A i \in 0..k : i \in T
    BY <1>1, <1>10, <1>11, UpTo
  <1>13. g[k] = ends[k]
    BY <1>1, <1>5, <1>9, <1>12
  <1>14. QED
    BY <1>2, <1>4, <1>7, <1>13

\* Of the first k sequences, joined
JoinedTo(s, seqs, ends, k) ==
    /\ s \in Seq(Byte) /\ Len(s) = ends[k]
    /\ \A i \in 1..k : SubSeq(s, ends[i - 1] + 1, ends[i]) = seqs[i]

\* The lengths of seqs, added up
Lengths(ends, seqs, n) ==
    /\ ends \in [0..n -> Nat] /\ ends[0] = 0
    /\ \A i \in 1..n : ends[i] = ends[i - 1] + Len(seqs[i])
    /\ \A i \in 0..n : \A k \in i..n : ends[i] <= ends[k]

\* Bytes a to b are cut from s, whatever follows it
Kept(s, t, a, b) == SubSeq(s \o t, a, b) = SubSeq(s, a, b)

(* What comes behind a sequence leaves the bytes of it where they are.      *)
LEMMA CutOfJoin ==
    ASSUME NEW s \in Seq(Byte), NEW t \in Seq(Byte), NEW a \in Nat \ {0}, NEW b \in Nat, b <= Len(s)
    PROVE  Kept(s, t, a, b)
  <1>1. PICK st : st = s \o t /\ st \in Seq(Byte) /\ Len(st) = Len(s) + Len(t)
    BY ConcatProperties
  <1>2. \A i \in 1..Len(s) : st[i] = s[i]
    BY <1>1
  <1>3. PICK u : u = SubSeq(st, a, b)
    OBVIOUS
  <1>4. PICK v : v = SubSeq(s, a, b)
    OBVIOUS
  <1>5. Len(s) \in Nat /\ Len(t) \in Nat
    OBVIOUS
  <1>6. CASE a <= b
    <2>1. u = [i \in 1..b - a + 1 |-> st[i + a - 1]]
      BY <1>1, <1>3, <1>5, <1>6
    <2>2. v = [i \in 1..b - a + 1 |-> s[i + a - 1]]
      BY <1>4, <1>5, <1>6
    <2>3. \A i \in 1..b - a + 1 : st[i + a - 1] = s[i + a - 1]
      BY <1>2, <1>5, <1>6
    <2>4. u = v
      BY <2>1, <2>2, <2>3
    <2>5. QED
      BY <1>1, <1>3, <1>4, <2>4 DEF Kept
  <1>7. CASE a > b
    BY <1>1, <1>3, <1>4, <1>5, <1>7 DEF Kept
  <1>8. QED
    BY <1>6, <1>7

(* What is joined to a sequence is all that lies behind its end.            *)
LEMMA EndOfJoin ==
    ASSUME NEW s \in Seq(Byte), NEW t \in Seq(Byte)
    PROVE  SubSeq(s \o t, Len(s) + 1, Len(s) + Len(t)) = t
  <1>1. PICK st : st = s \o t /\ st \in Seq(Byte) /\ Len(st) = Len(s) + Len(t)
    BY ConcatProperties
  <1>2. Len(s) \in Nat /\ Len(t) \in Nat
    OBVIOUS
  <1>3. \A i \in 1..Len(t) : st[i + Len(s)] = t[i]
    BY <1>1
  <1>4. PICK u : u = SubSeq(st, Len(s) + 1, Len(s) + Len(t))
    OBVIOUS
  <1>5. CASE Len(t) > 0
    <2>1. u = [i \in 1..Len(t) |-> st[i + Len(s)]]
      BY <1>1, <1>2, <1>4, <1>5
    <2>2. t = [i \in 1..Len(t) |-> t[i]]
      OBVIOUS
    <2>3. u = t
      BY <1>3, <2>1, <2>2
    <2>4. QED
      BY <1>1, <1>4, <2>3
  <1>6. CASE Len(t) = 0
    <2>1. t = <<>>
      BY <1>6
    <2>2. u = <<>>
      BY <1>1, <1>2, <1>4, <1>6
    <2>3. QED
      BY <1>1, <1>4, <2>1, <2>2
  <1>7. QED
    BY <1>2, <1>5, <1>6

(* FlattenSeq writes one sequence after the other, each whole.              *)
LEMMA FlattenIs ==
    ASSUME NEW n \in Nat \ {0}, NEW seqs \in [1..n -> Seq(Byte)],
           NEW ends, Lengths(ends, seqs, n)
    PROVE  JoinedTo(FlattenSeq(seqs), seqs, ends, n)
  <1> DEFINE At(f, i) == IF i = 1 THEN seqs[i] ELSE f[i - 1] \o seqs[i]
             R(g, k) == g = [i \in 1..k |-> At(g, i)]
  <1>1. Len(seqs) = n
    BY SeqDef
  <1>2. FlattenSeq(seqs) = (CHOOSE g : R(g, n))[n]
    BY <1>1 DEF FlattenSeq
  <1>3. PICK T : T = {k \in 0..n : \E g : R(g, k)}
    OBVIOUS
  <1>4. 0 \in T
    <2>1. PICK g : g = [i \in 1..0 |-> seqs[i]]
      OBVIOUS
    <2>2. R(g, 0)
      BY <2>1
    <2>3. 0 \in 0..n
      OBVIOUS
    <2> HIDE DEF R
    <2>4. QED
      BY <1>3, <2>2, <2>3
  <1>5. ASSUME NEW k \in 1..n, k - 1 \in T PROVE k \in T
    <2>1. PICK g : R(g, k - 1)
      BY <1>3, <1>5
    <2>2. PICK h : h = [i \in 1..k |-> IF i = k THEN At(g, k) ELSE g[i]]
      OBVIOUS
    <2>3. ASSUME NEW i \in 1..k PROVE h[i] = At(h, i)
      <3>1. CASE i = 1
        <4>1. h[1] = IF k = 1 THEN At(g, 1) ELSE g[1]
          BY <2>2, <3>1
        <4>2. k # 1 => g[1] = At(g, 1)
          BY <2>1, <3>1
        <4>3. QED
          BY <3>1, <4>1, <4>2
      <3>2. CASE i # 1 /\ i = k
        <4>1. h[i] = g[i - 1] \o seqs[i]
          BY <2>2, <3>2
        <4>2. h[i - 1] = g[i - 1]
          BY <2>2, <3>2
        <4>3. QED
          BY <3>2, <4>1, <4>2
      <3>3. CASE i # 1 /\ i # k
        <4>1. h[i] = g[i] /\ h[i - 1] = g[i - 1]
          BY <2>2, <3>3
        <4>2. i \in 1..k - 1
          BY <3>3
        <4>3. g[i] = At(g, i)
          BY <2>1, <4>2
        <4>4. QED
          BY <3>3, <4>1, <4>3
      <3>4. QED
        BY <3>1, <3>2, <3>3
    <2>4. R(h, k)
      BY <2>2, <2>3
    <2> HIDE DEF R
    <2>5. QED
      BY <1>3, <2>4
  <1>6. \E g : R(g, n)
    <2> HIDE DEF R
    <2>1. \A k \in 0..n : k \in T
      BY <1>4, <1>5, UpTo
    <2>2. QED
      BY <1>3, <2>1
  <1>7. PICK g : g = CHOOSE h : R(h, n)
    OBVIOUS
  <1>8. R(g, n)
    <2> HIDE DEF R
    <2>1. QED
      BY <1>6, <1>7
  <1>9. g[1] = seqs[1] /\ \A i \in 1..n : i # 1 => g[i] = g[i - 1] \o seqs[i]
    <2>1. \A i \in 1..n : g[i] = At(g, i)
      <3> HIDE DEF At
      <3>1. QED
        BY <1>8
    <2>2. 1 \in 1..n /\ g[1] = At(g, 1)
      BY <2>1
    <2>3. g[1] = seqs[1]
      BY <2>2
    <2>4. QED
      BY <2>1, <2>3
  <1>10. PICK S : S = {k \in 0..n : k = 0 \/ JoinedTo(g[k], seqs, ends, k)}
    OBVIOUS
  <1>11. 0 \in S
    BY <1>10
  <1>12. ASSUME NEW k \in 1..n, k - 1 \in S PROVE k \in S
    <2>1. /\ seqs[k] \in Seq(Byte) /\ ends[k - 1] \in Nat /\ ends[k] \in Nat
          /\ ends[k] = ends[k - 1] + Len(seqs[k])
      BY DEF Lengths
    <2>2. CASE k = 1
      <3>1. ends[0] = 0 /\ ends[1] = Len(seqs[1])
        BY <2>1, <2>2 DEF Lengths
      <3>2. SubSeq(seqs[1], 1, Len(seqs[1])) = seqs[1]
        BY <2>1, <2>2
      <3>3. SubSeq(g[1], ends[0] + 1, ends[1]) = seqs[1]
        BY <1>9, <3>1, <3>2
      <3>4. JoinedTo(g[1], seqs, ends, 1)
        <4>1. \A i \in 1..1 : i = 1 /\ i - 1 = 0
          OBVIOUS
        <4>2. QED
          BY <1>9, <2>1, <2>2, <3>1, <3>3, <4>1 DEF JoinedTo
      <3>5. QED
        BY <1>10, <2>2, <3>4
    <2>3. CASE k # 1
      <3>1. JoinedTo(g[k - 1], seqs, ends, k - 1)
        BY <1>10, <1>12, <2>3
      <3>2. PICK s, t \in Seq(Byte) : s = g[k - 1] /\ t = seqs[k]
        BY <2>1, <3>1 DEF JoinedTo
      <3>3. g[k] = s \o t /\ Len(s) = ends[k - 1]
        BY <1>9, <2>3, <3>1, <3>2 DEF JoinedTo
      <3>4. g[k] \in Seq(Byte) /\ Len(g[k]) = ends[k]
        BY <2>1, <3>2, <3>3, ConcatProperties
      <3>5. ASSUME NEW i \in 1..k PROVE SubSeq(g[k], ends[i - 1] + 1, ends[i]) = seqs[i]
        <4>1. CASE i = k
          <5>1. SubSeq(s \o t, Len(s) + 1, Len(s) + Len(t)) = t
            BY <3>2, EndOfJoin
          <5>2. QED
            BY <2>1, <3>2, <3>3, <4>1, <5>1
        <4>2. CASE i # k
          <5>1. i \in 1..k - 1 /\ i \in 0..n /\ k - 1 \in i..n /\ i - 1 \in 0..n
            BY <4>2
          <5>2. ends[i] <= Len(s) /\ ends[i] \in Nat /\ ends[i - 1] \in Nat
            BY <3>3, <5>1 DEF Lengths
          <5>3. SubSeq(s \o t, ends[i - 1] + 1, ends[i]) = SubSeq(s, ends[i - 1] + 1, ends[i])
            <6>1. PICK a \in Nat \ {0} : a = ends[i - 1] + 1
              BY <5>2
            <6>2. Kept(s, t, a, ends[i])
              BY <3>2, <5>2, <6>1, CutOfJoin
            <6>3. QED
              BY <6>1, <6>2 DEF Kept
          <5>4. SubSeq(s, ends[i - 1] + 1, ends[i]) = seqs[i]
            BY <3>1, <3>2, <5>1 DEF JoinedTo
          <5>5. QED
            BY <3>3, <5>3, <5>4
        <4>3. QED
          BY <4>1, <4>2
      <3>6. QED
        BY <1>10, <3>4, <3>5 DEF JoinedTo
    <2>4. QED
      BY <2>2, <2>3
  <1>13. \A k \in 0..n : k \in S
    BY <1>11, <1>12, UpTo
  <1>14. JoinedTo(g[n], seqs, ends, n)
    BY <1>10, <1>13
  <1>15. QED
    BY <1>2, <1>7, <1>14

\* Each number of r has room in its field
Fields(r, layout, n) == \A i \in 1..n : Fits(layout[i][2], r[layout[i][1]])

\* data starts with the first k fields of r
Carries(data, r, layout, ends, k) ==
    /\ data \in Seq(Byte) /\ ends[k] <= Len(data)
    /\ \A i \in 1..k : SubSeq(data, ends[i - 1] + 1, ends[i])
                       = BigEndian(layout[i][2], r[layout[i][1]])

Written(data, r, layout, ends, n) ==
    Carries(data, r, layout, ends, n) /\ Len(data) = ends[n]

(* What has room in a field is a number.                                    *)
LEMMA FitsOK == \A w, n : Fits(w, n) => w \in Nat /\ n \in Int
  <1> TAKE w, n
  <1>1. Long \subseteq Int /\ Short \subseteq Int
    BY SMT DEF Long, Short
  <1>2. ASSUME w = 2, n \in Short PROVE w \in Nat /\ n \in Int
    BY <1>1, <1>2
  <1>3. ASSUME w \in Nat, n \in Long PROVE w \in Nat /\ n \in Int
    BY <1>1, <1>3
  <1>4. QED
    BY <1>2, <1>3 DEF Fits

(* Marshall writes every field of the layout, in its place.                 *)
LEMMA MarshallIs ==
    ASSUME NEW layout, NEW n, IsLayout(layout, n), NEW ends, Ends(ends, layout, n),
           NEW r, Fields(r, layout, n)
    PROVE  Written(Marshall(layout, r), r, layout, ends, n)
  <1>1. n \in Nat \ {0} /\ DOMAIN layout = 1..n
    BY DEF IsLayout
  <1>2. PICK seqs : seqs = [i \in 1..n |-> BigEndian(layout[i][2], r[layout[i][1]])]
    OBVIOUS
  <1>3. ASSUME NEW i \in 1..n
        PROVE  seqs[i] \in Seq(Byte) /\ Len(seqs[i]) = layout[i][2]
    <2>1. PICK w, m : /\ w = layout[i][2] /\ m = r[layout[i][1]]
                      /\ w \in Nat /\ m \in Int
      BY FitsOK DEF Fields
    <2>2. BigEndian(w, m) \in Seq(Byte) /\ Len(BigEndian(w, m)) = w
      BY <2>1, BytesOK
    <2>3. QED
      BY <1>2, <2>1, <2>2
  <1>4. seqs \in [1..n -> Seq(Byte)]
    BY <1>2, <1>3
  <1>5. Lengths(ends, seqs, n)
    <2>1. \A i \in 0..n : \A k \in i..n : ends[i] <= ends[k]
      BY EndsGrow
    <2>2. \A i \in 1..n : ends[i] = ends[i - 1] + Len(seqs[i])
      BY <1>3 DEF Ends
    <2>3. QED
      BY <2>1, <2>2 DEF Lengths, Ends
  <1>6. JoinedTo(FlattenSeq(seqs), seqs, ends, n)
    BY <1>1, <1>4, <1>5, FlattenIs
  <1>7. FlattenSeq(seqs) = Marshall(layout, r)
    BY <1>1, <1>2 DEF Marshall
  <1>8. PICK d : d = Marshall(layout, r)
    OBVIOUS
  <1>9. d \in Seq(Byte) /\ Len(d) = ends[n]
    BY <1>6, <1>7, <1>8 DEF JoinedTo
  <1>10. \A i \in 1..n : SubSeq(d, ends[i - 1] + 1, ends[i]) = seqs[i]
    BY <1>6, <1>7, <1>8 DEF JoinedTo
  <1>11. ends[n] <= Len(d)
    <2>1. ends[n] \in Nat
      BY <1>1 DEF Ends
    <2>2. QED
      BY <1>9, <2>1
  <1>12. QED
    BY <1>2, <1>8, <1>9, <1>10, <1>11 DEF Written, Carries

(* What follows the fields does not change them.                            *)
LEMMA MoreCarries ==
    ASSUME NEW layout, NEW n, IsLayout(layout, n), NEW ends, Ends(ends, layout, n),
           NEW r, NEW data, NEW k \in 0..n, Carries(data, r, layout, ends, k),
           NEW more \in Seq(Byte)
    PROVE  Carries(data \o more, r, layout, ends, k)
  <1>1. data \in Seq(Byte) /\ ends[k] <= Len(data) /\ ends[k] \in Nat
    BY DEF Carries, Ends
  <1>2. PICK all : all = data \o more /\ all \in Seq(Byte) /\ Len(all) = Len(data) + Len(more)
    BY <1>1, ConcatProperties
  <1>3. ends[k] <= Len(all)
    <2>1. Len(more) \in Nat /\ Len(data) \in Nat
      BY <1>1
    <2>2. QED
      BY <1>1, <1>2, <2>1
  <1>4. ASSUME NEW i \in 1..k
        PROVE  SubSeq(all, ends[i - 1] + 1, ends[i]) = SubSeq(data, ends[i - 1] + 1, ends[i])
    <2>1. ends[i] <= ends[k]
      <3>1. i \in 0..n /\ k \in i..n
        BY DEF IsLayout
      <3>2. QED
        BY <3>1, EndsGrow
    <2>2. i \in 0..n /\ i - 1 \in 0..n
      BY DEF IsLayout
    <2>3. ends[i] \in Nat /\ ends[i - 1] \in Nat
      BY <2>2 DEF Ends
    <2>4. ends[i] <= Len(data)
      <3>1. Len(data) \in Nat
        BY <1>1
      <3>2. QED
        BY <1>1, <2>1, <2>3, <3>1
    <2>5. PICK a \in Nat \ {0} : a = ends[i - 1] + 1
      BY <2>3
    <2>6. Kept(data, more, a, ends[i])
      BY <1>1, <2>3, <2>4, <2>5, CutOfJoin
    <2>7. QED
      BY <1>2, <2>5, <2>6 DEF Kept
  <1>5. \A i \in 1..k : SubSeq(all, ends[i - 1] + 1, ends[i])
                        = BigEndian(layout[i][2], r[layout[i][1]])
    BY <1>4 DEF Carries
  <1>6. Carries(all, r, layout, ends, k)
    BY <1>2, <1>3, <1>5 DEF Carries
  <1>7. QED
    BY <1>2, <1>6

\* What Unmarshall makes of the fields of r
FieldsOf(r, layout, n) == [name \in {layout[i][1] : i \in 1..n} |-> r[name]]

(* Unmarshall finds every field where Marshall wrote it.                    *)
LEMMA UnmarshallIs ==
    ASSUME NEW layout, NEW n, IsLayout(layout, n), NEW ends, Ends(ends, layout, n),
           NEW r, Fields(r, layout, n), NEW data, Carries(data, r, layout, ends, n)
    PROVE  Unmarshall(layout, data) = FieldsOf(r, layout, n)
  <1>1. n \in Nat \ {0} /\ DOMAIN layout = 1..n
    BY DEF IsLayout
  <1> DEFINE names == {layout[i][1] : i \in 1..n}
             Value(name) == LET i == CHOOSE i \in DOMAIN layout : layout[i][1] = name
                                start == Size(SubSeq(layout, 1, i - 1))
                            IN Number(SubSeq(data, start + 1, start + layout[i][2]))
  <1>2. {field[1] : field \in ToSet(layout)} = names
    BY <1>1 DEF ToSet
  <1>3. ASSUME NEW name \in names PROVE Value(name) = r[name]
    <2>1. PICK i \in 1..n : layout[i][1] = name
      OBVIOUS
    <2>2. i = CHOOSE j \in DOMAIN layout : layout[j][1] = name
      <3>1. PICK c : c = CHOOSE j \in DOMAIN layout : layout[j][1] = name
        OBVIOUS
      <3>2. \E j \in DOMAIN layout : layout[j][1] = name
        BY <1>1, <2>1
      <3>3. c \in DOMAIN layout /\ layout[c][1] = name
        BY <3>1, <3>2
      <3>4. c \in 1..n /\ layout[c][1] = layout[i][1]
        BY <1>1, <2>1, <3>3
      <3>5. c = i
        BY <2>1, <3>4 DEF IsLayout
      <3>6. QED
        BY <3>1, <3>5
    <2>3. PICK start : start = Size(SubSeq(layout, 1, i - 1))
      OBVIOUS
    <2>4. start = ends[i - 1]
      <3>1. i - 1 \in 0..n
        BY <1>1
      <3>2. PICK k \in 0..n : k = i - 1
        BY <3>1
      <3>3. Size(SubSeq(layout, 1, k)) = ends[k]
        BY <3>2, SizeIs
      <3>4. QED
        BY <2>3, <3>2, <3>3
    <2>5. start + layout[i][2] = ends[i]
      BY <2>4 DEF Ends
    <2>6. Value(name) = Number(SubSeq(data, start + 1, start + layout[i][2]))
      BY <2>2, <2>3
    <2>7. PICK w, m : w = layout[i][2] /\ m = r[layout[i][1]] /\ Fits(w, m)
      BY DEF Fields
    <2>8. SubSeq(data, ends[i - 1] + 1, ends[i]) = BigEndian(w, m)
      BY <2>7 DEF Carries
    <2>9. Number(BigEndian(w, m)) = m
      BY <2>7, NumbersComeBack
    <2>10. QED
      BY <2>1, <2>4, <2>5, <2>6, <2>7, <2>8, <2>9
  <1>4. Unmarshall(layout, data) = [name \in names |-> Value(name)]
    BY <1>2 DEF Unmarshall
  <1>5. QED
    <2> HIDE DEF Value
    <2>1. QED
      BY <1>3, <1>4 DEF FieldsOf

(* binary.Read gets back the struct that binary.Write wrote, for every      *)
(* layout of the protocol or any other: fields of whatever width, in        *)
(* whatever order, none of them in the place of another, and whatever bytes *)
(* come behind them (the extensions of an announce, its peers, the hashes   *)

\* The fields of a layout, written out
FieldAt(layout, i, name, width) == layout[i] = <<name, width>>

(* The head of every request.                                               *)
LEMMA RequestIs ==
    /\ Len(Request) = 3 /\ DOMAIN Request = 1..3
    /\ FieldAt(Request, 1, "ID", 8) /\ FieldAt(Request, 2, "Action", 4)
    /\ FieldAt(Request, 3, "TransactionID", 4)
  BY DEF Request, FieldAt

(* The head of every request is a layout.                                   *)
LEMMA RequestLayout ==
    IsLayout(Request, 3)
  <1>1. Request = [i \in 1..3 |-> Request[i]]
    BY DEF Request
  <1>2. \A i \in 1..3 : Request[i][2] \in Nat \ {0}
    BY RequestIs DEF FieldAt
  <1>3. \A i, j \in 1..3 : Request[i][1] = Request[j][1] => i = j
    BY RequestIs DEF FieldAt
  <1>4. QED
    BY <1>1, <1>2, <1>3, RequestIs DEF IsLayout

(* The fields of an announce, one by one.                                   *)
LEMMA AnnounceIs ==
    /\ Len(AnnounceRequest) = 13 /\ DOMAIN AnnounceRequest = 1..13
    /\ AnnounceRequest = [i \in 1..13 |-> AnnounceRequest[i]]
    /\ FieldAt(AnnounceRequest, 1, "ID", 8) /\ FieldAt(AnnounceRequest, 2, "Action", 4)
    /\ FieldAt(AnnounceRequest, 3, "TransactionID", 4)
    /\ FieldAt(AnnounceRequest, 4, "InfoHash", 20) /\ FieldAt(AnnounceRequest, 5, "PeerID", 20)
    /\ FieldAt(AnnounceRequest, 6, "Downloaded", 8) /\ FieldAt(AnnounceRequest, 7, "Left", 8)
    /\ FieldAt(AnnounceRequest, 8, "Uploaded", 8) /\ FieldAt(AnnounceRequest, 9, "Event", 4)
    /\ FieldAt(AnnounceRequest, 10, "IP", 4) /\ FieldAt(AnnounceRequest, 11, "Key", 4)
    /\ FieldAt(AnnounceRequest, 12, "NumWant", 4) /\ FieldAt(AnnounceRequest, 13, "Port", 2)
  BY DEF AnnounceRequest, Request, FieldAt

(* The fields of an announce are a layout, no name twice.                   *)
LEMMA AnnounceLayout ==
    IsLayout(AnnounceRequest, 13)
  <1>2. \A i \in 1..13 : AnnounceRequest[i][2] \in Nat \ {0}
    BY AnnounceIs DEF FieldAt
  <1>3. \A i, j \in 1..13 : AnnounceRequest[i][1] = AnnounceRequest[j][1] => i = j
    BY AnnounceIs DEF FieldAt
  <1>4. QED
    BY <1>2, <1>3, AnnounceIs DEF IsLayout

(* The head of every reply.                                                 *)
LEMMA ReplyIs ==
    /\ Len(Reply) = 2 /\ DOMAIN Reply = 1..2
    /\ Reply = [i \in 1..2 |-> Reply[i]]
    /\ FieldAt(Reply, 1, "Action", 4) /\ FieldAt(Reply, 2, "TransactionID", 4)
  BY DEF Reply, FieldAt

(* The head of every reply is a layout.                                     *)
LEMMA ReplyLayout ==
    IsLayout(Reply, 2)
  <1>2. \A i \in 1..2 : Reply[i][2] \in Nat \ {0}
    BY ReplyIs DEF FieldAt
  <1>3. \A i, j \in 1..2 : Reply[i][1] = Reply[j][1] => i = j
    BY ReplyIs DEF FieldAt
  <1>4. QED
    BY <1>2, <1>3, ReplyIs DEF IsLayout

(* The fields of the reply to a connect.                                    *)
LEMMA ConnectRespIs ==
    /\ Len(ConnectResp) = 3 /\ DOMAIN ConnectResp = 1..3
    /\ ConnectResp = [i \in 1..3 |-> ConnectResp[i]]
    /\ FieldAt(ConnectResp, 1, "Action", 4) /\ FieldAt(ConnectResp, 2, "TransactionID", 4)
    /\ FieldAt(ConnectResp, 3, "ConnectionID", 8)
  BY DEF ConnectResp, Reply, FieldAt

(* The fields of the reply to a connect are a layout.                       *)
LEMMA ConnectRespLayout ==
    IsLayout(ConnectResp, 3)
  <1>2. \A i \in 1..3 : ConnectResp[i][2] \in Nat \ {0}
    BY ConnectRespIs DEF FieldAt
  <1>3. \A i, j \in 1..3 : ConnectResp[i][1] = ConnectResp[j][1] => i = j
    BY ConnectRespIs DEF FieldAt
  <1>4. QED
    BY <1>2, <1>3, ConnectRespIs DEF IsLayout

(* The fields of the reply to an announce.                                  *)
LEMMA AnnounceRespIs ==
    /\ Len(AnnounceResp) = 5 /\ DOMAIN AnnounceResp = 1..5
    /\ AnnounceResp = [i \in 1..5 |-> AnnounceResp[i]]
    /\ FieldAt(AnnounceResp, 1, "Action", 4) /\ FieldAt(AnnounceResp, 2, "TransactionID", 4)
    /\ FieldAt(AnnounceResp, 3, "Interval", 4) /\ FieldAt(AnnounceResp, 4, "Leechers", 4)
    /\ FieldAt(AnnounceResp, 5, "Seeders", 4)
  BY DEF AnnounceResp, Reply, FieldAt

(* The fields of the reply to an announce are a layout.                     *)
LEMMA AnnounceRespLayout ==
    IsLayout(AnnounceResp, 5)
  <1>2. \A i \in 1..5 : AnnounceResp[i][2] \in Nat \ {0}
    BY AnnounceRespIs DEF FieldAt
  <1>3. \A i, j \in 1..5 : AnnounceResp[i][1] = AnnounceResp[j][1] => i = j
    BY AnnounceRespIs DEF FieldAt
  <1>4. QED
    BY <1>2, <1>3, AnnounceRespIs DEF IsLayout

-----------------------------------------------------------------------------
\* whole has the n fields of layout first
StartsWith(whole, m, layout, n) ==
    /\ IsLayout(whole, m) /\ IsLayout(layout, n) /\ n <= m
    /\ \A i \in 1..n : whole[i] = layout[i]

(* What carries the whole struct carries its first fields.                  *)
LEMMA FirstCarries ==
    ASSUME NEW whole, NEW m, NEW layout, NEW n, StartsWith(whole, m, layout, n),
           NEW r, NEW data, NEW ends, Ends(ends, whole, m), NEW k \in n..m,
           Carries(data, r, whole, ends, k)
    PROVE  \E first : Ends(first, layout, n) /\ Carries(data, r, layout, first, n)
  <1>1. n \in Nat /\ m \in Nat /\ n <= m /\ ends \in [0..m -> Nat]
    BY DEF StartsWith, IsLayout, Ends
  <1>2. PICK first : first = [i \in 0..n |-> ends[i]]
    OBVIOUS
  <1>3. ASSUME NEW i \in 1..n
        PROVE  /\ first[i] = ends[i] /\ first[i - 1] = ends[i - 1]
               /\ ends[i] = ends[i - 1] + whole[i][2] /\ whole[i] = layout[i]
    <2>1. i \in 1..m /\ i \in 0..n /\ i - 1 \in 0..n
      BY <1>1
    <2>2. QED
      BY <1>2, <2>1 DEF StartsWith, Ends
  <1>4. Ends(first, layout, n)
    <2>1. first \in [0..n -> Nat] /\ first[0] = 0
      BY <1>1, <1>2 DEF Ends
    <2>2. QED
      BY <1>3, <2>1 DEF Ends
  <1>5. first[n] <= Len(data)
    <2>1. n \in 0..m
      BY <1>1
    <2>2. ends[n] <= ends[k] /\ ends[k] <= Len(data) /\ ends[n] \in Nat /\ ends[k] \in Nat
      <3>1. IsLayout(whole, m)
        BY DEF StartsWith
      <3>2. \A j \in n..m : ends[n] <= ends[j]
        BY <2>1, <3>1, EndsGrow
      <3>3. k \in 0..m
        BY <1>1
      <3>4. QED
        BY <1>1, <2>1, <3>2, <3>3 DEF Carries
    <2>3. first[n] = ends[n]
      BY <1>1, <1>2
    <2>4. Len(data) \in Nat
      BY DEF Carries
    <2>5. QED
      BY <2>2, <2>3, <2>4
  <1>6. ASSUME NEW i \in 1..n
        PROVE  SubSeq(data, first[i - 1] + 1, first[i])
               = BigEndian(layout[i][2], r[layout[i][1]])
    <2>1. i \in 1..k
      BY <1>1
    <2>2. SubSeq(data, ends[i - 1] + 1, ends[i]) = BigEndian(whole[i][2], r[whole[i][1]])
      BY <2>1 DEF Carries
    <2>3. QED
      BY <1>3, <2>2
  <1>7. QED
    BY <1>4, <1>5, <1>6 DEF Carries

(* binary.Read gets back the struct that binary.Write wrote, for every      *)
(* layout of the protocol or any other: fields of whatever width, in        *)
(* whatever order, none of them in the place of another, and whatever bytes *)
(* come behind them.  A struct that has only the first of the fields gets   *)
(* those: process reads the head of a request before it knows the rest.     *)
THEOREM StructsComeBack ==
    ASSUME NEW whole, NEW m, NEW layout, NEW n, StartsWith(whole, m, layout, n),
           NEW r, Fields(r, whole, m), NEW more \in Seq(Byte)
    PROVE  Unmarshall(layout, Marshall(whole, r) \o more) = FieldsOf(r, layout, n)
  <1>1. IsLayout(whole, m) /\ IsLayout(layout, n) /\ m \in n..m /\ m \in 0..m
    BY DEF StartsWith, IsLayout
  <1>2. PICK ends : Ends(ends, whole, m)
    BY <1>1, EndsExist
  <1>3. PICK d : d = Marshall(whole, r)
    OBVIOUS
  <1>4. Carries(d, r, whole, ends, m)
    BY <1>1, <1>2, <1>3, MarshallIs DEF Written
  <1>5. Carries(d \o more, r, whole, ends, m)
    BY <1>1, <1>2, <1>4, MoreCarries
  <1>6. PICK first : Ends(first, layout, n) /\ Carries(d \o more, r, layout, first, n)
    BY <1>1, <1>2, <1>5, FirstCarries
  <1>7. Fields(r, layout, n)
    <2>1. ASSUME NEW i \in 1..n PROVE Fits(layout[i][2], r[layout[i][1]])
      <3>1. i \in 1..m /\ whole[i] = layout[i]
        <4>1. n \in Nat /\ m \in Nat /\ n <= m
          BY DEF StartsWith, IsLayout
        <4>2. i \in 1..m
          BY <4>1
        <4>3. QED
          BY <4>2 DEF StartsWith
      <3>2. Fits(whole[i][2], r[whole[i][1]])
        BY <3>1 DEF Fields
      <3>3. QED
        BY <3>1, <3>2
    <2>2. QED
      BY <2>1 DEF Fields
  <1>8. QED
    BY <1>1, <1>3, <1>6, <1>7, UnmarshallIs

-----------------------------------------------------------------------------
(* Requests                                                                 *)

(* process cuts the connection id from bytes 1 to 8 and the transaction id  *)
(* from 13 to 16: there the fields of Request end.                          *)
LEMMA RequestEndsAre ==
    ASSUME NEW ends, Ends(ends, Request, 3)
    PROVE  ends[0] = 0 /\ ends[1] = 8 /\ ends[2] = 12 /\ ends[3] = 16
  <1>1. 1 - 1 = 0 /\ 2 - 1 = 1 /\ 3 - 1 = 2 /\ {1, 2, 3} \subseteq 1..3
    OBVIOUS
  <1>2. ends[0] = 0
    BY DEF Ends
  <1>3. ends[1] = ends[0] + 8
    BY <1>1, RequestIs DEF Ends, FieldAt
  <1>4. ends[2] = ends[1] + 4
    BY <1>1, RequestIs DEF Ends, FieldAt
  <1>5. ends[3] = ends[2] + 4
    BY <1>1, RequestIs DEF Ends, FieldAt
  <1>6. QED
    BY <1>2, <1>3, <1>4, <1>5

\* The head of a request: what process knows of it before it has decoded it
HasHead(data, action, id, tx) ==
    /\ data \in Seq(Byte) /\ 16 <= Len(data)
    /\ data[12] = action
    /\ Number(SubSeq(data, 1, 8)) = id /\ Number(SubSeq(data, 13, 16)) = tx
    /\ Unmarshall(Request, data).ID = id
    /\ Unmarshall(Request, data).TransactionID = tx

HeadsRequest(r, action, id, tx) ==
    r.ID = id /\ r.Action = action /\ r.TransactionID = tx

(* A number below 256 is its last byte.                                     *)
LEMMA LastOfFour ==
    ASSUME NEW a \in 0..4 PROVE BigEndian(4, a)[4] = a
  <1>1. LongBytes(BigEndian(4, a), 4, a)
    BY LongBytesOK
  <1>2. (a \div 1) % 256 = a
    OBVIOUS
  <1>3. QED
    BY SMT, <1>1, <1>2 DEF LongBytes

(* The byte that process decides on is the action, the ids are where        *)
(* process looks for them, and where Unmarshall does.                       *)
LEMMA HeadIsRead ==
    ASSUME NEW data, NEW r, NEW ends, Ends(ends, Request, 3), Carries(data, r, Request, ends, 3),
           NEW action \in 0..4, NEW id \in Long, NEW tx \in Long, HeadsRequest(r, action, id, tx)
    PROVE  HasHead(data, action, id, tx)
  <1>1. ends[0] = 0 /\ ends[1] = 8 /\ ends[2] = 12 /\ ends[3] = 16
    BY RequestEndsAre
  <1>2. data \in Seq(Byte) /\ 16 <= Len(data)
    BY <1>1 DEF Carries
  <1>3. /\ 1 - 1 = 0 /\ 2 - 1 = 1 /\ 3 - 1 = 2 /\ 0 + 1 = 1 /\ 8 + 1 = 9 /\ 12 + 1 = 13
        /\ 1 \in 1..3 /\ 2 \in 1..3 /\ 3 \in 1..3
    OBVIOUS
  <1>4. /\ Request[1][1] = "ID" /\ Request[1][2] = 8
        /\ Request[2][1] = "Action" /\ Request[2][2] = 4
        /\ Request[3][1] = "TransactionID" /\ Request[3][2] = 4
    BY RequestIs DEF FieldAt
  <1>5. SubSeq(data, 1, 8) = BigEndian(8, id)
    <2>1. SubSeq(data, ends[1 - 1] + 1, ends[1]) = BigEndian(Request[1][2], r[Request[1][1]])
      BY <1>3 DEF Carries
    <2>2. QED
      BY <1>1, <1>3, <1>4, <2>1 DEF HeadsRequest
  <1>6. SubSeq(data, 9, 12) = BigEndian(4, action)
    <2>1. SubSeq(data, ends[2 - 1] + 1, ends[2]) = BigEndian(Request[2][2], r[Request[2][1]])
      BY <1>3 DEF Carries
    <2>2. QED
      BY <1>1, <1>3, <1>4, <2>1 DEF HeadsRequest
  <1>7. SubSeq(data, 13, 16) = BigEndian(4, tx)
    <2>1. SubSeq(data, ends[3 - 1] + 1, ends[3]) = BigEndian(Request[3][2], r[Request[3][1]])
      BY <1>3 DEF Carries
    <2>2. QED
      BY <1>1, <1>3, <1>4, <2>1 DEF HeadsRequest
  <1>8. Fits(8, id) /\ Fits(4, action) /\ Fits(4, tx)
    BY SMT DEF Fits, Long
  <1>9. Number(SubSeq(data, 1, 8)) = id /\ Number(SubSeq(data, 13, 16)) = tx
    BY <1>5, <1>7, <1>8, NumbersComeBack
  <1>10. data[12] = action
    <2>1. SubSeq(data, 9, 12)[4] = data[12]
      BY <1>2
    <2>2. QED
      BY <1>6, <2>1, LastOfFour
  <1>11. Fields(r, Request, 3)
    <2>1. \A i \in 1..3 : i = 1 \/ i = 2 \/ i = 3
      OBVIOUS
    <2>2. QED
      BY <1>4, <1>8, <2>1 DEF Fields, HeadsRequest
  <1>12. Unmarshall(Request, data) = FieldsOf(r, Request, 3)
    BY <1>11, RequestLayout, UnmarshallIs
  <1>13. /\ FieldsOf(r, Request, 3)["ID"] = id
         /\ FieldsOf(r, Request, 3)["TransactionID"] = tx
    BY <1>3, <1>4 DEF FieldsOf, HeadsRequest
  <1>14. QED
    BY <1>2, <1>9, <1>10, <1>12, <1>13 DEF HasHead

(* The buffer has room for a datagram of up to 1496 bytes.                  *)
LEMMA ReceivedWhole ==
    ASSUME NEW d \in Seq(Byte), Len(d) > 15, Len(d) <= requestSizeMax
    PROVE  Received(d) = {d}
  <1>1. requestSizeMax \in Int
    BY DEF requestSizeMax
  <1>2. PICK n \in Nat : n = Len(d)
    OBVIOUS
  <1>3. Min({n, requestSizeMax}) = n
    <2>1. PICK c : c = CHOOSE x \in {n, requestSizeMax} : \A y \in {n, requestSizeMax} : x <= y
      OBVIOUS
    <2>2. \E x \in {n, requestSizeMax} : \A y \in {n, requestSizeMax} : x <= y
      BY <1>1, <1>2
    <2>3. c \in {n, requestSizeMax} /\ \A y \in {n, requestSizeMax} : c <= y
      BY <2>1, <2>2
    <2>4. c = n
      BY <1>1, <1>2, <2>3
    <2>5. QED
      BY <2>1, <2>4 DEF Min
  <1>4. SubSeq(d, 1, n) = d
    BY <1>2
  <1>5. QED
    BY <1>2, <1>3, <1>4 DEF Received

Actions == /\ ActionConnect = 0 /\ ActionAnnounce = 1 /\ ActionScrape = 2
           /\ ActionError = 3 /\ ActionHeartbeat = 4

(* The numbers of the actions.                                              *)
LEMMA ActionsOK == Actions
  BY DEF Actions, ActionConnect, ActionAnnounce, ActionScrape, ActionError, ActionHeartbeat

(* The action byte alone tells connects and scrapes.                        *)
LEMMA KindIs ==
    ASSUME NEW data
    PROVE  /\ data[12] = 0 => Kind(data) = "connect"
           /\ data[12] = 1 => Kind(data) = AnnounceKind(data)
           /\ data[12] = 2 => Kind(data) = "scrape"
  <1>1. ~(0 > 4) /\ ~(1 > 4) /\ ~(2 > 4) /\ 0 # 4 /\ 1 # 4 /\ 2 # 4 /\ 1 # 0 /\ 2 # 0 /\ 2 # 1
    OBVIOUS
  <1>2. ASSUME data[12] = 0 PROVE Kind(data) = "connect"
    BY Zenon, <1>1, <1>2, ActionsOK DEF Kind, Actions
  <1>3. ASSUME data[12] = 1 PROVE Kind(data) = AnnounceKind(data)
    BY Zenon, <1>1, <1>3, ActionsOK DEF Kind, Actions
  <1>4. ASSUME data[12] = 2 PROVE Kind(data) = "scrape"
    BY Zenon, <1>1, <1>4, ActionsOK DEF Kind, Actions
  <1>5. QED
    BY Zenon, <1>2, <1>3, <1>4

(* A request but a scrape is read right when its head is and its kind is.   *)
LEMMA ReadIs ==
    ASSUME NEW data, NEW action, NEW id, NEW tx, HasHead(data, action, id, tx),
           NEW kind, Kind(data) = kind, kind # "scrape"
    PROVE  ReadAs(kind, id, tx, data)
  BY DEF HasHead, ReadAs

(* The fields of a request's head.                                          *)
LEMMA PrefixIs ==
    ASSUME NEW action, NEW id, NEW tx
    PROVE  HeadsRequest(Prefix(action, id, tx), action, id, tx)
  BY DEF HeadsRequest, Prefix

(* The fields of a request's head have room in it.                          *)
LEMMA PrefixFits ==
    ASSUME NEW r, NEW action \in 0..4, NEW id \in Long, NEW tx \in Long,
           HeadsRequest(r, action, id, tx)
    PROVE  Fields(r, Request, 3)
  <1>1. Fits(8, id) /\ Fits(4, action) /\ Fits(4, tx)
    BY SMT DEF Fits, Long
  <1>2. /\ Request[1][1] = "ID" /\ Request[1][2] = 8
        /\ Request[2][1] = "Action" /\ Request[2][2] = 4
        /\ Request[3][1] = "TransactionID" /\ Request[3][2] = 4
    BY RequestIs DEF FieldAt
  <1>3. \A i \in 1..3 : i = 1 \/ i = 2 \/ i = 3
    OBVIOUS
  <1>4. QED
    BY <1>1, <1>2, <1>3 DEF Fields, HeadsRequest

\* A head and what follows it
(* The head a client writes is 16 bytes and is read as it was written,      *)
(* whatever follows it.                                                     *)
LEMMA HeadWritten ==
    ASSUME NEW action \in 0..4, NEW id \in Long, NEW tx \in Long, NEW more \in Seq(Byte)
    PROVE  /\ HasHead(Marshall(Request, Prefix(action, id, tx)) \o more, action, id, tx)
           /\ Marshall(Request, Prefix(action, id, tx)) \in Seq(Byte)
           /\ Len(Marshall(Request, Prefix(action, id, tx))) = 16
  <1>1. PICK r : r = Prefix(action, id, tx) /\ HeadsRequest(r, action, id, tx)
    BY PrefixIs
  <1>2. Fields(r, Request, 3)
    BY <1>1, PrefixFits
  <1>3. PICK ends : Ends(ends, Request, 3)
    BY RequestLayout, EndsExist
  <1>4. PICK d : d = Marshall(Request, r)
    OBVIOUS
  <1>5. Written(d, r, Request, ends, 3)
    BY <1>2, <1>3, <1>4, RequestLayout, MarshallIs
  <1>6. Carries(d, r, Request, ends, 3) /\ d \in Seq(Byte) /\ Len(d) = 16
    BY <1>3, <1>5, RequestEndsAre DEF Written, Carries
  <1>7. Carries(d \o more, r, Request, ends, 3)
    <2>1. 3 \in 0..3
      OBVIOUS
    <2>2. QED
      BY <1>3, <1>6, <2>1, RequestLayout, MoreCarries
  <1>8. HasHead(d \o more, action, id, tx)
    BY <1>1, <1>3, <1>7, HeadIsRead
  <1>9. QED
    BY <1>1, <1>4, <1>6, <1>8

(* A connect.                                                               *)
LEMMA ConnectsRead ==
    ASSUME NEW id \in Long, NEW tx \in Long, NEW d \in Datagrams("connect", id, tx)
    PROVE  \E data \in Received(d) : ReadAs("connect", id, tx, data)
  <1>1. d = Marshall(Request, Prefix(0, id, tx))
    BY ActionsOK DEF Datagrams, Actions
  <1>2. <<>> \in Seq(Byte) /\ 0 \in 0..4
    OBVIOUS
  <1>3. d \in Seq(Byte) /\ Len(d) = 16 /\ HasHead(d \o <<>>, 0, id, tx)
    BY <1>1, <1>2, HeadWritten
  <1>4. d \o <<>> = d
    BY <1>3
  <1>5. HasHead(d, 0, id, tx)
    BY <1>3, <1>4
  <1>6. Kind(d) = "connect"
    BY <1>5, KindIs DEF HasHead
  <1>7. ReadAs("connect", id, tx, d)
    BY <1>5, <1>6, ReadIs
  <1>8. Received(d) = {d}
    <2>1. Len(d) > 15 /\ Len(d) <= requestSizeMax
      BY <1>3 DEF requestSizeMax
    <2>2. QED
      BY <1>3, <2>1, ReceivedWhole
  <1>9. QED
    BY <1>7, <1>8

(* An announce is 98 bytes, the least that process takes.                   *)
LEMMA AnnounceEndsAre ==
    ASSUME NEW ends, Ends(ends, AnnounceRequest, 13)
    PROVE  ends[13] = 98
  <1> DEFINE Step(i, w) == ends[i] = ends[i - 1] + w
  <1>1. \A i \in 1..13 : ends[i] \in Nat /\ ends[i] = ends[i - 1] + AnnounceRequest[i][2]
    BY DEF Ends
  <1>2. /\ Step(1, 8) /\ Step(2, 4) /\ Step(3, 4) /\ Step(4, 20) /\ Step(5, 20) /\ Step(6, 8)
        /\ Step(7, 8) /\ Step(8, 8) /\ Step(9, 4) /\ Step(10, 4) /\ Step(11, 4)
        /\ Step(12, 4) /\ Step(13, 2)
    <2>1. \A i \in 1..13 : \A name, w : FieldAt(AnnounceRequest, i, name, w) => Step(i, w)
      BY <1>1 DEF FieldAt
    <2> HIDE DEF Step
    <2>2. QED
      BY <2>1, AnnounceIs
  <1>3. ends[0] = 0
    BY DEF Ends
  <1>4. ends[3] = 16
    BY <1>2, <1>3
  <1>5. ends[6] = 64
    BY <1>2, <1>4
  <1>6. ends[9] = 84
    BY <1>2, <1>5
  <1>7. ends[13] = 98
    BY <1>2, <1>6
  <1>8. QED
    BY <1>7

\* r is an announce with these fields
IsAnnounce(r, id, tx, event, port, fill) ==
    /\ HeadsRequest(r, ActionAnnounce, id, tx) /\ r.Event = event /\ r.Port = port
    /\ r.InfoHash = fill /\ r.PeerID = fill /\ r.Downloaded = fill /\ r.Left = fill
    /\ r.Uploaded = fill /\ r.IP = fill /\ r.Key = fill /\ r.NumWant = fill

(* What a client fills an announce in with.                                 *)
LEMMA AnnounceBytesAre ==
    ASSUME NEW id, NEW tx, NEW event, NEW port, NEW fill
    PROVE  \E r : /\ IsAnnounce(r, id, tx, event, port, fill)
                  /\ AnnounceBytes(id, tx, event, port, fill) = Marshall(AnnounceRequest, r)
  <1>1. PICK r : r = [ID |-> id, Action |-> ActionAnnounce, TransactionID |-> tx,
                      InfoHash |-> fill, PeerID |-> fill, Downloaded |-> fill, Left |-> fill,
                      Uploaded |-> fill, Event |-> event, IP |-> fill, Key |-> fill,
                      NumWant |-> fill, Port |-> port]
    OBVIOUS
  <1>2. IsAnnounce(r, id, tx, event, port, fill)
    BY <1>1 DEF IsAnnounce, HeadsRequest
  <1>3. AnnounceBytes(id, tx, event, port, fill) = Marshall(AnnounceRequest, r)
    BY <1>1 DEF AnnounceBytes
  <1>4. QED
    BY <1>2, <1>3

(* The fields of an announce have room in it.                               *)
LEMMA AnnounceFits ==
    ASSUME NEW r, NEW id \in Long, NEW tx \in Long, NEW event \in Long, NEW port \in Short,
           NEW fill \in Long, IsAnnounce(r, id, tx, event, port, fill)
    PROVE  Fields(r, AnnounceRequest, 13)
  <1>1. /\ Fits(8, id) /\ Fits(4, ActionAnnounce) /\ Fits(4, tx) /\ Fits(4, event) /\ Fits(2, port)
        /\ Fits(20, fill) /\ Fits(8, fill) /\ Fits(4, fill)
    BY SMT, ActionsOK DEF Fits, Long, Actions
  <1> DEFINE Good(i) == Fits(AnnounceRequest[i][2], r[AnnounceRequest[i][1]])
  <1>2. \A i, name, w : FieldAt(AnnounceRequest, i, name, w) /\ Fits(w, r[name]) => Good(i)
    BY DEF FieldAt
  <1>3. /\ Fits(8, r["ID"]) /\ Fits(4, r["Action"]) /\ Fits(4, r["TransactionID"])
        /\ Fits(4, r["Event"]) /\ Fits(2, r["Port"])
    BY <1>1 DEF IsAnnounce, HeadsRequest
  <1>4. /\ Fits(20, r["InfoHash"]) /\ Fits(20, r["PeerID"]) /\ Fits(8, r["Downloaded"])
        /\ Fits(8, r["Left"]) /\ Fits(8, r["Uploaded"]) /\ Fits(4, r["IP"])
        /\ Fits(4, r["Key"]) /\ Fits(4, r["NumWant"])
    BY <1>1 DEF IsAnnounce
  <1>5. /\ Good(1) /\ Good(2) /\ Good(3) /\ Good(4) /\ Good(5) /\ Good(6) /\ Good(7) /\ Good(8)
        /\ Good(9) /\ Good(10) /\ Good(11) /\ Good(12) /\ Good(13)
    <2> HIDE DEF Good
    <2>1. QED
      BY <1>2, <1>3, <1>4, AnnounceIs
  <1>6. \A i \in 1..13 : Good(i)
    <2> HIDE DEF Good
    <2>1. \A i \in 1..13 : \/ i = 1 \/ i = 2 \/ i = 3 \/ i = 4 \/ i = 5 \/ i = 6 \/ i = 7
                           \/ i = 8 \/ i = 9 \/ i = 10 \/ i = 11 \/ i = 12 \/ i = 13
      OBVIOUS
    <2>2. QED
      BY <1>5, <2>1
  <1>7. QED
    BY <1>6 DEF Fields

(* An announce starts with the head of every request.                       *)
LEMMA AnnounceHead == StartsWith(AnnounceRequest, 13, Request, 3)
  <1>1. \A i \in 1..3 : AnnounceRequest[i] = Request[i]
    <2>1. \A i \in 1..3 : i = 1 \/ i = 2 \/ i = 3
      OBVIOUS
    <2>2. QED
      BY <2>1, AnnounceIs, RequestIs DEF FieldAt
  <1>2. QED
    BY <1>1, AnnounceLayout, RequestLayout DEF StartsWith

\* The kind of an announce
KindOf(event, port) ==
    IF port = 0 THEN "bad port" ELSE IF event = EventStopped THEN "stop" ELSE "announce"

Appended(all, s, t) == all \in Seq(Byte) /\ Len(all) = Len(s) + Len(t)

(* Bytes after bytes are bytes.                                             *)
LEMMA AppendedOK ==
    ASSUME NEW s \in Seq(Byte), NEW t \in Seq(Byte)
    PROVE  Appended(s \o t, s, t)
  BY ConcatProperties DEF Appended

(* What follows the fields of an announce does not change them.             *)
LEMMA MoreAnnounced ==
    ASSUME NEW ends, Ends(ends, AnnounceRequest, 13), NEW r, NEW b, Len(b) = 98,
           Carries(b, r, AnnounceRequest, ends, 13), NEW more \in Seq(Byte)
    PROVE  /\ b \o more \in Seq(Byte) /\ Len(b \o more) = 98 + Len(more)
           /\ Carries(b \o more, r, AnnounceRequest, ends, 13)
  <1>1. b \in Seq(Byte)
    BY DEF Carries
  <1>2. b \o more \in Seq(Byte) /\ Len(b \o more) = 98 + Len(more)
    <2>1. Appended(b \o more, b, more)
      BY <1>1, AppendedOK
    <2>2. QED
      BY <2>1 DEF Appended
  <1>3. PICK n, layout : n = 13 /\ n \in 0..n /\ layout = AnnounceRequest
    OBVIOUS
  <1>4. Carries(b \o more, r, layout, ends, n)
    BY <1>3, AnnounceLayout, MoreCarries
  <1>5. QED
    BY <1>2, <1>3, <1>4

(* An announce is taken for what it is: its size is no smaller than process *)
(* wants, and the port and the event it goes by are those that were sent,   *)
(* whatever the other fields have in them and whatever follows them.        *)
LEMMA AnnounceRead ==
    ASSUME NEW id \in Long, NEW tx \in Long, NEW event \in Long, NEW port \in Short,
           NEW fill \in Long, NEW more \in Seq(Byte), 98 + Len(more) <= requestSizeMax,
           NEW d, d = AnnounceBytes(id, tx, event, port, fill) \o more
    PROVE  \E data \in Received(d) : ReadAs(KindOf(event, port), id, tx, data)
  <1>1. PICK r : /\ IsAnnounce(r, id, tx, event, port, fill)
                 /\ AnnounceBytes(id, tx, event, port, fill) = Marshall(AnnounceRequest, r)
    BY AnnounceBytesAre
  <1>2. Fields(r, AnnounceRequest, 13)
    BY <1>1, AnnounceFits
  <1>3. PICK ends : Ends(ends, AnnounceRequest, 13)
    BY AnnounceLayout, EndsExist
  <1>4. PICK b : b = Marshall(AnnounceRequest, r)
    OBVIOUS
  <1>5. Written(b, r, AnnounceRequest, ends, 13)
    BY <1>2, <1>3, <1>4, AnnounceLayout, MarshallIs
  <1>6. Carries(b, r, AnnounceRequest, ends, 13) /\ b \in Seq(Byte) /\ Len(b) = 98
    BY <1>3, <1>5, AnnounceEndsAre DEF Written, Carries
  <1>7. d = b \o more
    BY <1>1, <1>4
  <1>8. d \in Seq(Byte) /\ Len(d) = 98 + Len(more) /\ Carries(d, r, AnnounceRequest, ends, 13)
    BY <1>3, <1>6, <1>7, MoreAnnounced
  <1>9. Len(d) >= 98 /\ Len(d) <= requestSizeMax
    BY <1>8
  <1>10. HasHead(d, 1, id, tx)
    <2>1. PICK first : Ends(first, Request, 3) /\ Carries(d, r, Request, first, 3)
      <3>1. 13 \in 3..13
        OBVIOUS
      <3>2. QED
        BY <1>3, <1>8, <3>1, AnnounceHead, FirstCarries
    <2>2. HeadsRequest(r, 1, id, tx) /\ 1 \in 0..4
      BY <1>1, ActionsOK DEF IsAnnounce, Actions
    <2>3. QED
      BY <2>1, <2>2, HeadIsRead
  <1>11. PICK announce : /\ announce = Unmarshall(AnnounceRequest, d)
                         /\ announce = FieldsOf(r, AnnounceRequest, 13)
    BY <1>2, <1>3, <1>8, AnnounceLayout, UnmarshallIs
  <1>12. announce.Port = port /\ announce.Event = event
    <2>1. AnnounceRequest[13][1] = "Port" /\ AnnounceRequest[9][1] = "Event"
      BY AnnounceIs DEF FieldAt
    <2>2. 13 \in 1..13 /\ 9 \in 1..13
      OBVIOUS
    <2>3. announce["Port"] = r["Port"] /\ announce["Event"] = r["Event"]
      BY <1>11, <2>1, <2>2 DEF FieldsOf
    <2>4. QED
      BY <1>1, <2>3 DEF IsAnnounce
  <1>13. AnnounceKind(d) = KindOf(event, port)
    <2>1. ~(Len(d) < 98)
      <3>1. Len(d) \in Int
        BY <1>8
      <3>2. QED
        BY <1>9, <3>1
    <2>2. QED
      BY <1>11, <1>12, <2>1 DEF AnnounceKind, KindOf
  <1>14. Kind(d) = KindOf(event, port)
    BY <1>10, <1>13, KindIs DEF HasHead
  <1>15. KindOf(event, port) # "scrape"
    BY DEF KindOf
  <1>16. ReadAs(KindOf(event, port), id, tx, d)
    BY <1>10, <1>14, <1>15, ReadIs
  <1>17. Received(d) = {d}
    <2>1. Len(d) > 15
      BY <1>9
    <2>2. QED
      BY <1>8, <1>9, <2>1, ReceivedWhole
  <1>18. QED
    BY <1>16, <1>17

(* The smaller of two.                                                      *)
LEMMA MinOfTwo ==
    ASSUME NEW a \in Nat, NEW b \in Nat
    PROVE  Min({a, b}) = IF a <= b THEN a ELSE b
  <1>1. PICK c : c = CHOOSE x \in {a, b} : \A y \in {a, b} : x <= y
    OBVIOUS
  <1>2. \E x \in {a, b} : \A y \in {a, b} : x <= y
    <2>1. a <= a /\ b <= b /\ (a <= b \/ b <= a)
      OBVIOUS
    <2>2. QED
      BY <2>1
  <1>3. c \in {a, b} /\ \A y \in {a, b} : c <= y
    BY <1>1, <1>2
  <1>4. c = IF a <= b THEN a ELSE b
    BY <1>3
  <1>5. QED
    BY <1>1, <1>4 DEF Min

\* u is n bytes of s, from byte a on
CutFrom(u, s, a, n) ==
    /\ u \in Seq(Byte) /\ Len(u) = n /\ u = [i \in 1..n |-> u[i]]
    /\ \A i \in 1..n : u[i] = s[a + i - 1]

(* A cut has the bytes from its first to its last.                          *)
LEMMA CutFromOK ==
    ASSUME NEW s \in Seq(Byte), NEW a \in Nat \ {0}, NEW n \in Nat, NEW b \in Nat,
           b = a + n - 1, b <= Len(s)
    PROVE  CutFrom(SubSeq(s, a, b), s, a, n)
  <1>1. \A i \in a..b : s[i] \in Byte
    <2>1. Len(s) \in Nat /\ \A i \in 1..Len(s) : s[i] \in Byte
      OBVIOUS
    <2>2. QED
      BY <2>1
  <1>2. PICK u : u = SubSeq(s, a, b)
    OBVIOUS
  <1>3. /\ u \in Seq(Byte) /\ Len(u) = IF a <= b THEN b - a + 1 ELSE 0
        /\ \A i \in 1..b - a + 1 : u[i] = s[a + i - 1]
    <2>1. a \in Int /\ b \in Int
      OBVIOUS
    <2>2. QED
      BY <1>1, <1>2, <2>1, SubSeqProperties
  <1>4. Len(u) = n /\ b - a + 1 = n
    BY <1>3
  <1>5. u = [i \in 1..n |-> u[i]]
    BY <1>3, <1>4
  <1>6. QED
    BY <1>2, <1>3, <1>4, <1>5 DEF CutFrom

\* What is cut from behind s, and from the front of s and more
Behind(s, t, a, b) == SubSeq(s \o t, Len(s) + a, Len(s) + b) = SubSeq(t, a, b)
Ahead(s, t, c) == SubSeq(s \o t, 1, Len(s) + c) = s \o SubSeq(t, 1, c)

(* What is cut from behind s is cut from what follows s.                    *)
LEMMA BehindOK ==
    ASSUME NEW s \in Seq(Byte), NEW t \in Seq(Byte), NEW a \in Nat \ {0}, NEW n \in Nat,
           NEW b \in Nat, b = a + n - 1, b <= Len(t)
    PROVE  Behind(s, t, a, b)
  <1>1. PICK st : st = s \o t /\ st \in Seq(Byte) /\ Len(st) = Len(s) + Len(t)
    BY ConcatProperties
  <1>2. PICK m \in Nat : m = Len(s)
    OBVIOUS
  <1>3. \A i \in 1..Len(t) : st[m + i] = t[i]
    BY <1>1, <1>2
  <1>4. PICK u : u = SubSeq(st, m + a, m + b) /\ CutFrom(u, st, m + a, n)
    <2>1. PICK c, d : c = m + a /\ d = m + b
      OBVIOUS
    <2>2. c \in Nat \ {0} /\ d \in Nat /\ d = c + n - 1 /\ d <= Len(st)
      <3>1. Len(t) \in Nat
        OBVIOUS
      <3>2. QED
        BY <1>1, <1>2, <2>1, <3>1
    <2>3. CutFrom(SubSeq(st, c, d), st, c, n)
      BY <1>1, <2>2, CutFromOK
    <2>4. QED
      BY <2>1, <2>3
  <1>5. PICK v : v = SubSeq(t, a, b) /\ CutFrom(v, t, a, n)
    BY CutFromOK
  <1>6. ASSUME NEW i \in 1..n PROVE u[i] = v[i]
    <2>1. u[i] = st[(m + a) + i - 1] /\ v[i] = t[a + i - 1]
      BY <1>4, <1>5 DEF CutFrom
    <2>2. (m + a) + i - 1 = m + (a + i - 1) /\ a + i - 1 \in 1..Len(t)
      <3>1. Len(t) \in Nat
        OBVIOUS
      <3>2. QED
        BY <1>2, <3>1
    <2>3. st[m + (a + i - 1)] = t[a + i - 1]
      BY <1>3, <2>2
    <2>4. QED
      BY <2>1, <2>2, <2>3
  <1>7. u = v
    BY <1>4, <1>5, <1>6 DEF CutFrom
  <1>8. QED
    BY <1>1, <1>2, <1>4, <1>5, <1>7 DEF Behind

(* What is cut from the front and goes beyond s is s and the front of what  *)
(* follows.                                                                 *)
LEMMA AheadOK ==
    ASSUME NEW s \in Seq(Byte), NEW t \in Seq(Byte), NEW c \in Nat, c <= Len(t)
    PROVE  Ahead(s, t, c)
  <1>1. PICK st : st = s \o t /\ st \in Seq(Byte) /\ Len(st) = Len(s) + Len(t)
    BY ConcatProperties
  <1>2. PICK m \in Nat : m = Len(s)
    OBVIOUS
  <1>3. (\A i \in 1..m : st[i] = s[i]) /\ (\A i \in 1..Len(t) : st[m + i] = t[i])
    BY <1>1, <1>2
  <1>4. PICK u : u = SubSeq(st, 1, m + c) /\ CutFrom(u, st, 1, m + c)
    <2>1. PICK d : d = m + c
      OBVIOUS
    <2>2. 1 \in Nat \ {0} /\ d \in Nat /\ d = 1 + d - 1 /\ d <= Len(st)
      <3>1. Len(t) \in Nat
        OBVIOUS
      <3>2. QED
        BY <1>1, <1>2, <2>1, <3>1
    <2>3. CutFrom(SubSeq(st, 1, d), st, 1, d)
      BY <1>1, <2>2, CutFromOK
    <2>4. QED
      BY <2>1, <2>3
  <1>5. PICK v : v = SubSeq(t, 1, c) /\ CutFrom(v, t, 1, c)
    <2>1. 1 \in Nat \ {0} /\ c = 1 + c - 1
      OBVIOUS
    <2>2. CutFrom(SubSeq(t, 1, c), t, 1, c)
      BY <2>1, CutFromOK
    <2>3. QED
      BY <2>2
  <1>6. v \in Seq(Byte) /\ Len(v) = c
    BY <1>5 DEF CutFrom
  <1>7. PICK x : x = s \o v /\ x \in Seq(Byte) /\ Len(x) = Len(s) + Len(v)
    BY <1>6, ConcatProperties
  <1>8. (\A i \in 1..m : x[i] = s[i]) /\ (\A i \in 1..c : x[m + i] = v[i])
    BY <1>2, <1>6, <1>7
  <1>9. ASSUME NEW i \in 1..m + c PROVE u[i] = x[i]
    <2>1. u[i] = st[i]
      <3>1. u[i] = st[1 + i - 1] /\ 1 + i - 1 = i
        BY <1>4 DEF CutFrom
      <3>2. QED
        BY <3>1
    <2>2. CASE i \in 1..m
      BY <1>3, <1>8, <2>1, <2>2
    <2>3. CASE i \notin 1..m
      <3>1. PICK j \in 1..c : i = m + j
        <4>1. i - m \in 1..c /\ i = m + (i - m)
          BY <1>2, <2>3
        <4>2. QED
          BY <4>1
      <3>2. j \in 1..Len(t)
        <4>1. Len(t) \in Nat
          OBVIOUS
        <4>2. QED
          BY <3>1, <4>1
      <3>3. v[j] = t[j]
        <4>1. v[j] = t[1 + j - 1] /\ 1 + j - 1 = j
          BY <1>5, <3>1 DEF CutFrom
        <4>2. QED
          BY <4>1
      <3>4. st[i] = t[j] /\ x[i] = v[j]
        BY <1>3, <1>8, <3>1, <3>2
      <3>5. QED
        BY <2>1, <3>3, <3>4
    <2>4. QED
      BY <2>2, <2>3
  <1>10. x = [i \in 1..m + c |-> x[i]]
    <2>1. Len(x) = m + c
      BY <1>2, <1>6, <1>7
    <2>2. x = [i \in 1..Len(x) |-> x[i]]
      <3>1. \A y \in Seq(Byte) : y = [i \in 1..Len(y) |-> y[i]]
        OBVIOUS
      <3>2. x \in Seq(Byte)
        BY <1>7
      <3>3. QED
        BY <3>1, <3>2
    <2>3. QED
      BY <2>1, <2>2
  <1>11. u = x
    BY <1>4, <1>9, <1>10 DEF CutFrom
  <1>12. QED
    BY <1>1, <1>2, <1>4, <1>5, <1>7, <1>11 DEF Ahead

\* flat is n hashes: numbers from 1 on
Hashes(flat, n) ==
    /\ flat \in Seq(Byte) /\ Len(flat) = 20 * n
    /\ \A i \in 1..n : SubSeq(flat, 20 * i - 19, 20 * i) = BigEndian(20, i)

(* The hashes of a scrape lie behind each other, 20 bytes each.             *)
LEMMA HashesAre ==
    ASSUME NEW n \in Nat
    PROVE  Hashes(FlattenSeq([i \in 1..n |-> BigEndian(20, i)]), n)
  <1>1. PICK seqs : seqs = [i \in 1..n |-> BigEndian(20, i)]
    OBVIOUS
  <1>2. CASE n = 0
    <2>1. Len(seqs) = 0 /\ seqs \in Seq(Byte)
      <3>1. seqs \in [1..n -> Byte]
        BY <1>1, <1>2
      <3>2. QED
        BY <1>2, <3>1, SeqDef
    <2>2. FlattenSeq(seqs) = seqs
      BY <2>1 DEF FlattenSeq
    <2>3. 1..n = {} /\ 20 * n = 0
      BY <1>2
    <2>4. Hashes(seqs, n)
      BY <2>1, <2>3 DEF Hashes
    <2>5. QED
      BY <1>1, <2>2, <2>4
  <1>3. CASE n # 0
    <2>1. ASSUME NEW i \in 1..n PROVE seqs[i] \in Seq(Byte) /\ Len(seqs[i]) = 20
      <3>1. i \in Int /\ 20 \in Nat
        OBVIOUS
      <3>2. QED
        BY <1>1, <3>1, BytesOK
    <2>2. seqs \in [1..n -> Seq(Byte)]
      BY <1>1, <2>1
    <2>3. PICK ends : ends = [i \in 0..n |-> 20 * i]
      OBVIOUS
    <2>4. Lengths(ends, seqs, n)
      <3>1. ends \in [0..n -> Nat] /\ ends[0] = 0
        BY <2>3
      <3>2. \A i \in 1..n : ends[i] = ends[i - 1] + Len(seqs[i])
        <4>1. \A i \in 1..n : ends[i] = 20 * i /\ ends[i - 1] = 20 * (i - 1)
          BY <2>3
        <4>2. \A i \in 1..n : Len(seqs[i]) = 20 /\ 20 * i = 20 * (i - 1) + 20
          BY <2>1
        <4>3. QED
          BY <4>1, <4>2
      <3>3. \A i \in 0..n : \A k \in i..n : ends[i] <= ends[k]
        BY <2>3
      <3>4. QED
        BY <3>1, <3>2, <3>3 DEF Lengths
    <2>5. n \in Nat \ {0}
      BY <1>3
    <2>6. PICK flat : flat = FlattenSeq(seqs) /\ JoinedTo(flat, seqs, ends, n)
      BY <2>2, <2>4, <2>5, FlattenIs
    <2>7. flat \in Seq(Byte) /\ Len(flat) = 20 * n
      BY <2>3, <2>6 DEF JoinedTo
    <2>8. ASSUME NEW i \in 1..n PROVE SubSeq(flat, 20 * i - 19, 20 * i) = BigEndian(20, i)
      <3>1. ends[i] = 20 * i /\ ends[i - 1] + 1 = 20 * i - 19
        BY <2>3
      <3>2. SubSeq(flat, ends[i - 1] + 1, ends[i]) = seqs[i]
        BY <2>6 DEF JoinedTo
      <3>3. QED
        BY <1>1, <3>1, <3>2
    <2>9. QED
      BY <1>1, <2>6, <2>7, <2>8 DEF Hashes
  <1>4. QED
    BY <1>2, <1>3

(* 74 hashes fill process's buffer.                                         *)
LEMMA HashesFit ==
    ASSUME NEW n \in Nat
    PROVE  16 + 20 * n <= requestSizeMax <=> n <= 74
  BY SMT DEF requestSizeMax

HashesCome(head, flat, k, whole) ==
    /\ Received(head \o flat) = {head \o whole} /\ whole \in Seq(Byte)
    /\ InfoHashes(head \o whole) = [i \in 1..k |-> i]

(* Of the hashes of a scrape process gets those that are whole in its       *)
(* buffer, the first 74, each as it was sent.                               *)
LEMMA HashesRead ==
    ASSUME NEW head \in Seq(Byte), Len(head) = 16, NEW n \in Nat,
           \A i \in 1..n : Fits(20, i), NEW flat, Hashes(flat, n),
           NEW k, k = Min({n, 74}), NEW whole, whole = SubSeq(flat, 1, 20 * k)
    PROVE  HashesCome(head, flat, k, whole)
  <1>1. k \in Nat /\ k <= n /\ k <= 74 /\ k = IF n <= 74 THEN n ELSE 74
    BY MinOfTwo
  <1>2. flat \in Seq(Byte) /\ Len(flat) = 20 * n /\ 20 * k <= 20 * n
    BY <1>1 DEF Hashes
  <1>3. PICK d : d = head \o flat /\ d \in Seq(Byte) /\ Len(d) = 16 + 20 * n
    <2>1. Appended(head \o flat, head, flat)
      BY <1>2, AppendedOK
    <2>2. QED
      BY <1>2, <2>1 DEF Appended
  <1>4. Min({Len(d), requestSizeMax}) = 16 + 20 * k
    <2>1. PICK len \in Nat : len = 16 + 20 * n
      OBVIOUS
    <2>2. requestSizeMax \in Nat
      BY SMT DEF requestSizeMax
    <2>3. Min({len, requestSizeMax}) = IF len <= requestSizeMax THEN len ELSE requestSizeMax
      BY <2>2, MinOfTwo
    <2>4. len <= requestSizeMax <=> n <= 74
      BY <2>1, HashesFit
    <2>5. n > 74 => requestSizeMax = 16 + 20 * 74
      BY SMT DEF requestSizeMax
    <2>6. Len(d) = len
      BY <1>3, <2>1
    <2>7. CASE n <= 74
      BY <1>1, <2>1, <2>3, <2>4, <2>6, <2>7
    <2>8. CASE ~(n <= 74)
      <3>1. k = 74 /\ n > 74
        BY <1>1, <2>8
      <3>2. QED
        BY <2>3, <2>4, <2>5, <2>6, <2>8, <3>1
    <2>9. QED
      BY <2>7, <2>8
  <1>5. PICK c \in Nat : c = 20 * k
    BY <1>1
  <1>6. PICK u : u = SubSeq(flat, 1, c) /\ CutFrom(u, flat, 1, c)
    <2>1. 1 \in Nat \ {0} /\ c = 1 + c - 1 /\ c <= Len(flat)
      BY <1>2, <1>5
    <2>2. CutFrom(SubSeq(flat, 1, c), flat, 1, c)
      BY <1>2, <2>1, CutFromOK
    <2>3. QED
      BY <2>2
  <1>7. u \in Seq(Byte) /\ Len(u) = c
    BY <1>6 DEF CutFrom
  <1>8. SubSeq(d, 1, 16 + c) = head \o u
    <2>1. Ahead(head, flat, c)
      <3>1. c <= Len(flat)
        BY <1>2, <1>5
      <3>2. QED
        BY <1>2, <3>1, AheadOK
    <2>2. QED
      BY <1>3, <1>6, <2>1 DEF Ahead
  <1>9. Received(d) = {head \o u}
    <2>1. Len(d) > 15
      BY <1>3
    <2>2. QED
      BY <1>4, <1>5, <1>8, <2>1 DEF Received
  <1>10. PICK data : data = head \o u /\ data \in Seq(Byte) /\ Len(data) = 16 + c
    <2>1. Appended(head \o u, head, u)
      BY <1>7, AppendedOK
    <2>2. QED
      BY <1>7, <2>1 DEF Appended
  <1>11. ASSUME NEW i \in 1..k
         PROVE  Number(SubSeq(data, 17 + (i - 1) * HashSize, 16 + i * HashSize)) = i
    <2>1. PICK a \in Nat \ {0} : a = 20 * i - 19
      OBVIOUS
    <2>2. PICK b \in Nat : b = 20 * i
      OBVIOUS
    <2>3. b = a + 20 - 1 /\ b <= c /\ i \in Nat /\ 20 \in Nat
      BY <1>1, <1>5, <2>1, <2>2
    <2>4. Behind(head, u, a, b)
      BY <1>7, <2>3, BehindOK
    <2>5. SubSeq(data, 16 + a, 16 + b) = SubSeq(u, a, b)
      BY <1>10, <2>4 DEF Behind
    <2>6. SubSeq(u, a, b) = SubSeq(flat, a, b)
      <3>1. PICK p : p = SubSeq(u, a, b) /\ CutFrom(p, u, a, 20)
        BY <1>7, <2>3, CutFromOK
      <3>2. PICK q : q = SubSeq(flat, a, b) /\ CutFrom(q, flat, a, 20)
        <4>1. b <= Len(flat)
          BY <1>2, <1>5, <2>3
        <4>2. QED
          BY <1>2, <2>3, <4>1, CutFromOK
      <3>3. \A j \in 1..20 : p[j] = u[a + j - 1] /\ q[j] = flat[a + j - 1]
        BY <3>1, <3>2 DEF CutFrom
      <3>4. \A j \in 1..c : u[j] = flat[j]
        <4>1. \A j \in 1..c : u[j] = flat[1 + j - 1] /\ 1 + j - 1 = j
          BY <1>6 DEF CutFrom
        <4>2. QED
          BY <4>1
      <3>5. \A j \in 1..20 : a + j - 1 \in 1..c
        BY <2>3
      <3>6. \A j \in 1..20 : p[j] = q[j]
        BY <3>3, <3>4, <3>5
      <3>7. p = q
        BY <3>1, <3>2, <3>6 DEF CutFrom
      <3>8. QED
        BY <3>1, <3>2, <3>7
    <2>7. SubSeq(flat, a, b) = BigEndian(20, i)
      <3>1. i \in 1..n
        BY <1>1
      <3>2. QED
        BY <2>1, <2>2, <3>1 DEF Hashes
    <2>8. Number(BigEndian(20, i)) = i
      <3>1. Fits(20, i)
        BY <1>1
      <3>2. QED
        BY <3>1, NumbersComeBack
    <2>9. 17 + (i - 1) * HashSize = 16 + a /\ 16 + i * HashSize = 16 + b
      BY <2>1, <2>2, <2>3 DEF HashSize
    <2>10. QED
      BY <2>5, <2>6, <2>7, <2>8, <2>9
  <1>12. (Len(data) - 16) \div HashSize = k
    <2>1. (20 * k) \div 20 = k
      BY <1>1
    <2>2. Len(data) - 16 = 20 * k
      <3>1. PICK len : len = Len(data) /\ len = 16 + c
        BY <1>10
      <3>2. len - 16 = c
        BY <1>5, <3>1
      <3>3. QED
        BY <1>5, <3>1, <3>2
    <2>3. QED
      BY <2>1, <2>2 DEF HashSize
  <1>13. InfoHashes(data) = [i \in 1..k |-> i]
    BY <1>11, <1>12 DEF InfoHashes
  <1>14. QED
    BY <1>3, <1>5, <1>6, <1>7, <1>9, <1>10, <1>13 DEF HashesCome

(* A scrape.                                                                *)
LEMMA ScrapesRead ==
    ASSUME NEW id \in Long, NEW tx \in Long, NEW d \in Datagrams("scrape", id, tx)
    PROVE  \E data \in Received(d) : ReadAs("scrape", id, tx, data)
  <1>1. PICK n \in HashCounts :
           d = Marshall(Request, Prefix(2, id, tx)) \o
               FlattenSeq([i \in 1..n |-> BigEndian(20, i)])
    <2>1. Datagrams("scrape", id, tx) =
             {Marshall(Request, Prefix(ActionScrape, id, tx)) \o
              FlattenSeq([i \in 1..n |-> BigEndian(HashSize, i)]) : n \in HashCounts}
      BY SMT DEF Datagrams
    <2>2. PICK n \in HashCounts :
             d = Marshall(Request, Prefix(ActionScrape, id, tx)) \o
                 FlattenSeq([i \in 1..n |-> BigEndian(HashSize, i)])
      BY Zenon, <2>1
    <2>3. ActionScrape = 2 /\ HashSize = 20
      BY DEF ActionScrape, HashSize
    <2>4. QED
      BY Zenon, <2>2, <2>3
  <1>2. n \in Nat /\ \A i \in 1..n : Fits(20, i)
    BY SMT DEF HashCounts, Fits, Long
  <1>3. PICK flat : flat = FlattenSeq([i \in 1..n |-> BigEndian(20, i)]) /\ Hashes(flat, n)
    BY <1>2, HashesAre
  <1>4. PICK head : head = Marshall(Request, Prefix(2, id, tx))
    OBVIOUS
  <1>5. <<>> \in Seq(Byte) /\ 2 \in 0..4
    OBVIOUS
  <1>6. head \in Seq(Byte) /\ Len(head) = 16
    BY <1>4, <1>5, HeadWritten
  <1>7. PICK k : k = Min({n, 74})
    OBVIOUS
  <1>8. PICK u : u = SubSeq(flat, 1, 20 * k)
    OBVIOUS
  <1>9. /\ Received(head \o flat) = {head \o u} /\ u \in Seq(Byte)
        /\ InfoHashes(head \o u) = [i \in 1..k |-> i]
    <2>1. HashesCome(head, flat, k, u)
      BY <1>2, <1>3, <1>6, <1>7, <1>8, HashesRead
    <2>2. QED
      BY <2>1 DEF HashesCome
  <1>10. PICK data : data = head \o u /\ HasHead(data, 2, id, tx)
    BY <1>4, <1>5, <1>9, HeadWritten
  <1>11. Kind(data) = "scrape"
    BY <1>10, KindIs DEF HasHead
  <1>12. InfoHashes(data) = [i \in 1..Min({n, 74}) |-> i]
    BY <1>7, <1>9, <1>10
  <1>13. ReadAs("scrape", id, tx, data)
    BY <1>10, <1>11, <1>12 DEF ReadAs, HasHead
  <1>14. d = head \o flat
    BY <1>1, <1>3, <1>4
  <1>15. QED
    BY <1>9, <1>10, <1>13, <1>14

RequestKinds == {"connect", "announce", "stop", "bad port", "scrape"}

(* The numbers of the fields have room in four bytes.                       *)
LEMMA NumbersAreLong == Numbers \subseteq Long /\ Numbers \subseteq Int
  BY SMT DEF Numbers, Long

Extensions == {<<>>, <<2, 1, 0>>}

(* The extensions leave an announce shorter than process's buffer.          *)
LEMMA ExtensionsFit ==
    \A more \in Extensions : more \in Seq(Byte) /\ 98 + Len(more) <= requestSizeMax
  <1>1. <<>> \in Seq(Byte) /\ Len(<<>>) = 0
    OBVIOUS
  <1>2. <<2, 1, 0>> \in Seq(Byte) /\ Len(<<2, 1, 0>>) = 3
    BY DEF Byte
  <1>3. 98 + 0 <= requestSizeMax /\ 98 + 3 <= requestSizeMax
    BY SMT DEF requestSizeMax
  <1>4. QED
    BY <1>1, <1>2, <1>3 DEF Extensions

(* Nothing behind an announce is the announce.                              *)
LEMMA AnnounceAlone ==
    ASSUME NEW id \in Long, NEW tx \in Long, NEW event \in Long, NEW port \in Short,
           NEW fill \in Long, NEW d, d = AnnounceBytes(id, tx, event, port, fill)
    PROVE  \E data \in Received(d) : ReadAs(KindOf(event, port), id, tx, data)
  <1>1. PICK r : /\ IsAnnounce(r, id, tx, event, port, fill)
                 /\ d = Marshall(AnnounceRequest, r)
    BY AnnounceBytesAre
  <1>2. Fields(r, AnnounceRequest, 13)
    BY <1>1, AnnounceFits
  <1>3. d \in Seq(Byte)
    BY <1>1, <1>2, AnnounceLayout, EndsExist, MarshallIs DEF Written, Carries
  <1>4. PICK more : more = <<>> /\ more \in Extensions
    BY DEF Extensions
  <1>5. d = AnnounceBytes(id, tx, event, port, fill) \o more
    <2>1. d \o more = d
      BY <1>3, <1>4
    <2>2. QED
      BY <2>1
  <1>6. QED
    BY <1>4, <1>5, ExtensionsFit, AnnounceRead

(* An announce, with and without extensions.                                *)
LEMMA AnnouncesRead ==
    ASSUME NEW id \in Long, NEW tx \in Long, NEW d \in Datagrams("announce", id, tx)
    PROVE  \E data \in Received(d) : ReadAs("announce", id, tx, data)
  <1>1. PICK port : port = 6881
    OBVIOUS
  <1>2. port \in Short /\ port # 0
    BY SMT, <1>1 DEF Short
  <1> DEFINE Bytes(event, fill, more) == AnnounceBytes(id, tx, event, port, fill) \o more
  <1>3. Datagrams("announce", id, tx) =
           {Bytes(event, fill, more) : event \in 0..2, fill \in Numbers, more \in Extensions}
    BY SMT, <1>1 DEF Datagrams, Extensions
  <1> HIDE DEF Bytes
  <1>4. PICK event \in 0..2, fill \in Numbers, more \in Extensions :
           d = AnnounceBytes(id, tx, event, port, fill) \o more
    <2>1. PICK event \in 0..2, fill \in Numbers, more \in Extensions :
             d = Bytes(event, fill, more)
      BY SMT, <1>3
    <2>2. QED
      BY <2>1 DEF Bytes
  <1>5. KindOf(event, port) = "announce"
    <2>1. event # 3
      OBVIOUS
    <2>2. QED
      BY <1>2, <2>1 DEF KindOf, EventStopped
  <1>6. event \in Long /\ fill \in Long
    <2>1. 0..2 \subseteq Long
      BY SMT DEF Long
    <2>2. QED
      BY <2>1, NumbersAreLong
  <1>7. \E data \in Received(d) : ReadAs(KindOf(event, port), id, tx, data)
    BY <1>2, <1>4, <1>6, ExtensionsFit, AnnounceRead
  <1>8. QED
    BY <1>5, <1>7

(* An announce that says its client stops.                                  *)
LEMMA StopsRead ==
    ASSUME NEW id \in Long, NEW tx \in Long, NEW d \in Datagrams("stop", id, tx)
    PROVE  \E data \in Received(d) : ReadAs("stop", id, tx, data)
  <1>1. Datagrams("stop", id, tx) =
           {AnnounceBytes(id, tx, EventStopped, 1, fill) : fill \in Numbers}
    BY SMT DEF Datagrams
  <1>2. PICK fill \in Numbers : d = AnnounceBytes(id, tx, EventStopped, 1, fill)
    BY Zenon, <1>1
  <1>3. 1 \in Short /\ EventStopped \in Long
    BY SMT DEF Short, Long, EventStopped
  <1>4. fill \in Long
    BY NumbersAreLong
  <1>5. \E data \in Received(d) : ReadAs(KindOf(EventStopped, 1), id, tx, data)
    BY <1>2, <1>3, <1>4, AnnounceAlone
  <1>6. KindOf(EventStopped, 1) = "stop"
    BY DEF KindOf
  <1>7. QED
    BY <1>5, <1>6

BadPorts(id, tx) == {AnnounceBytes(id, tx, event, 0, fill) : event \in 0..3, fill \in Numbers}

(* The announces with port 0.                                               *)
LEMMA BadPortsAre == \A id, tx : Datagrams("bad port", id, tx) = BadPorts(id, tx)
  BY SMT DEF Datagrams, BadPorts

(* An announce with port 0, whatever its event is.                          *)
LEMMA BadPortsRead ==
    ASSUME NEW id \in Long, NEW tx \in Long, NEW d \in BadPorts(id, tx)
    PROVE  \E data \in Received(d) : ReadAs("bad port", id, tx, data)
  <1>1. PICK event \in 0..3, fill \in Numbers : d = AnnounceBytes(id, tx, event, 0, fill)
    BY SMT DEF BadPorts
  <1>2. 0 \in Short /\ \A i \in 0..3 : i \in Long
    <2>1. 0 \in Short
      BY SMT DEF Short
    <2>2. \A i \in 0..3 : i \in Long
      BY SMT DEF Long
    <2>3. QED
      BY <2>1, <2>2
  <1>3. fill \in Long /\ event \in Long
    BY <1>2, NumbersAreLong
  <1>4. \E data \in Received(d) : ReadAs(KindOf(event, 0), id, tx, data)
    BY <1>1, <1>2, <1>3, AnnounceAlone
  <1>5. KindOf(event, 0) = "bad port"
    BY DEF KindOf
  <1>6. QED
    BY Zenon, <1>4, <1>5

(* Every datagram a client can send as a request, whatever ids it carries,  *)
(* is that request to process: decided on its twelfth byte and its length   *)
(* before anything is decoded, it is what Unmarshall finds in the same      *)
(* bytes afterwards.  No request is refused for its size, taken for another *)
(* one or served under another id, and of a scrape that is longer than the  *)
(* buffer the hashes that have room in it are read as they were sent.       *)
THEOREM RequestsAreRead ==
    ASSUME NEW id \in Long, NEW tx \in Long, NEW kind \in RequestKinds,
           NEW d \in Datagrams(kind, id, tx)
    PROVE  \E data \in Received(d) : ReadAs(kind, id, tx, data)
  BY Zenon, ConnectsRead, AnnouncesRead, StopsRead, BadPortsAre, BadPortsRead, ScrapesRead
     DEF RequestKinds

-----------------------------------------------------------------------------
(* Replies                                                                  *)

(* The replies to a connect and to an announce start with the head of every *)
(* reply.                                                                   *)
LEMMA ReplyHeads ==
    /\ StartsWith(Reply, 2, Reply, 2)
    /\ StartsWith(ConnectResp, 3, Reply, 2)
    /\ StartsWith(AnnounceResp, 5, Reply, 2)
  <1>1. \A i \in 1..2 : i = 1 \/ i = 2
    OBVIOUS
  <1>2. \A i \in 1..2 : ConnectResp[i] = Reply[i]
    BY <1>1, ReplyIs, ConnectRespIs DEF FieldAt
  <1>3. \A i \in 1..2 : AnnounceResp[i] = Reply[i]
    BY <1>1, ReplyIs, AnnounceRespIs DEF FieldAt
  <1>4. QED
    BY <1>2, <1>3, ReplyLayout, ConnectRespLayout, AnnounceRespLayout DEF StartsWith

(* What Unmarshall makes of a reply's head is its action and its            *)
(* transaction id.                                                          *)
LEMMA ReplyFields ==
    ASSUME NEW r, NEW action, NEW tx, r.Action = action, r.TransactionID = tx
    PROVE  FieldsOf(r, Reply, 2) = [Action |-> action, TransactionID |-> tx]
  <1>1. {Reply[i][1] : i \in 1..2} = {"Action", "TransactionID"}
    <2>1. Reply[1][1] = "Action" /\ Reply[2][1] = "TransactionID"
      BY ReplyIs DEF FieldAt
    <2>2. 1 \in 1..2 /\ 2 \in 1..2 /\ \A i \in 1..2 : i = 1 \/ i = 2
      OBVIOUS
    <2>3. QED
      BY <2>1, <2>2
  <1>2. FieldsOf(r, Reply, 2) = [name \in {"Action", "TransactionID"} |-> r[name]]
    BY <1>1 DEF FieldsOf
  <1>3. QED
    BY <1>2

\* What a client reads first of a reply
Opens(data, action, tx) ==
    Unmarshall(Reply, data) = [Action |-> action, TransactionID |-> tx]

(* A reply whose first fields are Action and TransactionID opens with them. *)
LEMMA ReplyOpens ==
    ASSUME NEW whole, NEW m, StartsWith(whole, m, Reply, 2), NEW r, Fields(r, whole, m),
           NEW action, NEW tx, r.Action = action, r.TransactionID = tx, NEW more \in Seq(Byte)
    PROVE  Opens(Marshall(whole, r) \o more, action, tx)
  <1>1. Unmarshall(Reply, Marshall(whole, r) \o more) = FieldsOf(r, Reply, 2)
    BY StructsComeBack
  <1>2. QED
    BY <1>1, ReplyFields DEF Opens

(* The reply with an error, whatever it says.                               *)
LEMMA FailedOpens ==
    ASSUME NEW tx \in Long, NEW text \in Seq(Byte)
    PROVE  Opens(Failed(tx, text), ActionError, tx)
  <1>1. PICK r : r = [Action |-> ActionError, TransactionID |-> tx]
    OBVIOUS
  <1>2. Fields(r, Reply, 2)
    <2>1. Fits(4, r["Action"]) /\ Fits(4, r["TransactionID"])
      BY SMT, <1>1, ActionsOK DEF Fits, Long, Actions
    <2>2. \A i \in 1..2 : i = 1 \/ i = 2
      OBVIOUS
    <2>3. QED
      BY <2>1, <2>2, ReplyIs DEF Fields, FieldAt
  <1>3. Opens(Marshall(Reply, r) \o text, ActionError, tx)
    BY <1>1, <1>2, ReplyHeads, ReplyOpens
  <1>4. QED
    BY <1>1, <1>3 DEF Failed

(* The reply to a connect, whatever id it hands out.                        *)
LEMMA ConnectedOpens ==
    ASSUME NEW tx \in Long, NEW id \in Long
    PROVE  Opens(Connected(tx, id), ActionConnect, tx)
  <1>1. PICK r : r = [Action |-> ActionConnect, TransactionID |-> tx, ConnectionID |-> id]
    OBVIOUS
  <1>2. Fields(r, ConnectResp, 3)
    <2>1. Fits(4, r["Action"]) /\ Fits(4, r["TransactionID"]) /\ Fits(8, r["ConnectionID"])
      BY SMT, <1>1, ActionsOK DEF Fits, Long, Actions
    <2>2. \A i \in 1..3 : i = 1 \/ i = 2 \/ i = 3
      OBVIOUS
    <2>3. QED
      BY <2>1, <2>2, ConnectRespIs DEF Fields, FieldAt
  <1>3. PICK d : d = Marshall(ConnectResp, r) /\ d \in Seq(Byte)
    BY <1>2, ConnectRespLayout, EndsExist, MarshallIs DEF Written, Carries
  <1>4. <<>> \in Seq(Byte)
    OBVIOUS
  <1>5. Opens(Marshall(ConnectResp, r) \o <<>>, ActionConnect, tx)
    BY <1>1, <1>2, <1>4, ReplyHeads, ReplyOpens
  <1>6. d \o <<>> = d
    BY <1>3
  <1>7. Opens(Marshall(ConnectResp, r), ActionConnect, tx)
    BY <1>3, <1>5, <1>6
  <1>8. QED
    BY <1>1, <1>7 DEF Connected

(* The reply to an announce, whatever its counts and its peers.             *)
LEMMA AnnouncedOpens ==
    ASSUME NEW tx \in Long, NEW interval \in Long, NEW leechers \in Long, NEW seeders \in Long,
           NEW list \in Seq(Byte)
    PROVE  Opens(Announced(tx, interval, leechers, seeders, list), ActionAnnounce, tx)
  <1>1. PICK r : r = [Action |-> ActionAnnounce, TransactionID |-> tx, Interval |-> interval,
                      Leechers |-> leechers, Seeders |-> seeders]
    OBVIOUS
  <1>2. Fields(r, AnnounceResp, 5)
    <2>1. /\ Fits(4, r["Action"]) /\ Fits(4, r["TransactionID"]) /\ Fits(4, r["Interval"])
          /\ Fits(4, r["Leechers"]) /\ Fits(4, r["Seeders"])
      BY SMT, <1>1, ActionsOK DEF Fits, Long, Actions
    <2>2. \A i \in 1..5 : i = 1 \/ i = 2 \/ i = 3 \/ i = 4 \/ i = 5
      OBVIOUS
    <2>3. QED
      BY <2>1, <2>2, AnnounceRespIs DEF Fields, FieldAt
  <1>3. Opens(Marshall(AnnounceResp, r) \o list, ActionAnnounce, tx)
    BY <1>1, <1>2, ReplyHeads, ReplyOpens
  <1>4. QED
    BY <1>1, <1>3 DEF Announced

AnswerKinds == {"connected", "announce", "stop", "error", "bad port"}

Failures(tx) == {Failed(tx, text) : text \in {<<>>, <<98, 97, 100>>}}

(* The replies with an error are those to a port 0 and to all other errors. *)
LEMMA FailuresAre ==
    \A id, tx : /\ Replies("error", id, tx) = Failures(tx)
                /\ Replies("bad port", id, tx) = Failures(tx)
  <1>1. \A id, tx : Replies("error", id, tx) = Failures(tx)
    BY SMT DEF Replies, Failures
  <1>2. \A id, tx : Replies("bad port", id, tx) = Failures(tx)
    BY SMT DEF Replies, Failures
  <1>3. QED
    BY Zenon, <1>1, <1>2

(* Every reply but the one to a scrape starts with its action and with the  *)
(* transaction id it answers, whatever follows: the peers of an announce,   *)
(* the text of an error, a connection id that is negative.                  *)
THEOREM RepliesAreRead ==
    ASSUME NEW id \in Long, NEW tx \in Long, NEW kind \in AnswerKinds,
           NEW data \in Replies(kind, id, tx)
    PROVE  Opens(data, ActionOf(kind), tx)
  <1>1. CASE kind = "connected"
    <2>1. data = Connected(tx, id) /\ ActionOf(kind) = ActionConnect
      BY <1>1 DEF Replies, ActionOf
    <2>2. QED
      BY <2>1, ConnectedOpens
  <1>2. /\ <<>> \in Seq(Byte) /\ <<98, 97, 100>> \in Seq(Byte)
        /\ <<127, 0, 0, 1, 26, 225>> \in Seq(Byte)
    BY DEF Byte
  <1>3. CASE kind = "announce"
    <2>1. PICK n \in Numbers, list \in {<<>>, <<127, 0, 0, 1, 26, 225>>} :
             data = Announced(tx, n, n, n, list)
      BY <1>3 DEF Replies
    <2>2. ActionOf(kind) = ActionAnnounce
      BY <1>3 DEF ActionOf
    <2>3. n \in Long /\ list \in Seq(Byte)
      BY <1>2, <2>1, NumbersAreLong
    <2>4. QED
      BY <2>1, <2>2, <2>3, AnnouncedOpens
  <1>4. CASE kind = "stop"
    <2>1. data = Announced(tx, -1, -1, -1, <<>>) /\ ActionOf(kind) = ActionAnnounce
      BY <1>4 DEF Replies, Stopped, ActionOf
    <2>2. -1 \in Long
      BY SMT DEF Long
    <2>3. QED
      BY <1>2, <2>1, <2>2, AnnouncedOpens
  <1>5. CASE kind \in {"error", "bad port"}
    <2>1. data \in Failures(tx)
      BY Zenon, <1>5, FailuresAre
    <2>2. PICK text \in {<<>>, <<98, 97, 100>>} : data = Failed(tx, text)
      BY Zenon, <2>1 DEF Failures
    <2>3. ActionOf(kind) = ActionError
      BY <1>5 DEF ActionOf
    <2>4. text \in Seq(Byte)
      BY <1>2, <2>2
    <2>5. QED
      BY <2>2, <2>3, <2>4, FailedOpens
  <1>6. QED
    BY <1>1, <1>3, <1>4, <1>5 DEF AnswerKinds

(* All kinds of requests and all replies but the scrape's are carried.      *)
LEMMA AllCarried ==
    RequestKinds \subseteq CarriedRequests /\ AnswerKinds \subseteq CarriedAnswers
  <1>1. \A pair \in Pairs : pair[1] \in Long /\ pair[2] \in Long
    BY SMT DEF Pairs, Long
  <1>2. ASSUME NEW kind \in RequestKinds PROVE kind \in CarriedRequests
    <2>1. \A pair \in Pairs : \A d \in Datagrams(kind, pair[1], pair[2]) :
             \E data \in Received(d) : ReadAs(kind, pair[1], pair[2], data)
      BY <1>1, RequestsAreRead
    <2>2. QED
      BY <2>1 DEF CarriedRequests, RequestKinds
  <1>3. ASSUME NEW kind \in AnswerKinds PROVE kind \in CarriedAnswers
    <2>1. \A pair \in Pairs : \A data \in Replies(kind, pair[1], pair[2]) :
             Opens(data, ActionOf(kind), pair[2])
      BY <1>1, RepliesAreRead
    <2>2. QED
      BY <2>1 DEF CarriedAnswers, AnswerKinds, Opens
  <1>4. QED
    BY <1>2, <1>3

(* The heartbeat the tracker sends itself is taken for one.                 *)
LEMMA HeartbeatIs == Kind(HeartbeatRequest) = "heartbeat"
  <1>1. HeartbeatRequest[12] = 4
    BY DEF HeartbeatRequest, ActionHeartbeat
  <1>2. QED
    BY <1>1 DEF Kind, ActionHeartbeat

(* What is under way is of a kind whose bytes are told from all others.     *)
LEMMA TypesAreCarried == TypeOK => WireCarriesMessages
  <1> SUFFICES ASSUME TypeOK PROVE WireCarriesMessages
    OBVIOUS
  <1>1. net \subseteq Requests \cup Answers
    BY DEF TypeOK
  <1>2. ASSUME NEW m \in net
        PROVE  IF m \in Requests THEN m.kind \in CarriedRequests
               ELSE m.kind \in CarriedAnswers \/ m.kind = "scrape"
    <2>1. CASE m \in Requests
      <3>1. m.kind \in RequestKinds
        BY <2>1, KindsAssumption DEF Requests, RequestKinds
      <3>2. QED
        BY <2>1, <3>1, AllCarried
    <2>2. CASE m \notin Requests
      <3>1. m \in Answers
        BY <1>1, <2>2
      <3>2. m.kind \in AnswerKinds \/ m.kind = "scrape"
        BY <3>1, KindsAssumption DEF Answers, AnswerKinds
      <3>3. QED
        BY <2>2, <3>2, AllCarried
    <2>3. QED
      BY <2>1, <2>2
  <1>3. QED
    BY <1>2, HeartbeatIs DEF WireCarriesMessages

(* Of all the datagrams that can ever be under way every request is         *)
(* written in bytes that process takes for it, with the ids it was sent     *)
(* with, and every reply but the scrape's in bytes that say which.          *)
THEOREM WireIsRead == Spec => []WireCarriesMessages
  BY TypesAreCarried, TypeCorrect, PTL
=============================================================================
