------------------------------- MODULE UdpWire -------------------------------
(***************************************************************************)
(* The byte layout of the datagrams that UdpTracker exchanges              *)
(* (tracker/udp/protocol), and what process makes of one: it decides on    *)
(* single bytes and the length before, and apart from, the Unmarshall of   *)
(* the same bytes (udptracker.go).  Numbers keep their width and order;    *)
(* a hash, a peer id or an address is a number with its width.             *)
(***************************************************************************)
EXTENDS UdpTracker, SequencesExt

-----------------------------------------------------------------------------
(* encoding/binary, in BigEndian order, for numbers of less than 32 bits   *)

BigEndian(width, n) ==
    [i \in 1..width |-> IF width - i > 3 THEN IF n < 0 THEN 255 ELSE 0
                        ELSE (n \div 256^(width - i)) % 256]

Number(bytes) ==
    LET upTo[i \in 0..Len(bytes)] == IF i > 0 THEN 256 * upTo[i - 1] + bytes[i]
                                     ELSE IF bytes[1] > 127 THEN -1 ELSE 0
    IN upTo[Len(bytes)]

\* A layout is the fields of a struct, in order, each with its width
Size(layout) ==
    LET upTo[i \in 0..Len(layout)] == IF i > 0 THEN upTo[i - 1] + layout[i][2] ELSE 0
    IN upTo[Len(layout)]

\* binary.Write of a struct, and binary.Read of one from the start of data
Marshall(layout, r) ==
    FlattenSeq([i \in DOMAIN layout |-> BigEndian(layout[i][2], r[layout[i][1]])])

Unmarshall(layout, data) ==
    [name \in {field[1] : field \in ToSet(layout)} |->
        LET i == CHOOSE i \in DOMAIN layout : layout[i][1] = name
            start == Size(SubSeq(layout, 1, i - 1))
        IN Number(SubSeq(data, start + 1, start + layout[i][2]))]

-----------------------------------------------------------------------------
(* Requests                                                                *)

Request == << <<"ID", 8>>, <<"Action", 4>>, <<"TransactionID", 4>> >>

AnnounceRequest == Request \o
    << <<"InfoHash", 20>>, <<"PeerID", 20>>, <<"Downloaded", 8>>, <<"Left", 8>>,
       <<"Uploaded", 8>>, <<"Event", 4>>, <<"IP", 4>>, <<"Key", 4>>,
       <<"NumWant", 4>>, <<"Port", 2>> >>

HashSize == 20
requestSizeMax == 1496

EventStopped == 3
ActionConnect == 0
ActionAnnounce == 1
ActionScrape == 2
ActionError == 3
ActionHeartbeat == 4

\* Mutant of AnnounceKind: 98 bytes are too few
AnnounceKindLong(data) ==
    LET announce == Unmarshall(AnnounceRequest, data) IN
    IF Len(data) <= 98 THEN "bad size"
    ELSE IF announce.Port = 0 THEN "bad port"
    ELSE IF announce.Event = EventStopped THEN "stop" ELSE "announce"

AnnounceKind(data) ==
    LET announce == Unmarshall(AnnounceRequest, data) IN
    IF Len(data) < 98 THEN "bad size"
    ELSE IF announce.Port = 0 THEN "bad port"
    ELSE IF announce.Event = EventStopped THEN "stop" ELSE "announce"

\* The branch of process that data takes: action is a single byte
Kind(data) ==
    LET action == data[12] IN
    IF action > ActionHeartbeat THEN "bad action"
    ELSE IF action = ActionHeartbeat THEN "heartbeat"
    ELSE IF action = ActionConnect THEN "connect"
    ELSE IF action = ActionAnnounce THEN AnnounceKind(data)
    ELSE IF action = ActionScrape THEN "scrape" ELSE "unanswered"

\* Scrape.Unmarshall
InfoHashes(data) ==
    [i \in 1..(Len(data) - 16) \div HashSize |->
        Number(SubSeq(data, 17 + (i - 1) * HashSize, 16 + i * HashSize))]

\* What process gets of a datagram: the buffer holds requestSizeMax bytes, and
\* less than a connect is dropped
Received(datagram) ==
    IF Len(datagram) > 15
    THEN {SubSeq(datagram, 1, Min({Len(datagram), requestSizeMax}))} ELSE {}

HeartbeatRequest == [i \in 1..16 |-> IF i = 12 THEN ActionHeartbeat ELSE 0]

-----------------------------------------------------------------------------
(* Replies                                                                 *)

Reply == << <<"Action", 4>>, <<"TransactionID", 4>> >>
ConnectResp == Reply \o << <<"ConnectionID", 8>> >>
AnnounceResp == Reply \o << <<"Interval", 4>>, <<"Leechers", 4>>, <<"Seeders", 4>> >>
ScrapeInfo == << <<"Complete", 4>>, <<"Incomplete", 4>>, <<"Downloaded", 4>> >>

Connected(tx, id) ==
    Marshall(ConnectResp, [Action |-> ActionConnect, TransactionID |-> tx,
                           ConnectionID |-> id])

\* With the counts of HashStats, and the peers as PeerListBytes has packed them
Announced(tx, interval, leechers, seeders, list) ==
    Marshall(AnnounceResp, [Action |-> ActionAnnounce, TransactionID |-> tx,
                            Interval |-> interval, Leechers |-> leechers,
                            Seeders |-> seeders]) \o list

Stopped(tx) == Announced(tx, -1, -1, -1, <<>>)

Failed(tx, text) ==
    Marshall(Reply, [Action |-> ActionError, TransactionID |-> tx]) \o text

\* stats is what HashStats returned for each hash.  bytes.NewBuffer gets a slice
\* that has the size of the reply already, and the reply is written behind it.
Scraped(tx, stats) ==
    [i \in 1..8 + 12 * Len(stats) |-> 0]
    \o Marshall(Reply, [Action |-> ActionScrape, TransactionID |-> tx])
    \o FlattenSeq([i \in DOMAIN stats |->
          Marshall(ScrapeInfo, [Complete |-> stats[i][1], Incomplete |-> stats[i][2],
                                Downloaded |-> -1])])

-----------------------------------------------------------------------------
(* Clients fill requests in and read replies (udp_test.go does both with   *)
(* the same package); what they fill in comes from small sets, from both   *)
(* ends of the widths that numbers of this size reach.                     *)

Numbers == {-1, 0, 1, 255, 256, 65536}
HashCounts == {0, 1, 73, 74, 75}

Prefix(action, id, tx) == [ID |-> id, Action |-> action, TransactionID |-> tx]

AnnounceBytes(id, tx, event, port, fill) ==
    Marshall(AnnounceRequest,
        [ID |-> id, Action |-> ActionAnnounce, TransactionID |-> tx, InfoHash |-> fill,
         PeerID |-> fill, Downloaded |-> fill, Left |-> fill, Uploaded |-> fill,
         Event |-> event, IP |-> fill, Key |-> fill, NumWant |-> fill, Port |-> port])

\* The datagrams that are a request of this kind; an announce may carry
\* extensions behind its last field
Datagrams(kind, id, tx) ==
    CASE kind = "connect" -> {Marshall(Request, Prefix(ActionConnect, id, tx))}
      [] kind = "announce" -> {AnnounceBytes(id, tx, event, 6881, fill) \o more :
             event \in 0..2, fill \in Numbers, more \in {<<>>, <<2, 1, 0>>}}
      [] kind = "stop" -> {AnnounceBytes(id, tx, EventStopped, 1, fill) : fill \in Numbers}
      [] kind = "bad port" -> {AnnounceBytes(id, tx, event, 0, fill) :
             event \in 0..3, fill \in Numbers}
      [] kind = "scrape" -> {Marshall(Request, Prefix(ActionScrape, id, tx)) \o
             FlattenSeq([i \in 1..n |-> BigEndian(HashSize, i)]) : n \in HashCounts}

\* The bytes that stand for an answer of this kind, and the action in them
Replies(kind, id, tx) ==
    CASE kind = "connected" -> {Connected(tx, id)}
      [] kind = "announce" -> {Announced(tx, n, n, n, list) :
             n \in Numbers, list \in {<<>>, <<127, 0, 0, 1, 26, 225>>}}
      [] kind = "stop" -> {Stopped(tx)}
      [] kind = "scrape" -> {Scraped(tx, [i \in 1..n |-> <<1, n>>]) : n \in {0, 1, 74}}
      [] kind \in {"error", "bad port"} -> {Failed(tx, text) : text \in {<<>>, <<98, 97, 100>>}}

ActionOf(kind) ==
    CASE kind = "connected" -> ActionConnect
      [] kind \in {"announce", "stop"} -> ActionAnnounce
      [] kind = "scrape" -> ActionScrape
      [] kind \in {"error", "bad port"} -> ActionError

-----------------------------------------------------------------------------
\* Connection and transaction ids
Pairs == {<<-1, 1>>, <<256, 255>>, <<0, 65536>>}

\* process takes data for this kind of request, with these ids, and so does
\* Unmarshall; of a scrape it gets the hashes that the buffer has room for
ReadAs(kind, id, tx, data) ==
    /\ Kind(data) = kind
    /\ Number(SubSeq(data, 1, 8)) = id /\ Number(SubSeq(data, 13, 16)) = tx
    /\ LET request == Unmarshall(Request, data)
       IN request.ID = id /\ request.TransactionID = tx
    /\ kind = "scrape" => \E n \in HashCounts :
          InfoHashes(data) = [i \in 1..Min({n, 74}) |-> i]

CarriedRequests ==
    {kind \in {"connect", "announce", "stop", "bad port", "scrape"} :
        \A pair \in Pairs : \A datagram \in Datagrams(kind, pair[1], pair[2]) :
            \E data \in Received(datagram) : ReadAs(kind, pair[1], pair[2], data)}

CarriedAnswers ==
    {kind \in {"connected", "announce", "stop", "scrape", "error", "bad port"} :
        \A pair \in Pairs : \A data \in Replies(kind, pair[1], pair[2]) :
            Unmarshall(Reply, data) = [Action |-> ActionOf(kind), TransactionID |-> pair[2]]}

(* Every request under way is written in bytes that process tells from all  *)
(* others, before it has decoded them, and finds the connection id and the  *)
(* transaction id in; the ids are where Unmarshall finds them.  Every reply *)
(* but one starts with its action and the transaction id it answers.  The   *)
(* exception is the reply to a scrape (ScrapeResp.Marshall), which starts   *)
(* with as many zeros as it has bytes.  The controller's heartbeat is none  *)
(* of these requests.                                                       *)
WireCarriesMessages ==
    /\ Kind(HeartbeatRequest) = "heartbeat"
    /\ \A m \in net :
          IF m \in Requests THEN m.kind \in CarriedRequests
          ELSE m.kind \in CarriedAnswers \/ m.kind = "scrape"
=============================================================================
