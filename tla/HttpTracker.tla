---------------------------- MODULE HttpTracker ----------------------------
(***************************************************************************)
(* The HTTP tracker: workers that accept connections, read each once into  *)
(* a buffer they keep, parse it, and answer with dictionaries from a pool; *)
(* and the publishing of the request counters (tracker/http/, pools/,      *)
(* bencoding/dictionary.go, tracker/stats/).                               *)
(*                                                                         *)
(*   conn     each connection: its state, the request, the data that has   *)
(*            come of it, whether the client is gone, and the reply        *)
(*   backlog  the connections not accepted yet                             *)
(*   open     whether the listener is                                      *)
(*   w        program counter and locals of each worker; buffer is data    *)
(*   pool     the dictionaries in pools.Dictionaries                       *)
(*   buf      what has been written to each dictionary                     *)
(*   spare    the bytes after httpSuccessBytes in the array under it       *)
(*   hits     stats.Hits; loaded is what Publish has read of it            *)
(*   unseen, raced   history: the requests there were less those that were *)
(*            published, and those that came during a tick                 *)
(*                                                                         *)
(* A token takes the same room as any other, so that what the buffer keeps *)
(* of earlier requests begins with a whole token, with the escapes still   *)
(* in it.  What the peer database answers is left out (PeerDbConc), and so *)
(* are errors of Accept other than a closed listener.  A write that fails  *)
(* is a write as far as the worker is concerned.                           *)
(***************************************************************************)
EXTENDS HttpParse, FiniteSets

CONSTANTS Workers, Conns,
          Requests,      \* what clients ask, see Rendered
          Dictionaries,
          HashLen,       \* 20, the length of an infohash and of a peer id
          FirstSegment,  \* where a request may be cut
          HeaderLen,     \* len(httpSuccessBytes)
          HeaderCap,     \* cap(httpSuccessBytes)
          MaxTicks,      \* bound on the ticks of Publish
          None

ASSUME SizesAssumption ==
    {HashLen, FirstSegment, HeaderLen, HeaderCap, MaxTicks} \subseteq Nat
ASSUME NoneAssumption == None \notin Conns \cup Dictionaries

VARIABLES conn, backlog, open, w, pool, buf, spare,
          hits, ticks, loaded, unseen, raced

connVars == <<conn, backlog, open>>
dictVars == <<pool, buf>>
statVars == <<hits, ticks, loaded, unseen, raced>>
vars == <<connVars, w, dictVars, spare, statVars>>

-----------------------------------------------------------------------------
(* Requests and replies                                                    *)

Parameter == [key : STRING, val : Seq(Byte)]

\* A request of the grammar: a parameter without a key has no value either,
\* and a value no space and no '&', which would end it, but as an escape.
\* (A method "base64" would be taken for the mark.)
IsRequest(r) ==
    /\ r.method \in STRING \ {"base64"}
    /\ r.path \in STRING /\ r.headers \in STRING /\ r.base64 \in BOOLEAN
    /\ r.query \in Seq(Parameter)
    /\ \A k \in DOMAIN r.query :
          /\ r.query[k].key = "" => r.query[k].val = <<>>
          /\ \A i \in DOMAIN r.query[k].val : r.query[k].val[i] \notin {32, 38}

\* A request as its client means it; a parameter without a key is left empty
Rendered(r) ==
    LET Piece(p) == IF p.key = "" THEN <<>> ELSE <<Param(p.key, p.val)>>
        query == FlattenSeq([k \in DOMAIN r.query |->
                                <<Tok(IF k = 1 THEN "?" ELSE "&")>> \o Piece(r.query[k])])
        tokens == <<Tok(r.method), Tok(" /"), Path(r.path)>> \o query
                     \o <<Tok(" HTTP/"), Tok(r.headers)>>
    IN  IF r.base64 THEN [i \in DOMAIN tokens |-> Base64(tokens[i])] ELSE tokens

Status(code) == <<[kind |-> "status", code |-> code]>>
Failure(reason) == [kind |-> "failure", reason |-> reason]

\* strconv.Atoi, or -1 for an error
Digits(val) == val # <<>> /\ \A i \in DOMAIN val : val[i] \in 48..57
Atoi(val) == IF Digits(val) THEN FoldLeft(LAMBDA n, c : 10 * n + c - 48, 0, val) ELSE -1

Stopped == <<115>>  \* the word, in one byte

\* What key was last set to
Val(params, key) ==
    LET set == SelectSeq(params, LAMBDA p : p.key = key)
    IN  IF set = <<>> THEN <<>> ELSE Last(set).val

\* What a worker will do for a request: answer with a status line, or write
\* a body into a dictionary; first is what was written into a dictionary that
\* is not given back
Plain(code) == [plain |-> Status(code), first |-> None, body |-> None]
Dictionary(body) == [plain |-> None, first |-> None, body |-> body]

Announce(params) ==
    LET port == Atoi(Val(params, "port"))
        want == Val(params, "numwant")
    IN  IF Len(Val(params, "info_hash")) # HashLen THEN Dictionary(Failure("Invalid infohash"))
        ELSE IF Len(Val(params, "peer_id")) # HashLen THEN Dictionary(Failure("Invalid peerid"))
        ELSE IF Val(params, "event") = Stopped THEN Plain(200)
        ELSE IF port \notin 1..65535 THEN Dictionary(Failure("Invalid port"))
        ELSE IF want # <<>> /\ Atoi(want) < 0 THEN Dictionary(Failure("Invalid numwant"))
        ELSE Dictionary([kind |-> "announce", hash |-> Val(params, "info_hash")])

Scrape(params) ==
    LET hashes == [k \in DOMAIN params |-> params[k].val]
        asked == SelectSeq(params, LAMBDA p : p.key = "info_hash")
        good == {k \in DOMAIN asked : Len(asked[k].val) = HashLen}
        files == [kind |-> "files", hashes |-> [k \in DOMAIN asked |-> asked[k].val]]
        firstBad == CHOOSE k \in DOMAIN asked \ good : \A j \in 1..k - 1 : j \in good
    IN  IF asked = <<>> THEN Dictionary(Failure("no infohashes"))
        ELSE IF good = DOMAIN asked THEN Dictionary(files)
        ELSE [Dictionary(Failure("invalid infohash")) EXCEPT
                !.first = [files EXCEPT !.hashes = SubSeq(@, 1, firstBad - 1)]]

Route(path, params) ==
    CASE path = <<Path("announce")>> -> Announce(params)
      [] path = <<Path("scrape")>> -> Scrape(params)
      [] path = <<Path("heartbeat")>> -> Plain(200)
      [] OTHER -> Plain(404)

\* What a worker does after parse
Answer(p) == IF p.ok THEN Route(p.path, p.params) ELSE Plain(400)

-----------------------------------------------------------------------------
NoConn == [state |-> "none", req |-> None, data |-> <<>>, gone |-> FALSE, reply |-> None]
Closed == [NoConn EXCEPT !.state = "closed"]
NoWork(buffer) == [pc |-> "accept", conn |-> None, do |-> Plain(0), dict |-> None,
                   out |-> <<>>, buffer |-> buffer]

Init ==
    /\ conn = [c \in Conns |-> NoConn]
    /\ backlog = <<>> /\ open = TRUE
    /\ w = [x \in Workers |-> NoWork(<<>>)]
    /\ pool = {} /\ buf = [d \in Dictionaries |-> <<>>]
    /\ spare = <<>>
    /\ hits = 0 /\ ticks = 0 /\ loaded = None /\ unseen = 0 /\ raced = 0

-----------------------------------------------------------------------------
(* The clients and the listener                                            *)

Dial(c) ==
    /\ open
    /\ conn[c].state = "none"
    /\ conn' = [conn EXCEPT ![c].state = "queued"]
    /\ backlog' = Append(backlog, c)
    /\ UNCHANGED <<open, w, dictVars, spare, statVars>>

Silent(c) == conn[c].state \in {"queued", "open"} /\ conn[c].data = <<>> /\ ~conn[c].gone

\* The request comes at once, or its first segment does
Send(c, r) ==
    /\ Silent(c)
    /\ \E data \in {Rendered(r), SubSeq(Rendered(r), 1, FirstSegment)} :
          conn' = [conn EXCEPT ![c].req = r, ![c].data = data]
    /\ UNCHANGED <<backlog, open, w, dictVars, spare, statVars>>

\* The client goes away and has sent nothing
HangUp(c) ==
    /\ Silent(c)
    /\ conn' = [conn EXCEPT ![c].gone = TRUE]
    /\ UNCHANGED <<backlog, open, w, dictVars, spare, statVars>>

\* Serve, after Shutdown: the connections that were not accepted are reset
CloseListener ==
    /\ open
    /\ open' = FALSE
    /\ backlog' = <<>>
    /\ conn' = [c \in Conns |-> IF conn[c].state = "queued" THEN Closed ELSE conn[c]]
    /\ UNCHANGED <<w, dictVars, spare, statVars>>

-----------------------------------------------------------------------------
(* work                                                                    *)

Accept(x) ==
    /\ w[x].pc = "accept"
    /\ backlog # <<>>
    /\ conn' = [conn EXCEPT ![Head(backlog)].state = "open"]
    /\ backlog' = Tail(backlog)
    /\ w' = [w EXCEPT ![x].pc = "read", ![x].conn = Head(backlog)]
    /\ UNCHANGED <<open, dictVars, spare, statVars>>

\* net.ErrClosed ends the worker
AcceptFails(x) ==
    /\ w[x].pc = "accept"
    /\ ~open
    /\ w' = [w EXCEPT ![x].pc = "done"]
    /\ UNCHANGED <<connVars, dictVars, spare, statVars>>

\* conn.Close, and the next turn of the loop
Close(x) ==
    /\ conn' = [conn EXCEPT ![w[x].conn] = Closed]
    /\ w' = [w EXCEPT ![x] = NoWork(w[x].buffer)]
    /\ UNCHANGED <<backlog, open>>

\* Mutants of ReadFails: no read deadline; the next turn without conn.Close
ReadFailsNoDeadline(x) ==
    /\ w[x].pc = "read"
    /\ conn[w[x].conn].gone
    /\ Close(x)
    /\ UNCHANGED <<dictVars, spare, statVars>>

ReadFailsNoClose(x) ==
    /\ w[x].pc = "read"
    /\ conn[w[x].conn].data = <<>>
    /\ w' = [w EXCEPT ![x] = NoWork(w[x].buffer)]
    /\ UNCHANGED <<connVars, dictVars, spare, statVars>>

\* The client is gone, or the read deadline has passed
ReadFails(x) ==
    /\ w[x].pc = "read"
    /\ conn[w[x].conn].data = <<>>
    /\ Close(x)
    /\ UNCHANGED <<dictVars, spare, statVars>>

\* The one Read, over what the buffer held before
Read(x) ==
    LET data == conn[w[x].conn].data
    IN  /\ w[x].pc = "read"
        /\ data # <<>>
        /\ w' = [w EXCEPT ![x].pc = "parse",
                          ![x].buffer = data \o SubSeq(@, Len(data) + 1, Len(@))]
        /\ hits' = hits + 1
        /\ unseen' = unseen + 1
        /\ raced' = IF loaded = None THEN raced ELSE raced + 1
        /\ UNCHANGED <<connVars, dictVars, spare, ticks, loaded>>

\* parse, and what the path asks for
ParseRequest(x) ==
    LET size == Len(conn[w[x].conn].data)
    IN  /\ w[x].pc = "parse"
        /\ \E p \in {Parse(w[x].buffer, size)} :
           \E do \in {Answer(p)} :
              w' = [w EXCEPT ![x].pc = IF do.body = None THEN "write" ELSE "get",
                             ![x].do = do,
                             ![x].out = IF do.body = None THEN do.plain ELSE <<>>,
                             ![x].buffer = Decode64(@, size)]
        /\ UNCHANGED <<connVars, dictVars, spare, statVars>>

Held == {w[x].dict : x \in Workers} \ {None}
Unused == Dictionaries \ (pool \cup Held)

\* Pool.Get: a dictionary of the pool, or a new one, as sync.Pool likes
PoolGet(d) ==
    /\ d \in pool \/ (Unused # {} /\ d = CHOOSE u \in Unused : TRUE)
    /\ pool' = pool \ {d}

\* What is in the dictionary that Get gives
Got(d) == IF d \in pool THEN buf[d] ELSE <<>>

\* A scrape that turns out to be bad keeps the dictionary it has begun
GetFirst(x, d) ==
    /\ w[x].pc = "get"
    /\ w[x].do.first # None
    /\ PoolGet(d)
    /\ buf' = [buf EXCEPT ![d] = Append(Got(d), w[x].do.first)]
    /\ w' = [w EXCEPT ![x].do = Dictionary(@.body)]
    /\ UNCHANGED <<connVars, spare, statVars>>

Get(x, d) ==
    /\ w[x].pc = "get"
    /\ w[x].do.first = None
    /\ PoolGet(d)
    /\ buf' = [buf EXCEPT ![d] = Append(Got(d), w[x].do.body)]
    /\ w' = [w EXCEPT ![x].dict = d, ![x].pc = "append"]
    /\ UNCHANGED <<connVars, spare, statVars>>

End == [kind |-> "e"]

\* Mutant of AppendBody: the global's array always has room
AppendBodyShared(x) ==
    LET body == Append(buf[w[x].dict], End)
    IN  /\ w[x].pc = "append"
        /\ buf' = [buf EXCEPT ![w[x].dict] = body]
        /\ spare' = body
        /\ w' = [w EXCEPT ![x].pc = "write", ![x].out = None]
        /\ UNCHANGED <<connVars, pool, statVars>>

\* append(httpSuccessBytes, dictionary.GetBytes()...): a new array, unless the
\* global's own has room for the body
AppendBody(x) ==
    LET body == Append(buf[w[x].dict], End)
        inPlace == HeaderLen + Len(body) <= HeaderCap
    IN  /\ w[x].pc = "append"
        /\ buf' = [buf EXCEPT ![w[x].dict] = body]
        /\ spare' = IF inPlace THEN body ELSE spare
        /\ w' = [w EXCEPT ![x].pc = "write", ![x].out = IF inPlace THEN None ELSE body]
        /\ UNCHANGED <<connVars, pool, statVars>>

Write(x) ==
    /\ w[x].pc = "write"
    /\ conn' = [conn EXCEPT ![w[x].conn].reply = IF w[x].out = None THEN spare ELSE w[x].out]
    /\ w' = [w EXCEPT ![x].pc = "close"]
    /\ UNCHANGED <<backlog, open, dictVars, spare, statVars>>

\* Mutant of Finish: the pool has no reset
FinishNoReset(x) ==
    /\ w[x].pc = "close"
    /\ Close(x)
    /\ pool' = pool \cup ({w[x].dict} \ {None})
    /\ UNCHANGED <<buf, spare, statVars>>

\* Pool.Put resets the dictionary; then the connection is closed
Finish(x) ==
    /\ w[x].pc = "close"
    /\ Close(x)
    /\ pool' = pool \cup ({w[x].dict} \ {None})
    /\ buf' = [d \in Dictionaries |-> IF d = w[x].dict THEN <<>> ELSE buf[d]]
    /\ UNCHANGED <<spare, statVars>>

Work(x) ==
    \/ Accept(x) \/ AcceptFails(x) \/ Read(x) \/ ReadFails(x) \/ ParseRequest(x)
    \/ \E d \in Dictionaries : GetFirst(x, d) \/ Get(x, d)
    \/ AppendBody(x) \/ Write(x) \/ Finish(x)

-----------------------------------------------------------------------------
(* A tick of Publish: each counter is loaded, and later set to zero; one    *)
(* stands for all.  A tick that finds nothing is left out.                  *)

PublishLoad ==
    /\ loaded = None
    /\ hits > 0 /\ ticks < MaxTicks
    /\ ticks' = ticks + 1
    /\ loaded' = hits
    /\ UNCHANGED <<connVars, w, dictVars, spare, hits, unseen, raced>>

\* Mutant of PublishStore: the counter is not reset
PublishStoreNoReset ==
    /\ loaded # None
    /\ unseen' = unseen - loaded
    /\ loaded' = None
    /\ UNCHANGED <<connVars, w, dictVars, spare, hits, ticks, raced>>

PublishStore ==
    /\ loaded # None
    /\ unseen' = unseen - loaded
    /\ hits' = 0
    /\ loaded' = None
    /\ UNCHANGED <<connVars, w, dictVars, spare, ticks, raced>>

Next ==
    \/ \E c \in Conns : Dial(c) \/ HangUp(c) \/ \E r \in Requests : Send(c, r)
    \/ CloseListener
    \/ \E x \in Workers : Work(x)
    \/ PublishLoad \/ PublishStore

Spec == Init /\ [][Next]_vars

(* Each worker is a goroutine of its own. *)
FairSpec == Spec /\ \A x \in Workers : WF_vars(Work(x))

-----------------------------------------------------------------------------
TypeOK ==
    /\ \A c \in Conns :
          /\ conn[c].state \in {"none", "queued", "open", "closed"}
          /\ conn[c].state = "open" <=> \E x \in Workers : w[x].conn = c
          /\ conn[c].state = "queued" <=> \E i \in DOMAIN backlog : backlog[i] = c
    /\ \A x \in Workers :
          /\ w[x].pc \in {"accept", "read", "parse", "get", "append", "write", "close", "done"}
          /\ w[x].conn \in Conns \cup {None}
          /\ w[x].dict \in Dictionaries \cup {None}
    /\ pool \subseteq Dictionaries
    /\ {hits, unseen, raced} \subseteq Nat /\ ticks \in 0..MaxTicks /\ loaded \in Nat \cup {None}

-----------------------------------------------------------------------------
(* What a request asks, by the rules of URLs                                *)

Decoded[val \in Seq(Byte)] ==
    IF val = <<>> THEN <<>>
    ELSE IF Head(val) # Percent THEN <<Head(val)>> \o Decoded[Tail(val)]
    ELSE <<16 * FromHexChar(val[2]) + FromHexChar(val[3])>> \o Decoded[SubSeq(val, 4, Len(val))]

WellEscaped[val \in Seq(Byte)] ==
    \/ val = <<>>
    \/ Head(val) # Percent /\ WellEscaped[Tail(val)]
    \/ Head(val) = Percent /\ Len(val) >= 3 /\ WellEscaped[SubSeq(val, 4, Len(val))]

\* The answer a request asks for
Meant(r) ==
    LET asked == SubSeq(r.query, 1, Min({Len(r.query), MaxParams}))
        params == [k \in DOMAIN asked |-> [key |-> asked[k].key, val |-> Decoded[asked[k].val]]]
        cut == r.query # <<>> /\ Len(r.query) <= MaxParams /\ Last(r.query).key = ""
    IN  IF \/ r.method # "GET" \/ cut
           \/ \E k \in DOMAIN asked : ~WellEscaped[asked[k].val]
        THEN Plain(400)
        ELSE Route(<<Path(r.path)>>, params)

Fit(r) ==
    LET do == Meant(r)
    IN  IF do.body = None THEN do.plain ELSE <<do.body, End>>

\* What clients ask is of the grammar; None, a model value, is no reply
ASSUME RequestsAssumption == \A r \in Requests : IsRequest(r) /\ Fit(r) # None

SaysWhereItEnds(data) ==
    data[1].kind = "base64" \/ \E i \in DOMAIN data : data[i].kind = " HTTP/"

\* What parse has to do with a request that is alone in the buffer
ParsesAlone(r) ==
    LET data == Rendered(r)
    IN  /\ data \in Seq(Token \cup [kind : {"base64"}, of : Token])
        /\ data # <<>> /\ SaysWhereItEnds(data)
        /\ Answer(Parse(data, Len(data))) = Meant(r)

(* A request that came whole is answered as it asks: whatever the worker's  *)
(* buffer still holds of earlier requests, whatever the other worker writes *)
(* meanwhile, and whoever had the dictionary before.                        *)
RepliesFitRequests ==
    \A c \in Conns :
        conn[c].reply # None /\ conn[c].data = Rendered(conn[c].req) =>
            conn[c].reply = Fit(conn[c].req)

(* A dictionary that is in the pool is nobody's and empty, and no two       *)
(* workers write to one: also when a scrape does not give its own back.     *)
DictionariesHaveOneOwner ==
    /\ \A d \in pool : d \notin Held /\ buf[d] = <<>>
    /\ \A x, y \in Workers : x # y /\ w[x].dict = w[y].dict => w[x].dict = None

(* The published numbers never count a request twice, and miss none but     *)
(* those that come during a tick.                                           *)
PublishedHits ==
    /\ hits <= unseen
    /\ unseen <= hits + raced

(* No connection is kept for ever, though its client sends nothing or only  *)
(* a part, and though the listener may be closed.                           *)
ConnectionsAreClosed ==
    \A c \in Conns : conn[c].state = "queued" ~> conn[c].state = "closed"
=============================================================================
