--------------------------- MODULE MCHttpTracker ---------------------------
(* A small instance of HttpTracker. *)
EXTENDS HttpTracker

\* 122 is 'z'; "%41z" is "Az"
P(key, val) == [key |-> key, val |-> val]
Hash == P("info_hash", <<37, 52, 49, 122>>)
Peer == P("peer_id", <<122, 122>>)
Port == P("port", <<49>>)

Ask(path, query) == [method |-> "GET", path |-> path, query |-> query, base64 |-> FALSE,
                      headers |-> "headers"]

SmallRequests ==
    {Ask("announce", <<Hash, Peer, Port>>),
     [Ask("scrape", <<Hash>>) EXCEPT !.base64 = TRUE],
     \* refused after a good hash
     Ask("scrape", <<Hash, P("info_hash", <<122>>)>>),
     \* no parameters, and a '?' in the headers
     [Ask("heartbeat", <<>>) EXCEPT !.headers = "?"],
     \* an escape that is cut off
     Ask("announce", <<P("info_hash", <<122, 37, 52>>)>>)}

\* Requests with every query of up to three parameters, and more than MaxParams
\* of some, for what parse makes of each when it is alone in the buffer
Values == {<<122>>, <<122, 122>>, <<37, 52, 49, 122>>,
           \* an escape at the end, two in a row, an escaped percent sign
           <<122, 37, 52, 49>>, <<37, 52, 49, 37, 55, 65>>, <<37, 50, 53, 52, 49>>,
           \* escapes that are cut off
           <<37>>, <<122, 37, 52>>, <<>>}
Keys == {"info_hash", "peer_id"}
Parameters == {P("", <<>>), Port, P("port", <<48>>), P("event", <<115>>),
               P("numwant", <<50>>), P("numwant", <<45, 49>>), P("compact", <<49>>)}
                  \cup {P(key, val) : key \in Keys, val \in Values}
Queries == UNION {[1..n -> Parameters] : n \in 0..3}
              \cup [1..4 -> {P("", <<>>), Hash, Peer, P("port", <<37>>)}]

ManyRequests ==
    [method : {"GET", "POST"}, path : {"announce", "scrape", "stats"}, query : Queries,
     base64 : BOOLEAN, headers : {"headers", "?"}]

ASSUME RequestsParse == \A r \in ManyRequests \cup Requests : ParsesAlone(r)
=============================================================================
