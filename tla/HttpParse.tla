----------------------------- MODULE HttpParse -----------------------------
(***************************************************************************)
(* parse of the HTTP tracker (tracker/http/parser.go), over a request cut  *)
(* into tokens: the method, the delimiters that bytes.Index looks for, the *)
(* path, the parameters, and the headers.  A parameter is a key and the    *)
(* bytes of its value; base64 is a mark on each token.                     *)
(***************************************************************************)
EXTENDS Integers, SequencesExt

CONSTANT MaxParams  \* maxparams

ASSUME MaxParamsAssumption == MaxParams \in Nat \ {0}

Byte == 0..255
\* What parse looks for
Delimiter == {" HTTP/", " /", "?", "&"}
Token ==
    [kind : Delimiter \cup STRING] \cup [kind : {"path"}, name : STRING]
        \cup [kind : {"param"}, key : STRING, val : Seq(Byte)]

Tok(kind) == [kind |-> kind]
Path(name) == [kind |-> "path", name |-> name]
Param(key, val) == [kind |-> "param", key |-> key, val |-> val]
Base64(tok) == [kind |-> "base64", of |-> tok]

Percent == 37

\* bytes.Index of a one-token pattern, 0 when there is none
Index(data, kind) ==
    IF \E i \in DOMAIN data : data[i].kind = kind
    THEN CHOOSE i \in DOMAIN data :
            data[i].kind = kind /\ \A j \in 1..i - 1 : data[j].kind # kind
    ELSE 0

-----------------------------------------------------------------------------
FromHexChar(c) ==
    IF c \in 48..57 THEN c - 48
    ELSE IF c \in 97..102 THEN c - 87
    ELSE IF c \in 65..70 THEN c - 55
    ELSE 0

\* The loop of unescapeFast, at place i of bs, of which l bytes count: an
\* escape becomes its byte and what follows moves left by two
Unescape[s \in Seq(Byte) \X Nat \X Nat] ==
    LET bs == s[1]
        l == s[2]
        i == s[3]
        shifted == [x \in DOMAIN bs |->
                       IF x = i THEN 16 * FromHexChar(bs[i + 1]) + FromHexChar(bs[i + 2])
                       ELSE IF x > i /\ x <= Len(bs) - 2 THEN bs[x + 2]
                       ELSE bs[x]]
    IN  IF i > l THEN [val |-> SubSeq(bs, 1, l), ok |-> TRUE]
        ELSE IF bs[i] # Percent THEN Unescape[<<bs, l, i + 1>>]
        ELSE IF i + 2 > l THEN [val |-> <<>>, ok |-> FALSE]
        ELSE Unescape[<<shifted, l - 2, i + 1>>]

-----------------------------------------------------------------------------
\* The query cut at each '&'
Pieces[query \in Seq(Token)] ==
    LET amp == Index(query, "&")
    IN  IF amp = 0 THEN <<query>>
        ELSE <<SubSeq(query, 1, amp - 1)>> \o Pieces[SubSeq(query, amp + 1, Len(query))]

\* A last piece that is empty is never assigned, and nil is invalid
NilPiece(pieces) == Len(pieces) <= MaxParams /\ Last(pieces) = <<>>

Unescaped[piece \in Seq(Token)] ==
    IF piece = <<>> THEN [key |-> "", val |-> <<>>, ok |-> TRUE]
    ELSE LET u == Unescape[<<piece[1].val, Len(piece[1].val), 1>>]
         IN  [key |-> piece[1].key, val |-> u.val, ok |-> u.ok]

\* The first MaxParams pieces
Params[pieces \in Seq(Seq(Token))] ==
    LET n == Min({Len(pieces), MaxParams})
        params == [k \in 1..n |-> Unescaped[pieces[k]]]
    IN  [ok |-> ~NilPiece(pieces) /\ \A k \in 1..n : params[k].ok,
         list |-> [k \in 1..n |-> [key |-> params[k].key, val |-> params[k].val]]]

HasQuery(pathEnd, urlEnd) == pathEnd # 0 /\ pathEnd < urlEnd

InvalidParse == [ok |-> FALSE, path |-> <<>>, params |-> <<>>]

\* base64.StdEncoding.Decode of the size bytes read, in place
Decode64(buffer, size) ==
    [i \in DOMAIN buffer |-> IF i <= size /\ buffer[1].kind = "base64"
                             THEN buffer[i].of ELSE buffer[i]]

\* parse, and the test of the method that follows it: every error of parse
\* ends as 400.  The indices are of the whole buffer, not of the size bytes
\* that were read; a base64 request is decoded up to size.  With GET for a
\* method, "GET /" is at the start and the path begins after methodEnd.
Parse(buffer, size) ==
    LET data == IF buffer[1].kind = "base64" THEN SubSeq(Decode64(buffer, size), 1, size)
                ELSE buffer
        urlEnd == Index(data, " HTTP/")
        methodEnd == Index(data, " /")
        pathEnd == Index(data, "?")
        Part(i, j) == SubSeq(data, i + 1, j - 1)
        params == Params[Pieces[Part(pathEnd, urlEnd)]]
    IN  IF methodEnd = 0 \/ urlEnd < methodEnd \/ Part(0, methodEnd) # <<Tok("GET")>>
        THEN InvalidParse
        ELSE IF ~HasQuery(pathEnd, urlEnd)
        THEN [ok |-> TRUE, path |-> Part(methodEnd, urlEnd), params |-> <<>>]
        ELSE IF pathEnd < methodEnd \/ ~params.ok THEN InvalidParse
        ELSE [ok |-> TRUE, path |-> Part(methodEnd, pathEnd), params |-> params.list]
=============================================================================
