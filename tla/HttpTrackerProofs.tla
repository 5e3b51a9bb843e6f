------------------------- MODULE HttpTrackerProofs -------------------------
(***************************************************************************)
(* For any workers, connections and dictionaries: a dictionary has one     *)
(* owner, the published counts are right up to what comes during a tick,   *)
(* the types of the state, and that replies fit the requests.  The last    *)
(* rests on the first, and on what is proved of parse: what follows a      *)
(* request in the buffer does not matter, and every request that is alone  *)
(* in the buffer is parsed as it is meant.                                 *)
(***************************************************************************)
EXTENDS HttpTracker, SequenceTheorems, NaturalsInduction, WellFoundedInduction, TLAPS

Fields == {"pc", "conn", "do", "dict", "out", "buffer"}

Shapes ==
    /\ DOMAIN w = Workers /\ \A x \in Workers : DOMAIN w[x] = Fields
    /\ DOMAIN buf = Dictionaries /\ pool \subseteq Dictionaries

(* Only a worker that is past Get has a dictionary: the loop never comes    *)
(* back to Get with one.                                                    *)
HasOne == {"append", "write", "close"}

Phases ==
    \A x \in Workers : w[x].dict # None => w[x].pc \in HasOne /\ w[x].dict \in Dictionaries

\* DictionariesHaveOneOwner says nothing of who may have one
Owned == Shapes /\ Phases /\ None \notin pool /\ DictionariesHaveOneOwner

-----------------------------------------------------------------------------
\* The dictionaries are left alone, and no worker takes one
LEMMA KeepOK ==
    ASSUME Owned, UNCHANGED dictVars, NEW x \in Workers, NEW l, w' = [w EXCEPT ![x] = l],
           DOMAIN l = Fields, l.dict # None => l.dict = w[x].dict /\ l.pc \in HasOne
    PROVE  Owned'
  <1>1. w'[x] = l /\ \A y \in Workers \ {x} : w'[y] = w[y]
    BY DEF Owned, Shapes
  <1>2. UNCHANGED <<pool, buf>>
    BY DEF dictVars
  <1>3. Shapes'
    BY <1>1, <1>2 DEF Owned, Shapes
  <1>4. Phases'
    BY <1>1, <1>2 DEF Owned, Phases
  <1>5. Held' \subseteq Held
    BY <1>1 DEF Held
  <1>6. DictionariesHaveOneOwner'
    BY <1>1, <1>2, <1>5 DEF Owned, DictionariesHaveOneOwner
  <1>7. QED
    BY <1>2, <1>3, <1>4, <1>6 DEF Owned

\* Before Get, a worker has none
LEMMA NoneYet ==
    ASSUME Owned, NEW x \in Workers, w[x].pc \notin HasOne
    PROVE  w[x].dict = None
  BY DEF Owned, Phases

LEMMA NoWorkOK ==
    ASSUME NEW b
    PROVE  DOMAIN NoWork(b) = Fields /\ NoWork(b).dict = None
  BY DEF NoWork, Fields

LEMMA CloseOK ==
    ASSUME Owned, NEW x \in Workers, Close(x), UNCHANGED dictVars
    PROVE  Owned'
  BY NoWorkOK, KeepOK DEF Close

LEMMA AcceptOK ==
    ASSUME Owned, NEW x \in Workers, Accept(x)
    PROVE  Owned'
  <1> DEFINE l == [w[x] EXCEPT !.pc = "read", !.conn = Head(backlog)]
  <1>1. w' = [w EXCEPT ![x] = l] /\ UNCHANGED dictVars
    BY DEF Accept, Owned, Shapes
  <1>2. DOMAIN l = Fields /\ l.dict = w[x].dict
    BY DEF Owned, Shapes, Fields
  <1>3. w[x].dict = None
    BY NoneYet DEF Accept, HasOne
  <1> HIDE DEF l
  <1>4. QED
    BY <1>1, <1>2, <1>3, KeepOK

LEMMA AcceptFailsOK ==
    ASSUME Owned, NEW x \in Workers, AcceptFails(x)
    PROVE  Owned'
  <1> DEFINE l == [w[x] EXCEPT !.pc = "done"]
  <1>1. w' = [w EXCEPT ![x] = l] /\ UNCHANGED dictVars
    BY DEF AcceptFails, Owned, Shapes
  <1>2. DOMAIN l = Fields /\ l.dict = w[x].dict
    BY DEF Owned, Shapes, Fields
  <1>3. w[x].dict = None
    BY NoneYet DEF AcceptFails, HasOne
  <1> HIDE DEF l
  <1>4. QED
    BY <1>1, <1>2, <1>3, KeepOK

LEMMA ReadOK ==
    ASSUME Owned, NEW x \in Workers, Read(x)
    PROVE  Owned'
  <1> DEFINE data == conn[w[x].conn].data
             b == data \o SubSeq(w[x].buffer, Len(data) + 1, Len(w[x].buffer))
             l == [w[x] EXCEPT !.pc = "parse", !.buffer = b]
  <1>1. w' = [w EXCEPT ![x] = l] /\ UNCHANGED dictVars
    BY DEF Read, Owned, Shapes, Fields
  <1> HIDE DEF b
  <1>2. DOMAIN l = Fields /\ l.dict = w[x].dict
    BY DEF Owned, Shapes, Fields
  <1>3. w[x].dict = None
    BY NoneYet DEF Read, HasOne
  <1> HIDE DEF l
  <1>4. QED
    BY <1>1, <1>2, <1>3, KeepOK

LEMMA ParseRequestOK ==
    ASSUME Owned, NEW x \in Workers, ParseRequest(x)
    PROVE  Owned'
  <1>1. PICK c, do, out, b :
            w' = [w EXCEPT ![x].pc = c, ![x].do = do, ![x].out = out, ![x].buffer = b]
    <2> DEFINE size == Len(conn[w[x].conn].data)
               out(do) == IF do.body = None THEN do.plain ELSE <<>>
               pc(do) == IF do.body = None THEN "write" ELSE "get"
               b == Decode64(w[x].buffer, size)
    <2>1. PICK do : w' = [w EXCEPT ![x].pc = pc(do), ![x].do = do, ![x].out = out(do),
                                   ![x].buffer = Decode64(@, size)]
      BY DEF ParseRequest
    <2>2. w' = [w EXCEPT ![x].pc = pc(do), ![x].do = do, ![x].out = out(do), ![x].buffer = b]
      BY <2>1 DEF Owned, Shapes, Fields
    <2> HIDE DEF b, pc, out
    <2>3. QED
      BY <2>2
  <1>2. UNCHANGED dictVars /\ w[x].dict = None
    BY NoneYet DEF ParseRequest, HasOne
  <1> DEFINE l == [w[x] EXCEPT !.pc = c, !.do = do, !.out = out, !.buffer = b]
  <1>3. w' = [w EXCEPT ![x] = l]
    BY <1>1 DEF Owned, Shapes
  <1>4. DOMAIN l = Fields /\ l.dict = w[x].dict
    BY DEF Owned, Shapes, Fields
  <1> HIDE DEF l
  <1>5. QED
    BY <1>2, <1>3, <1>4, KeepOK

LEMMA WriteOK ==
    ASSUME Owned, NEW x \in Workers, Write(x)
    PROVE  Owned'
  <1> DEFINE l == [w[x] EXCEPT !.pc = "close"]
  <1>1. w' = [w EXCEPT ![x] = l] /\ UNCHANGED dictVars
    BY DEF Write, Owned, Shapes
  <1>2. DOMAIN l = Fields /\ l.dict = w[x].dict /\ l.pc \in HasOne
    BY DEF Owned, Shapes, Fields, HasOne
  <1> HIDE DEF l
  <1>3. QED
    BY <1>1, <1>2, KeepOK

-----------------------------------------------------------------------------
\* What the pool hands out is nobody's
LEMMA PoolGetOK ==
    ASSUME Owned, NEW d \in Dictionaries, PoolGet(d)
    PROVE  pool' \subseteq pool /\ d \notin pool' /\ \A y \in Workers : w[y].dict = d => d = None
  <1>1. CASE d \in pool
    BY <1>1 DEF PoolGet, Owned, DictionariesHaveOneOwner, Held
  <1>2. CASE d \notin pool
    <2>1. d \in Unused
      BY <1>2 DEF PoolGet
    <2>2. QED
      BY <2>1 DEF PoolGet, Unused, Held
  <1>3. QED
    BY <1>1, <1>2

LEMMA GetFirstOK ==
    ASSUME Owned, NEW x \in Workers, NEW d \in Dictionaries, GetFirst(x, d)
    PROVE  Owned'
  <1>1. pool' \subseteq pool /\ d \notin pool'
    BY PoolGetOK DEF GetFirst
  <1>2. PICK v : buf' = [buf EXCEPT ![d] = v]
    BY DEF GetFirst
  <1>3. DOMAIN buf' = Dictionaries /\ \A e \in Dictionaries \ {d} : buf'[e] = buf[e]
    BY <1>2 DEF Owned, Shapes
  <1> DEFINE do == Dictionary(w[x].do.body)
             l == [w[x] EXCEPT !.do = do]
  <1>4. w' = [w EXCEPT ![x] = l]
    BY DEF GetFirst, Owned, Shapes, Fields
  <1> HIDE DEF do
  <1>5. DOMAIN l = Fields /\ l.dict = w[x].dict /\ l.pc = w[x].pc
    BY DEF Owned, Shapes, Fields
  <1> HIDE DEF l
  <1>6. /\ DOMAIN w' = Workers
        /\ \A y \in Workers : DOMAIN w'[y] = Fields /\ w'[y].dict = w[y].dict /\ w'[y].pc = w[y].pc
    BY <1>4, <1>5 DEF Owned, Shapes
  <1>7. Held' = Held
    BY <1>6 DEF Held
  <1>8. Shapes' /\ Phases'
    BY <1>1, <1>3, <1>6 DEF Owned, Shapes, Phases
  <1>9. DictionariesHaveOneOwner'
    BY <1>1, <1>3, <1>6, <1>7 DEF Owned, Shapes, DictionariesHaveOneOwner
  <1>10. QED
    BY <1>1, <1>8, <1>9 DEF Owned

LEMMA GetOK ==
    ASSUME Owned, NEW x \in Workers, NEW d \in Dictionaries, Get(x, d)
    PROVE  Owned'
  <1>1. /\ pool' \subseteq pool /\ d \notin pool'
        /\ \A y \in Workers : w[y].dict = d => d = None
    BY PoolGetOK DEF Get
  <1>2. PICK v : buf' = [buf EXCEPT ![d] = v]
    BY DEF Get
  <1>3. DOMAIN buf' = Dictionaries /\ \A e \in Dictionaries \ {d} : buf'[e] = buf[e]
    BY <1>2 DEF Owned, Shapes
  <1> DEFINE l == [w[x] EXCEPT !.dict = d, !.pc = "append"]
  <1>4. w' = [w EXCEPT ![x] = l]
    BY DEF Get, Owned, Shapes
  <1>5. DOMAIN l = Fields /\ l.dict = d /\ l.pc = "append"
    BY DEF Owned, Shapes, Fields
  <1> HIDE DEF l
  <1>6. /\ DOMAIN w' = Workers /\ DOMAIN w'[x] = Fields /\ w'[x].dict = d /\ w'[x].pc = "append"
        /\ \A y \in Workers \ {x} : w'[y] = w[y]
    BY <1>4, <1>5 DEF Owned, Shapes
  <1>7. Held' \subseteq Held \cup {d}
    BY <1>6 DEF Held
  <1>8. Shapes' /\ Phases'
    BY <1>1, <1>3, <1>6 DEF Owned, Shapes, Phases, HasOne
  <1>9. \A e \in pool' : e \notin Held' /\ buf'[e] = <<>>
    BY <1>1, <1>3, <1>7 DEF Owned, Shapes, DictionariesHaveOneOwner
  <1>10. \A y, z \in Workers : y # z /\ w'[y].dict = w'[z].dict => w'[y].dict = None
    BY <1>1, <1>6 DEF Owned, DictionariesHaveOneOwner
  <1>11. QED
    BY <1>1, <1>8, <1>9, <1>10 DEF Owned, DictionariesHaveOneOwner

LEMMA AppendBodyOK ==
    ASSUME Owned, NEW x \in Workers, AppendBody(x)
    PROVE  Owned'
  <1>1. PICK v : buf' = [buf EXCEPT ![w[x].dict] = v]
    BY DEF AppendBody
  <1>2. PICK out : w' = [w EXCEPT ![x].pc = "write", ![x].out = out]
    BY DEF AppendBody
  <1>3. pool' = pool
    BY DEF AppendBody
  <1> DEFINE l == [w[x] EXCEPT !.pc = "write", !.out = out]
  <1>4. w' = [w EXCEPT ![x] = l]
    BY <1>2 DEF Owned, Shapes
  <1>5. DOMAIN l = Fields /\ l.dict = w[x].dict /\ l.pc = "write"
    BY DEF Owned, Shapes, Fields
  <1> HIDE DEF l
  <1>6. /\ DOMAIN w' = Workers /\ w'[x].pc = "write"
        /\ \A y \in Workers : DOMAIN w'[y] = Fields /\ w'[y].dict = w[y].dict
        /\ \A y \in Workers \ {x} : w'[y] = w[y]
    BY <1>4, <1>5 DEF Owned, Shapes
  <1>7. Held' = Held
    BY <1>6 DEF Held
  <1>8. /\ DOMAIN buf' = Dictionaries
        /\ \A e \in pool : buf'[e] = buf[e]
    BY <1>1 DEF Owned, Shapes, DictionariesHaveOneOwner, Held
  <1>9. Shapes' /\ Phases'
    BY <1>3, <1>6, <1>8 DEF Owned, Shapes, Phases, HasOne
  <1>10. DictionariesHaveOneOwner'
    BY <1>3, <1>6, <1>7, <1>8 DEF Owned, DictionariesHaveOneOwner
  <1>11. QED
    BY <1>3, <1>9, <1>10 DEF Owned

LEMMA FinishOK ==
    ASSUME Owned, NEW x \in Workers, Finish(x)
    PROVE  Owned'
  <1> DEFINE d == w[x].dict
             l == NoWork(w[x].buffer)
  <1>1. /\ w' = [w EXCEPT ![x] = l] /\ pool' = pool \cup ({d} \ {None})
        /\ buf' = [e \in Dictionaries |-> IF e = d THEN <<>> ELSE buf[e]]
    BY DEF Finish, Close
  <1>2. DOMAIN l = Fields /\ l.dict = None
    BY NoWorkOK
  <1> HIDE DEF l
  <1>3. /\ DOMAIN w' = Workers /\ DOMAIN w'[x] = Fields /\ w'[x].dict = None
        /\ \A y \in Workers \ {x} : w'[y] = w[y]
    BY <1>1, <1>2 DEF Owned, Shapes
  <1>4. Held' \subseteq Held \ {d}
    BY <1>3 DEF Held, Owned, DictionariesHaveOneOwner
  <1>5. d # None => d \in Dictionaries
    BY DEF Owned, Phases
  <1>6. Shapes' /\ Phases'
    BY <1>1, <1>3, <1>5 DEF Owned, Shapes, Phases
  <1>7. \A e \in pool' : e \notin Held' /\ buf'[e] = <<>>
    BY <1>1, <1>4, <1>5 DEF Owned, Shapes, DictionariesHaveOneOwner
  <1>8. \A y, z \in Workers : y # z /\ w'[y].dict = w'[z].dict => w'[y].dict = None
    BY <1>3 DEF Owned, DictionariesHaveOneOwner
  <1>9. QED
    BY <1>1, <1>6, <1>7, <1>8 DEF Owned, DictionariesHaveOneOwner

-----------------------------------------------------------------------------
LEMMA InitOwned == Init => Owned
  BY NoWorkOK DEF Init, Owned, Shapes, Phases, DictionariesHaveOneOwner

LEMMA NextOwned == Owned /\ [Next]_vars => Owned'
  <1> SUFFICES ASSUME Owned, [Next]_vars PROVE Owned'
    OBVIOUS
  <1>1. ASSUME w' = w, UNCHANGED dictVars PROVE Owned'
    BY <1>1 DEF dictVars, Owned, Shapes, Phases, DictionariesHaveOneOwner, Held
  <1>2. ASSUME NEW x \in Workers, Work(x) PROVE Owned'
    <2>1. CASE ReadFails(x)
      BY <2>1, CloseOK DEF ReadFails
    <2>2. QED
      BY <1>2, <2>1, AcceptOK, AcceptFailsOK, ReadOK, ParseRequestOK, GetFirstOK, GetOK,
         AppendBodyOK, WriteOK, FinishOK DEF Work
  <1>3. CASE UNCHANGED vars
    BY <1>1, <1>3 DEF vars
  <1>4. CASE \E c \in Conns : Dial(c) \/ HangUp(c) \/ \E r \in Requests : Send(c, r)
    BY <1>1, <1>4 DEF Dial, HangUp, Send
  <1>5. CASE CloseListener \/ PublishLoad \/ PublishStore
    BY <1>1, <1>5 DEF CloseListener, PublishLoad, PublishStore
  <1>6. QED
    BY <1>2, <1>3, <1>4, <1>5 DEF Next

(* Whatever the clients send and whoever is refused, no two workers write   *)
(* to one dictionary, and one in the pool is empty and nobody's.            *)
THEOREM OneOwner == Spec => []DictionariesHaveOneOwner
  <1>1. Owned => DictionariesHaveOneOwner
    BY DEF Owned
  <1>2. QED
    BY <1>1, InitOwned, NextOwned, PTL DEF Spec

-----------------------------------------------------------------------------
(* While a tick is under way, what it has loaded is less than what there    *)
(* is, and all that came since counts as raced.                             *)
Counted ==
    /\ hits \in Nat /\ unseen \in Nat /\ raced \in Nat
    /\ PublishedHits
    /\ loaded # None => loaded \in Nat /\ loaded <= unseen /\ unseen - loaded <= raced

LEMMA InitCounted == Init => Counted
  BY DEF Init, Counted, PublishedHits

LEMMA NextCounted == Counted /\ [Next]_vars => Counted'
  <1> SUFFICES ASSUME Counted, [Next]_vars PROVE Counted'
    OBVIOUS
  <1>1. ASSUME UNCHANGED statVars PROVE Counted'
    BY <1>1 DEF statVars, Counted, PublishedHits
  <1>2. ASSUME NEW x \in Workers, Read(x) PROVE Counted'
    BY <1>2 DEF Read, Counted, PublishedHits
  <1>3. CASE PublishLoad
    BY <1>3 DEF PublishLoad, Counted, PublishedHits
  <1>4. CASE PublishStore
    BY <1>4 DEF PublishStore, Counted, PublishedHits
  <1>5. ASSUME NEW x \in Workers, Work(x), ~Read(x) PROVE UNCHANGED statVars
    BY <1>5 DEF Work, Accept, AcceptFails, ReadFails, ParseRequest, GetFirst, Get, AppendBody,
                Write, Finish
  <1>6. CASE UNCHANGED vars
    BY <1>1, <1>6 DEF vars
  <1>7. CASE \E c \in Conns : Dial(c) \/ HangUp(c) \/ \E r \in Requests : Send(c, r)
    BY <1>1, <1>7 DEF Dial, HangUp, Send
  <1>8. CASE CloseListener
    BY <1>1, <1>8 DEF CloseListener
  <1>9. QED
    BY <1>1, <1>2, <1>3, <1>4, <1>5, <1>6, <1>7, <1>8 DEF Next

(* No request is published twice, and none is missed but those that come    *)
(* while a tick is under way.                                               *)
THEOREM CountsAreRight == Spec => []PublishedHits
  <1>1. Counted => PublishedHits
    BY DEF Counted
  <1>2. QED
    BY <1>1, InitCounted, NextCounted, PTL DEF Spec

-----------------------------------------------------------------------------
(* Where a connection is                                                    *)

ConnFields == {"state", "req", "data", "gone", "reply"}

\* A worker has a connection from Accept until it closes it
Serving == {"read", "parse", "get", "append", "write", "close"}

Pcs == {"accept", "done"} \cup Serving

ConnShapes == DOMAIN conn = Conns /\ \A c \in Conns : DOMAIN conn[c] = ConnFields

Queue ==
    /\ backlog \in Seq(Conns)
    /\ \A i, j \in DOMAIN backlog : backlog[i] = backlog[j] => i = j
    /\ \A c \in Conns : conn[c].state = "queued" <=> \E i \in DOMAIN backlog : backlog[i] = c

Served ==
    /\ \A x \in Workers :
          /\ w[x].pc \in Pcs
          /\ w[x].pc \in Serving => w[x].conn \in Conns
          /\ w[x].pc \notin Serving => w[x].conn = None
    /\ \A x, y \in Workers : x # y /\ w[x].conn # None => w[x].conn # w[y].conn
    /\ \A c \in Conns : (conn[c].state = "open") <=> (\E x \in Workers : w[x].conn = c)
    /\ \A c \in Conns : conn[c].state \in {"none", "queued", "open", "closed"}

(* TypeOK relates the states of the connections to who has them; that one   *)
(* has only one owner makes it inductive.                                   *)
Placed == ConnShapes /\ Queue /\ Served

(* The connections and the backlog stay where they are, and so does the     *)
(* worker's.                                                                *)
LEMMA StayOK ==
    ASSUME Owned, Placed, NEW x \in Workers, NEW l, w' = [w EXCEPT ![x] = l],
           ConnShapes', backlog' = backlog, \A c \in Conns : conn'[c].state = conn[c].state,
           l.conn = w[x].conn, l.pc \in Pcs, (l.pc \in Serving) <=> (w[x].pc \in Serving)
    PROVE  Placed'
  <1>1. w'[x] = l /\ \A y \in Workers \ {x} : w'[y] = w[y]
    BY DEF Owned, Shapes
  <1>2. \A y \in Workers : w'[y].conn = w[y].conn
    BY <1>1
  <1>3. Queue'
    BY DEF Placed, Queue
  <1>4. Served'
    BY <1>1, <1>2 DEF Placed, Served
  <1>5. QED
    BY <1>3, <1>4 DEF Placed

(* No connection changes hands.                                             *)
LEMMA SameOK ==
    ASSUME Owned, Placed, w' = w, ConnShapes', Queue',
           \A c \in Conns : /\ conn'[c].state \in {"none", "queued", "open", "closed"}
                            /\ (conn'[c].state = "open") <=> (conn[c].state = "open")
    PROVE  Placed'
  BY DEF Placed, Served

LEMMA NoWorkFields ==
    ASSUME NEW b
    PROVE  /\ NoWork(b).pc = "accept" /\ NoWork(b).conn = None /\ NoWork(b).buffer = b
  BY DEF NoWork

LEMMA NoConnFields ==
    /\ DOMAIN NoConn = ConnFields /\ DOMAIN Closed = ConnFields
    /\ NoConn.state = "none" /\ Closed.state = "closed"
    /\ NoConn.reply = None /\ Closed.reply = None
    /\ NoConn.data = <<>> /\ Closed.data = <<>>
  BY DEF NoConn, Closed, ConnFields

LEMMA DialPlaced ==
    ASSUME Owned, Placed, NEW c \in Conns, Dial(c)
    PROVE  Placed'
  <1>1. /\ conn[c].state = "none" /\ w' = w
        /\ conn' = [conn EXCEPT ![c].state = "queued"]
        /\ backlog' = Append(backlog, c)
    BY DEF Dial
  <1>2. ConnShapes'
    BY <1>1 DEF Placed, ConnShapes, ConnFields
  <1>3. conn'[c].state = "queued" /\ \A d \in Conns \ {c} : conn'[d] = conn[d]
    BY <1>1 DEF Placed, ConnShapes, ConnFields
  <1>4. PICK n \in Nat : n = Len(backlog) /\ DOMAIN backlog = 1..n
    BY DEF Placed, Queue
  <1>5. /\ backlog' \in Seq(Conns) /\ DOMAIN backlog' = 1..(n + 1)
        /\ \A i \in 1..n : backlog'[i] = backlog[i]
        /\ backlog'[n + 1] = c
    BY <1>1, <1>4, AppendProperties DEF Placed, Queue
  <1>6. \A i \in 1..n : backlog[i] # c
    BY <1>1, <1>4 DEF Placed, Queue
  <1>7. \A i, j \in DOMAIN backlog' : backlog'[i] = backlog'[j] => i = j
    <2>1. SUFFICES ASSUME NEW i \in 1..(n + 1), NEW j \in 1..(n + 1), backlog'[i] = backlog'[j]
                   PROVE  i = j
      BY <1>5
    <2>2. CASE i \in 1..n /\ j \in 1..n
      BY <1>4, <1>5, <2>1, <2>2 DEF Placed, Queue
    <2>3. CASE i = n + 1 \/ j = n + 1
      BY <1>5, <1>6, <2>1, <2>3
    <2>4. QED
      BY <2>2, <2>3
  <1>8. ASSUME NEW d \in Conns
        PROVE  conn'[d].state = "queued" <=> \E i \in DOMAIN backlog' : backlog'[i] = d
    <2>1. CASE d = c
      BY <1>3, <1>5, <2>1
    <2>2. CASE d # c
      BY <1>3, <1>4, <1>5, <2>2 DEF Placed, Queue
    <2>3. QED
      BY <2>1, <2>2
  <1>9. Queue'
    BY <1>5, <1>7, <1>8 DEF Queue
  <1>10. QED
    BY <1>1, <1>2, <1>3, <1>9, SameOK DEF Placed, Served

LEMMA SendPlaced ==
    ASSUME Owned, Placed, NEW c \in Conns, NEW r, Send(c, r)
    PROVE  Placed'
  <1>1. PICK data : /\ conn' = [conn EXCEPT ![c].req = r, ![c].data = data]
                    /\ w' = w /\ backlog' = backlog
    BY DEF Send
  <1>2. ConnShapes' /\ \A d \in Conns : conn'[d].state = conn[d].state
    BY <1>1 DEF Placed, ConnShapes, ConnFields
  <1>3. Queue'
    BY <1>1, <1>2 DEF Placed, Queue
  <1>4. QED
    BY <1>1, <1>2, <1>3, SameOK DEF Placed, Served

LEMMA HangUpPlaced ==
    ASSUME Owned, Placed, NEW c \in Conns, HangUp(c)
    PROVE  Placed'
  <1>1. conn' = [conn EXCEPT ![c].gone = TRUE] /\ w' = w /\ backlog' = backlog
    BY DEF HangUp
  <1>2. ConnShapes' /\ \A d \in Conns : conn'[d].state = conn[d].state
    BY <1>1 DEF Placed, ConnShapes, ConnFields
  <1>3. Queue'
    BY <1>1, <1>2 DEF Placed, Queue
  <1>4. QED
    BY <1>1, <1>2, <1>3, SameOK DEF Placed, Served

LEMMA CloseListenerPlaced ==
    ASSUME Owned, Placed, CloseListener
    PROVE  Placed'
  <1>1. /\ w' = w /\ backlog' = <<>>
        /\ conn' = [c \in Conns |-> IF conn[c].state = "queued" THEN Closed ELSE conn[c]]
    BY DEF CloseListener
  <1>2. ConnShapes'
    BY <1>1, NoConnFields DEF Placed, ConnShapes
  <1>3. \A c \in Conns : conn'[c].state = IF conn[c].state = "queued" THEN "closed"
                                          ELSE conn[c].state
    BY <1>1, NoConnFields
  <1>4. Queue'
    BY <1>1, <1>3 DEF Queue
  <1>5. QED
    BY <1>1, <1>2, <1>3, <1>4, SameOK DEF Placed, Served

LEMMA AcceptPlaced ==
    ASSUME Owned, Placed, NEW x \in Workers, Accept(x)
    PROVE  Placed'
  <1>1. PICK c : c = Head(backlog)
    OBVIOUS
  <1>2. PICK l : l = [w[x] EXCEPT !.pc = "read", !.conn = c]
    OBVIOUS
  <1>3. /\ w[x].pc = "accept" /\ backlog # <<>> /\ w' = [w EXCEPT ![x] = l]
        /\ conn' = [conn EXCEPT ![c].state = "open"] /\ backlog' = Tail(backlog)
    BY <1>1, <1>2 DEF Accept, Owned, Shapes
  <1>4. /\ l.pc = "read" /\ l.conn = c /\ w'[x] = l
        /\ \A y \in Workers \ {x} : w'[y] = w[y]
    BY <1>2, <1>3 DEF Owned, Shapes, Fields
  <1>5. PICK n \in Nat : n = Len(backlog) /\ DOMAIN backlog = 1..n
    BY DEF Placed, Queue
  <1>6. /\ n > 0 /\ c \in Conns /\ c = backlog[1]
        /\ backlog' \in Seq(Conns) /\ DOMAIN backlog' = 1..(n - 1)
        /\ \A i \in 1..(n - 1) : backlog'[i] = backlog[i + 1]
    BY <1>1, <1>3, <1>5, HeadTailProperties DEF Placed, Queue
  <1>7. conn[c].state = "queued"
    BY <1>5, <1>6 DEF Placed, Queue
  <1>8. ConnShapes' /\ conn'[c].state = "open" /\ \A d \in Conns \ {c} : conn'[d] = conn[d]
    BY <1>3, <1>6 DEF Placed, ConnShapes, ConnFields
  <1>9. ASSUME NEW d \in Conns
        PROVE  conn'[d].state = "queued" <=> \E i \in DOMAIN backlog' : backlog'[i] = d
    <2>1. CASE d = c
      <3>1. ASSUME NEW i \in 1..(n - 1) PROVE backlog[i + 1] # c
        <4>1. i + 1 \in DOMAIN backlog /\ 1 \in DOMAIN backlog /\ i + 1 # 1
          BY <1>5, <1>6, <3>1
        <4>2. QED
          BY <1>6, <4>1 DEF Placed, Queue
      <3>2. QED
        BY <1>6, <1>8, <2>1, <3>1
    <2>2. CASE d # c
      <3>1. conn'[d].state = "queued" <=> \E i \in 1..n : backlog[i] = d
        BY <1>5, <1>8, <2>2 DEF Placed, Queue
      <3>2. ASSUME NEW i \in 1..n, backlog[i] = d
            PROVE  \E j \in 1..(n - 1) : backlog'[j] = d
        <4>1. i # 1
          BY <1>6, <2>2, <3>2
        <4>2. i - 1 \in 1..(n - 1) /\ (i - 1) + 1 = i
          BY <3>2, <4>1
        <4>3. QED
          BY <1>6, <3>2, <4>2
      <3>3. \A j \in 1..(n - 1) : j + 1 \in 1..n
        OBVIOUS
      <3>4. QED
        BY <1>6, <3>1, <3>2, <3>3
    <2>3. QED
      BY <2>1, <2>2
  <1>10. \A i, j \in DOMAIN backlog' : backlog'[i] = backlog'[j] => i = j
    <2>1. SUFFICES ASSUME NEW i \in 1..(n - 1), NEW j \in 1..(n - 1), backlog'[i] = backlog'[j]
                   PROVE  i = j
      BY <1>6
    <2>2. i + 1 \in DOMAIN backlog /\ j + 1 \in DOMAIN backlog
      BY <1>5
    <2>3. i + 1 = j + 1
      BY <1>6, <2>1, <2>2 DEF Placed, Queue
    <2>4. QED
      BY <2>3
  <1>11. Queue'
    BY <1>6, <1>9, <1>10 DEF Queue
  <1>12. \A y \in Workers : w[y].conn # c
    BY <1>6, <1>7 DEF Placed, Served
  <1>13. c # None
    BY <1>6, NoneAssumption
  <1>14. w[x].conn = None
    BY <1>3 DEF Placed, Served, Serving
  <1>15. Served'
    <2>1. \A y \in Workers : /\ w'[y].pc \in Pcs
                             /\ w'[y].pc \in Serving => w'[y].conn \in Conns
                             /\ w'[y].pc \notin Serving => w'[y].conn = None
      BY <1>4, <1>6 DEF Placed, Served, Serving, Pcs
    <2>2. \A y, z \in Workers : y # z /\ w'[y].conn # None => w'[y].conn # w'[z].conn
      BY <1>4, <1>12 DEF Placed, Served
    <2>3. ASSUME NEW d \in Conns
          PROVE  (conn'[d].state = "open") <=> (\E y \in Workers : w'[y].conn = d)
      <3>1. CASE d = c
        BY <1>4, <1>8, <3>1
      <3>2. CASE d # c
        <4>1. d # None
          BY NoneAssumption
        <4>2. (\E y \in Workers : w'[y].conn = d) <=> (\E y \in Workers : w[y].conn = d)
          BY <1>4, <1>14, <3>2, <4>1
        <4>3. QED
          BY <1>8, <3>2, <4>2 DEF Placed, Served
      <3>3. QED
        BY <3>1, <3>2
    <2>4. \A d \in Conns : conn'[d].state \in {"none", "queued", "open", "closed"}
      BY <1>8 DEF Placed, Served
    <2>5. QED
      BY <2>1, <2>2, <2>3, <2>4 DEF Served
  <1>16. QED
    BY <1>8, <1>11, <1>15 DEF Placed

(* conn.Close: nobody has the connection any more.                          *)
LEMMA ClosePlaced ==
    ASSUME Owned, Placed, NEW x \in Workers, w[x].pc \in Serving, Close(x)
    PROVE  Placed'
  <1>1. PICK c, l : c = w[x].conn /\ l = NoWork(w[x].buffer)
    OBVIOUS
  <1>2. /\ w' = [w EXCEPT ![x] = l] /\ conn' = [conn EXCEPT ![c] = Closed]
        /\ backlog' = backlog
    BY <1>1 DEF Close
  <1>3. l.pc = "accept" /\ l.conn = None
    BY <1>1, NoWorkFields
  <1>4. w'[x] = l /\ \A y \in Workers \ {x} : w'[y] = w[y]
    BY <1>2 DEF Owned, Shapes
  <1>5. c \in Conns /\ conn[c].state = "open"
    BY <1>1 DEF Placed, Served
  <1>6. ConnShapes' /\ conn'[c].state = "closed" /\ \A d \in Conns \ {c} : conn'[d] = conn[d]
    BY <1>2, <1>5, NoConnFields DEF Placed, ConnShapes
  <1>7. Queue'
    <2>1. ASSUME NEW d \in Conns PROVE conn'[d].state = "queued" <=> conn[d].state = "queued"
      BY <1>5, <1>6
    <2>2. QED
      BY <1>2, <2>1 DEF Placed, Queue
  <1>8. \A y \in Workers \ {x} : w[y].conn # c
    BY <1>1, <1>5, NoneAssumption DEF Placed, Served
  <1>9. ASSUME NEW d \in Conns
        PROVE  (conn'[d].state = "open") <=> (\E y \in Workers : w'[y].conn = d)
    <2>1. d # None
      BY NoneAssumption
    <2>2. CASE d = c
      BY <1>3, <1>4, <1>6, <1>8, <2>1, <2>2
    <2>3. CASE d # c
      <3>1. (\E y \in Workers : w'[y].conn = d) <=> (\E y \in Workers : w[y].conn = d)
        BY <1>1, <1>3, <1>4, <2>1, <2>3
      <3>2. QED
        BY <1>6, <2>3, <3>1 DEF Placed, Served
    <2>4. QED
      BY <2>2, <2>3
  <1>10. Served'
    <2>1. \A y \in Workers : /\ w'[y].pc \in Pcs
                             /\ w'[y].pc \in Serving => w'[y].conn \in Conns
                             /\ w'[y].pc \notin Serving => w'[y].conn = None
      BY <1>3, <1>4 DEF Placed, Served, Serving, Pcs
    <2>2. \A y, z \in Workers : y # z /\ w'[y].conn # None => w'[y].conn # w'[z].conn
      BY <1>3, <1>4 DEF Placed, Served
    <2>3. \A d \in Conns : conn'[d].state \in {"none", "queued", "open", "closed"}
      BY <1>6 DEF Placed, Served
    <2>4. QED
      BY <1>9, <2>1, <2>2, <2>3 DEF Served
  <1>11. QED
    BY <1>6, <1>7, <1>10 DEF Placed

LEMMA AcceptFailsPlaced ==
    ASSUME Owned, Placed, NEW x \in Workers, AcceptFails(x)
    PROVE  Placed'
  <1>1. PICK l : l = [w[x] EXCEPT !.pc = "done"]
    OBVIOUS
  <1>2. w' = [w EXCEPT ![x] = l] /\ UNCHANGED <<conn, backlog>> /\ w[x].pc = "accept"
    BY <1>1 DEF AcceptFails, connVars, Owned, Shapes
  <1>3. l.pc = "done" /\ l.conn = w[x].conn
    BY <1>1 DEF Owned, Shapes, Fields
  <1>4. QED
    BY <1>2, <1>3, StayOK DEF Placed, ConnShapes, Pcs, Serving

LEMMA ReadPlaced ==
    ASSUME Owned, Placed, NEW x \in Workers, Read(x)
    PROVE  Placed'
  <1>1. PICK b : b = conn[w[x].conn].data \o
                       SubSeq(w[x].buffer, Len(conn[w[x].conn].data) + 1, Len(w[x].buffer))
    OBVIOUS
  <1>2. PICK l : l = [w[x] EXCEPT !.pc = "parse", !.buffer = b]
    OBVIOUS
  <1>3. w' = [w EXCEPT ![x] = l] /\ UNCHANGED <<conn, backlog>> /\ w[x].pc = "read"
    BY <1>1, <1>2 DEF Read, connVars, Owned, Shapes, Fields
  <1>4. l.pc = "parse" /\ l.conn = w[x].conn
    BY <1>2 DEF Owned, Shapes, Fields
  <1>5. QED
    BY <1>3, <1>4, StayOK DEF Placed, ConnShapes, Pcs, Serving

\* What ParseRequest makes of worker x
ParsedAs(x, do, pc, out, b) ==
    /\ do = Answer(Parse(w[x].buffer, Len(conn[w[x].conn].data)))
    /\ pc = IF do.body = None THEN "write" ELSE "get"
    /\ out = IF do.body = None THEN do.plain ELSE <<>>
    /\ b = Decode64(w[x].buffer, Len(conn[w[x].conn].data))
    /\ w' = [w EXCEPT ![x] = [w[x] EXCEPT !.pc = pc, !.do = do, !.out = out, !.buffer = b]]

LEMMA ParseStep ==
    ASSUME Owned, NEW x \in Workers, ParseRequest(x)
    PROVE  \E do, pc, out, b : ParsedAs(x, do, pc, out, b)
  <1> DEFINE size == Len(conn[w[x].conn].data)
             outOf(do) == IF do.body = None THEN do.plain ELSE <<>>
             pcOf(do) == IF do.body = None THEN "write" ELSE "get"
             bOf == Decode64(w[x].buffer, size)
  <1>1. PICK do : /\ do = Answer(Parse(w[x].buffer, size))
                  /\ w' = [w EXCEPT ![x].pc = pcOf(do), ![x].do = do, ![x].out = outOf(do),
                                    ![x].buffer = Decode64(@, size)]
    <2>1. PICK p \in {Parse(w[x].buffer, size)} :
            \E do \in {Answer(p)} :
               w' = [w EXCEPT ![x].pc = pcOf(do), ![x].do = do, ![x].out = outOf(do),
                              ![x].buffer = Decode64(@, size)]
      BY DEF ParseRequest
    <2>2. PICK do \in {Answer(p)} :
               w' = [w EXCEPT ![x].pc = pcOf(do), ![x].do = do, ![x].out = outOf(do),
                              ![x].buffer = Decode64(@, size)]
      BY <2>1
    <2>3. do = Answer(Parse(w[x].buffer, size))
      BY <2>1, <2>2
    <2> HIDE DEF size, pcOf, outOf
    <2>4. QED
      BY <2>2, <2>3
  <1>2. w' = [w EXCEPT ![x].pc = pcOf(do), ![x].do = do, ![x].out = outOf(do), ![x].buffer = bOf]
    BY <1>1 DEF Owned, Shapes, Fields
  <1>3. PICK pc, out, b : pc = pcOf(do) /\ out = outOf(do) /\ b = bOf
    OBVIOUS
  <1> HIDE DEF bOf, size, pcOf, outOf
  <1>4. w' = [w EXCEPT ![x].pc = pc, ![x].do = do, ![x].out = out, ![x].buffer = b]
    BY <1>2, <1>3
  <1>5. w' = [w EXCEPT ![x] = [w[x] EXCEPT !.pc = pc, !.do = do, !.out = out, !.buffer = b]]
    BY <1>4 DEF Owned, Shapes, Fields
  <1>6. ParsedAs(x, do, pc, out, b)
    BY <1>1, <1>3, <1>5 DEF ParsedAs, size, pcOf, outOf, bOf
  <1>7. QED
    BY <1>6

LEMMA ParseRequestPlaced ==
    ASSUME Owned, Placed, NEW x \in Workers, ParseRequest(x)
    PROVE  Placed'
  <1>1. PICK do, pc, out, b : ParsedAs(x, do, pc, out, b)
    BY ParseStep
  <1>2. PICK l : l = [w[x] EXCEPT !.pc = pc, !.do = do, !.out = out, !.buffer = b]
    OBVIOUS
  <1>3. w' = [w EXCEPT ![x] = l]
    BY <1>1, <1>2 DEF ParsedAs
  <1>4. UNCHANGED <<conn, backlog>> /\ w[x].pc = "parse"
    BY DEF ParseRequest, connVars
  <1>5. l.pc \in {"write", "get"} /\ l.conn = w[x].conn
    BY <1>1, <1>2 DEF ParsedAs, Owned, Shapes, Fields
  <1>6. QED
    BY <1>3, <1>4, <1>5, StayOK DEF Placed, ConnShapes, Pcs, Serving

LEMMA GetFirstPlaced ==
    ASSUME Owned, Placed, NEW x \in Workers, NEW d, GetFirst(x, d)
    PROVE  Placed'
  <1>1. PICK do : do = Dictionary(w[x].do.body)
    OBVIOUS
  <1>2. PICK l : l = [w[x] EXCEPT !.do = do]
    OBVIOUS
  <1>3. w' = [w EXCEPT ![x] = l]
    BY <1>1, <1>2 DEF GetFirst, Owned, Shapes, Fields
  <1>4. UNCHANGED <<conn, backlog>> /\ w[x].pc = "get"
    BY DEF GetFirst, connVars
  <1>5. l.pc = w[x].pc /\ l.conn = w[x].conn
    BY <1>2 DEF Owned, Shapes, Fields
  <1>6. QED
    BY <1>3, <1>4, <1>5, StayOK DEF Placed, ConnShapes, Pcs, Serving

LEMMA GetPlaced ==
    ASSUME Owned, Placed, NEW x \in Workers, NEW d, Get(x, d)
    PROVE  Placed'
  <1>1. PICK l : l = [w[x] EXCEPT !.dict = d, !.pc = "append"]
    OBVIOUS
  <1>2. w' = [w EXCEPT ![x] = l] /\ UNCHANGED <<conn, backlog>> /\ w[x].pc = "get"
    BY <1>1 DEF Get, connVars, Owned, Shapes
  <1>3. l.pc = "append" /\ l.conn = w[x].conn
    BY <1>1 DEF Owned, Shapes, Fields
  <1>4. QED
    BY <1>2, <1>3, StayOK DEF Placed, ConnShapes, Pcs, Serving

LEMMA AppendBodyPlaced ==
    ASSUME Owned, Placed, NEW x \in Workers, AppendBody(x)
    PROVE  Placed'
  <1>1. PICK out : w' = [w EXCEPT ![x].pc = "write", ![x].out = out]
    BY DEF AppendBody
  <1>2. PICK l : l = [w[x] EXCEPT !.pc = "write", !.out = out]
    OBVIOUS
  <1>3. w' = [w EXCEPT ![x] = l] /\ UNCHANGED <<conn, backlog>> /\ w[x].pc = "append"
    BY <1>1, <1>2 DEF AppendBody, connVars, Owned, Shapes
  <1>4. l.pc = "write" /\ l.conn = w[x].conn
    BY <1>2 DEF Owned, Shapes, Fields
  <1>5. QED
    BY <1>3, <1>4, StayOK DEF Placed, ConnShapes, Pcs, Serving

LEMMA WritePlaced ==
    ASSUME Owned, Placed, NEW x \in Workers, Write(x)
    PROVE  Placed'
  <1>1. PICK r : r = IF w[x].out = None THEN spare ELSE w[x].out
    OBVIOUS
  <1>2. PICK l : l = [w[x] EXCEPT !.pc = "close"]
    OBVIOUS
  <1>3. w' = [w EXCEPT ![x] = l] /\ backlog' = backlog /\ w[x].pc = "write"
    BY <1>2 DEF Write, Owned, Shapes
  <1>4. conn' = [conn EXCEPT ![w[x].conn].reply = r]
    BY <1>1 DEF Write
  <1>5. ConnShapes' /\ \A c \in Conns : conn'[c].state = conn[c].state
    BY <1>4 DEF Placed, ConnShapes, ConnFields
  <1>6. l.pc = "close" /\ l.conn = w[x].conn
    BY <1>2 DEF Owned, Shapes, Fields
  <1>7. QED
    BY <1>3, <1>5, <1>6, StayOK DEF Pcs, Serving

LEMMA InitPlaced == Init => Placed
  <1> SUFFICES ASSUME Init PROVE Placed
    OBVIOUS
  <1>1. /\ \A c \in Conns : DOMAIN conn[c] = ConnFields /\ conn[c].state = "none"
        /\ \A x \in Workers : w[x].pc = "accept" /\ w[x].conn = None
    BY NoConnFields, NoWorkFields DEF Init
  <1>2. ConnShapes
    BY <1>1 DEF Init, ConnShapes
  <1>3. Queue
    BY <1>1 DEF Init, Queue
  <1>4. Served
    BY <1>1, NoneAssumption DEF Served, Pcs, Serving
  <1>5. QED
    BY <1>2, <1>3, <1>4 DEF Placed

LEMMA WorkPlaced ==
    ASSUME Owned, Placed, NEW x \in Workers, Work(x)
    PROVE  Placed'
  <1>1. CASE ReadFails(x)
    <2>1. w[x].pc \in Serving /\ Close(x)
      BY <1>1 DEF ReadFails, Serving
    <2>2. QED
      BY <2>1, ClosePlaced
  <1>2. CASE Finish(x)
    <2>1. w[x].pc \in Serving /\ Close(x)
      BY <1>2 DEF Finish, Serving
    <2>2. QED
      BY <2>1, ClosePlaced
  <1>3. QED
    BY <1>1, <1>2, AcceptPlaced, AcceptFailsPlaced, ReadPlaced, ParseRequestPlaced,
       GetFirstPlaced, GetPlaced, AppendBodyPlaced, WritePlaced DEF Work

LEMMA NextPlaced == Owned /\ Placed /\ [Next]_vars => Placed'
  <1> SUFFICES ASSUME Owned, Placed, [Next]_vars PROVE Placed'
    OBVIOUS
  <1>1. ASSUME UNCHANGED <<conn, backlog, w>> PROVE Placed'
    BY <1>1 DEF Placed, ConnShapes, Queue, Served
  <1>2. CASE UNCHANGED vars
    BY <1>1, <1>2 DEF vars, connVars
  <1>3. CASE PublishLoad \/ PublishStore
    BY <1>1, <1>3 DEF PublishLoad, PublishStore, connVars
  <1>4. CASE \E c \in Conns : Dial(c) \/ HangUp(c) \/ \E r \in Requests : Send(c, r)
    BY <1>4, DialPlaced, HangUpPlaced, SendPlaced
  <1>5. CASE CloseListener
    BY <1>5, CloseListenerPlaced
  <1>6. CASE \E x \in Workers : Work(x)
    BY <1>6, WorkPlaced
  <1>7. QED
    BY <1>2, <1>3, <1>4, <1>5, <1>6 DEF Next

\* The counters of a tick
Ticks == ticks \in 0..MaxTicks /\ loaded \in Nat \cup {None}

LEMMA InitTicks == Init => Ticks
  BY SizesAssumption DEF Init, Ticks

LEMMA NextTicks == Counted /\ Ticks /\ [Next]_vars => Ticks'
  <1> SUFFICES ASSUME Counted, Ticks, [Next]_vars PROVE Ticks'
    OBVIOUS
  <1>1. ASSUME UNCHANGED <<ticks, loaded>> PROVE Ticks'
    BY <1>1 DEF Ticks
  <1>2. CASE PublishLoad
    BY <1>2, SizesAssumption DEF PublishLoad, Ticks, Counted
  <1>3. CASE PublishStore
    BY <1>3 DEF PublishStore, Ticks
  <1>4. ASSUME NEW x \in Workers, Work(x) PROVE UNCHANGED <<ticks, loaded>>
    BY <1>4 DEF Work, Accept, AcceptFails, ReadFails, ParseRequest, GetFirst, Get, AppendBody,
                Read, Write, Finish, statVars
  <1>5. CASE UNCHANGED vars
    BY <1>1, <1>5 DEF vars, statVars
  <1>6. CASE \E c \in Conns : Dial(c) \/ HangUp(c) \/ \E r \in Requests : Send(c, r)
    BY <1>1, <1>6 DEF Dial, HangUp, Send, statVars
  <1>7. CASE CloseListener
    BY <1>1, <1>7 DEF CloseListener, statVars
  <1>8. QED
    BY <1>1, <1>2, <1>3, <1>4, <1>5, <1>6, <1>7 DEF Next

(* Every connection is where its state says it is, whoever accepts, fails   *)
(* or hangs up: it waits in the backlog, or one worker has it, or it is     *)
(* closed; and the counters of a tick stay in their bounds.                 *)
THEOREM TypeCorrect == Spec => []TypeOK
  <1>1. Owned /\ Placed /\ Counted /\ Ticks => TypeOK
    <2> SUFFICES ASSUME Owned, Placed, Counted, Ticks PROVE TypeOK
      OBVIOUS
    <2>1. \A x \in Workers : /\ w[x].conn \in Conns \cup {None}
                             /\ w[x].dict \in Dictionaries \cup {None}
      BY DEF Owned, Phases, Placed, Served
    <2>2. QED
      BY <2>1 DEF Owned, Shapes, Placed, Queue, Served, Pcs, Serving, Counted, Ticks, TypeOK
  <1>2. QED
    BY <1>1, InitOwned, NextOwned, InitPlaced, NextPlaced, InitCounted, NextCounted, InitTicks, NextTicks,
       PTL DEF Spec

-----------------------------------------------------------------------------
(* What is in the buffer after a request                                    *)

\* s is a sequence, of whatever
Sequence(s) == \E S : s \in Seq(S)

LEMMA SequenceOK ==
    ASSUME NEW s, Sequence(s)
    PROVE  Len(s) \in Nat /\ DOMAIN s = 1..Len(s) /\ s = [i \in 1..Len(s) |-> s[i]]
  <1>1. PICK S : s \in Seq(S)
    BY DEF Sequence
  <1>2. QED
    BY <1>1

LEMMA BuiltOK ==
    ASSUME NEW n \in Nat, NEW s, s = [i \in 1..n |-> s[i]]
    PROVE  Sequence(s) /\ Len(s) = n
  <1>1. PICK S : S = {s[i] : i \in 1..n}
    OBVIOUS
  <1>2. \A i \in 1..n : s[i] \in S
    BY <1>1
  <1>3. s \in [1..n -> S]
    BY <1>2
  <1>4. s \in Seq(S)
    BY <1>3, SeqDef
  <1>5. Len(s) = n
    BY <1>3, <1>4
  <1>6. QED
    BY <1>4, <1>5 DEF Sequence

LEMMA JoinedOK ==
    ASSUME NEW s, NEW t, Sequence(s), Sequence(t)
    PROVE  /\ Sequence(s \o t) /\ Len(s \o t) = Len(s) + Len(t)
           /\ \A i \in 1..Len(s) : (s \o t)[i] = s[i]
  <1>1. PICK S : s \in Seq(S)
    BY DEF Sequence
  <1>2. PICK T : t \in Seq(T)
    BY DEF Sequence
  <1>3. s \in Seq(S \cup T) /\ t \in Seq(S \cup T)
    BY <1>1, <1>2
  <1>4. s \o t \in Seq(S \cup T)
    BY <1>3
  <1>5. QED
    BY <1>3, <1>4 DEF Sequence

LEMMA LeastElement ==
    ASSUME NEW T \in SUBSET Nat, T # {}
    PROVE  \E n \in T : \A m \in T : n <= m
  <1>1. IsWellFoundedOn(OpToRel(<, Nat), Nat)
    BY NatLessThanWellFounded
  <1> DEFINE R == {ss \in Nat \X Nat : ss[1] < ss[2]}
  <1>2. IsWellFoundedOn(R, Nat)
    BY <1>1 DEF OpToRel
  <1> HIDE DEF R
  <1>3. PICK n \in T : \A m \in T : ~(<<m, n>> \in R)
    BY <1>2, WFMin
  <1>4. \A m \in T : ~(m < n)
    BY <1>3 DEF R
  <1>5. QED
    BY <1>4

\* Index finds the first
LEMMA IndexOK ==
    ASSUME NEW s, NEW n \in Nat, DOMAIN s = 1..n, NEW k
    PROVE  /\ Index(s, k) \in 0..n
           /\ Index(s, k) = 0 => \A j \in 1..n : s[j].kind # k
           /\ Index(s, k) # 0 => /\ s[Index(s, k)].kind = k
                                 /\ \A j \in 1..n : j < Index(s, k) => s[j].kind # k
  <1>1. CASE \A j \in 1..n : s[j].kind # k
    <2>1. Index(s, k) = 0
      BY <1>1 DEF Index
    <2>2. QED
      BY <1>1, <2>1
  <1>2. CASE \E j \in 1..n : s[j].kind = k
    <2>1. PICK T : T = {j \in 1..n : s[j].kind = k}
      OBVIOUS
    <2>2. T \in SUBSET Nat /\ T # {}
      BY <1>2, <2>1
    <2>3. PICK i \in T : \A m \in T : i <= m
      BY <2>2, LeastElement
    <2>4. i \in 1..n /\ s[i].kind = k
      BY <2>1, <2>3
    <2>5. ASSUME NEW j \in 1..i - 1 PROVE s[j].kind # k
      <3>1. j \in 1..n /\ j < i
        BY <2>4
      <3>2. j \notin T
        BY <2>3, <2>4, <3>1
      <3>3. QED
        BY <2>1, <3>1, <3>2
    <2>6. \E q \in DOMAIN s : s[q].kind = k /\ \A j \in 1..q - 1 : s[j].kind # k
      BY <2>4, <2>5
    <2>7. PICK c : c = CHOOSE q \in DOMAIN s : s[q].kind = k /\ \A j \in 1..q - 1 : s[j].kind # k
      OBVIOUS
    <2>8. c \in DOMAIN s /\ s[c].kind = k /\ \A j \in 1..c - 1 : s[j].kind # k
      BY <2>6, <2>7
    <2>9. Index(s, k) = c
      BY <1>2, <2>7 DEF Index
    <2>10. c \in 1..n /\ \A j \in 1..n : j < c => s[j].kind # k
      BY <2>8
    <2>11. QED
      BY <2>8, <2>9, <2>10
  <1>3. QED
    BY <1>1, <1>2

LEMMA IndexIs ==
    ASSUME NEW s, NEW n \in Nat, DOMAIN s = 1..n, NEW k, NEW i \in 1..n, s[i].kind = k,
           \A j \in 1..n : j < i => s[j].kind # k
    PROVE  Index(s, k) = i
  <1>1. PICK q : q = Index(s, k)
    OBVIOUS
  <1>2. /\ q \in 0..n
        /\ q = 0 => \A j \in 1..n : s[j].kind # k
        /\ q # 0 => s[q].kind = k /\ \A j \in 1..n : j < q => s[j].kind # k
    BY <1>1, IndexOK
  <1>3. q # 0 /\ ~(q < i) /\ ~(i < q)
    BY <1>2
  <1>4. QED
    BY <1>1, <1>2, <1>3

(* What follows a request in the buffer does not move what is found in it,  *)
(* and what is found after it is after its end.                             *)
LEMMA IndexAlone ==
    ASSUME NEW s, NEW t, Sequence(s), Sequence(t), NEW k
    PROVE  \/ Index(s \o t, k) = Index(s, k) /\ Index(s, k) \in 1..Len(s)
           \/ Index(s, k) = 0 /\ Index(s \o t, k) = 0
           \/ Index(s, k) = 0 /\ Index(s \o t, k) \in Nat /\ Index(s \o t, k) > Len(s)
  <1>1. PICK m, n, b : m = Len(s) /\ n = Len(t) /\ b = s \o t
    OBVIOUS
  <1>2. m \in Nat /\ n \in Nat /\ DOMAIN s = 1..m
    BY <1>1, SequenceOK
  <1>3. Sequence(b) /\ Len(b) = m + n /\ \A i \in 1..m : b[i] = s[i]
    BY <1>1, JoinedOK
  <1>4. DOMAIN b = 1..(m + n)
    BY <1>3, SequenceOK
  <1>5. PICK i, j : i = Index(s, k) /\ j = Index(b, k)
    OBVIOUS
  <1>6. /\ i \in 0..m
        /\ i = 0 => \A l \in 1..m : s[l].kind # k
        /\ i # 0 => s[i].kind = k /\ \A l \in 1..m : l < i => s[l].kind # k
    BY <1>2, <1>5, IndexOK
  <1>7. m + n \in Nat
    BY <1>2
  <1>8. j \in 0..(m + n) /\ (j # 0 => b[j].kind = k)
    BY <1>4, <1>5, <1>7, IndexOK
  <1>9. CASE i # 0
    <2>1. i \in 1..m /\ i \in 1..(m + n) /\ b[i].kind = k
      BY <1>2, <1>3, <1>6, <1>9
    <2>2. \A l \in 1..(m + n) : l < i => b[l].kind # k
      BY <1>2, <1>3, <1>6, <1>9
    <2>3. Index(b, k) = i
      BY <1>4, <1>7, <2>1, <2>2, IndexIs
    <2>4. QED
      BY <1>1, <1>5, <2>1, <2>3
  <1>10. CASE i = 0
    <2>1. j \in 1..m => b[j].kind # k
      BY <1>3, <1>6, <1>10
    <2>2. j = 0 \/ j > m
      BY <1>2, <1>8, <2>1
    <2>3. QED
      BY <1>1, <1>2, <1>5, <1>8, <1>10, <2>2
  <1>11. QED
    BY <1>9, <1>10

LEMMA CutIs ==
    ASSUME NEW s, NEW i \in Int, NEW j \in Int
    PROVE  SubSeq(s, i, j) = [l \in 1..(j - i + 1) |-> s[i + l - 1]]
  <1>1. PICK T : T = {s[l] : l \in i..j}
    OBVIOUS
  <1>2. \A l \in i..j : s[l] \in T
    BY <1>1
  <1>3. PICK c : c = SubSeq(s, i, j)
    OBVIOUS
  <1>4. /\ c \in Seq(T) /\ Len(c) = IF i <= j THEN j - i + 1 ELSE 0
        /\ \A l \in 1..(j - i + 1) : c[l] = s[i + l - 1]
    BY <1>2, <1>3, SubSeqProperties
  <1>5. c = [l \in 1..Len(c) |-> c[l]] /\ 1..Len(c) = 1..(j - i + 1)
    BY <1>4
  <1>6. c = [l \in 1..(j - i + 1) |-> s[i + l - 1]]
    BY <1>4, <1>5
  <1>7. QED
    BY <1>3, <1>6

LEMMA CutAlone ==
    ASSUME NEW s, NEW t, Sequence(s), Sequence(t), NEW i \in Nat \ {0}, NEW j \in Int, j <= Len(s)
    PROVE  SubSeq(s \o t, i, j) = SubSeq(s, i, j)
  <1>1. PICK b, m : b = s \o t /\ m = Len(s)
    OBVIOUS
  <1>2. m \in Nat /\ \A l \in 1..m : b[l] = s[l]
    BY <1>1, SequenceOK, JoinedOK
  <1>3. SubSeq(b, i, j) = [l \in 1..(j - i + 1) |-> b[i + l - 1]]
    BY CutIs
  <1>4. SubSeq(s, i, j) = [l \in 1..(j - i + 1) |-> s[i + l - 1]]
    BY CutIs
  <1>5. \A l \in 1..(j - i + 1) : i + l - 1 \in 1..m
    BY <1>1, <1>2
  <1>6. QED
    BY <1>1, <1>2, <1>3, <1>4, <1>5

\* parse, when it looks at data and has found the delimiters
ParsedFrom(data, urlEnd, methodEnd, pathEnd) ==
    LET Part(i, j) == SubSeq(data, i + 1, j - 1)
        params == Params[Pieces[Part(pathEnd, urlEnd)]]
    IN  IF methodEnd = 0 \/ urlEnd < methodEnd \/ Part(0, methodEnd) # <<Tok("GET")>>
        THEN InvalidParse
        ELSE IF ~HasQuery(pathEnd, urlEnd)
        THEN [ok |-> TRUE, path |-> Part(methodEnd, urlEnd), params |-> <<>>]
        ELSE IF pathEnd < methodEnd \/ ~params.ok THEN InvalidParse
        ELSE [ok |-> TRUE, path |-> Part(methodEnd, pathEnd), params |-> params.list]

\* What parse looks at
LookedAt(buffer, size) ==
    IF buffer[1].kind = "base64" THEN SubSeq(Decode64(buffer, size), 1, size) ELSE buffer

LEMMA ParseIs ==
    ASSUME NEW buffer, NEW size, NEW data, data = LookedAt(buffer, size)
    PROVE  Parse(buffer, size) = ParsedFrom(data, Index(data, " HTTP/"), Index(data, " /"),
                                            Index(data, "?"))
  BY Zenon DEF Parse, ParsedFrom, LookedAt

(* A request that ends in the buffer is parsed as if it were alone in it.   *)
LEMMA PlainAlone ==
    ASSUME NEW s, NEW t, Sequence(s), Sequence(t), NEW end, NEW slash, NEW mark,
           Index(s, end) # 0
    PROVE  ParsedFrom(s \o t, Index(s \o t, end), Index(s \o t, slash), Index(s \o t, mark))
             = ParsedFrom(s, Index(s, end), Index(s, slash), Index(s, mark))
  <1>1. PICK b, u, u1, m, m1, q, q1 :
           /\ b = s \o t
           /\ u = Index(s, end) /\ u1 = Index(b, end)
           /\ m = Index(s, slash) /\ m1 = Index(b, slash)
           /\ q = Index(s, mark) /\ q1 = Index(b, mark)
    OBVIOUS
  <1>2. PICK n \in Nat : n = Len(s)
    BY SequenceOK
  <1>3. u1 = u /\ u \in 1..n
    BY <1>1, <1>2, IndexAlone
  <1>4. \/ m1 = m /\ m \in 1..n
        \/ m = 0 /\ m1 = 0
        \/ m = 0 /\ m1 \in Nat /\ m1 > n
    BY <1>1, <1>2, IndexAlone
  <1>5. \/ q1 = q /\ q \in 1..n
        \/ q = 0 /\ q1 = 0
        \/ q = 0 /\ q1 \in Nat /\ q1 > n
    BY <1>1, <1>2, IndexAlone
  <1>6. ASSUME NEW i \in Nat, NEW j \in Nat, j <= n
        PROVE  SubSeq(b, i + 1, j - 1) = SubSeq(s, i + 1, j - 1)
    <2>1. i + 1 \in Nat \ {0} /\ j - 1 \in Int /\ j - 1 <= n
      BY <1>2, <1>6
    <2>2. QED
      BY <1>1, <1>2, <2>1, CutAlone
  <1>7. CASE m = 0
    <2>1. ParsedFrom(s, u, m, q) = InvalidParse
      BY <1>7 DEF ParsedFrom
    <2>2. m1 = 0 \/ u1 < m1
      BY <1>2, <1>3, <1>4, <1>7
    <2>3. ParsedFrom(b, u1, m1, q1) = InvalidParse
      BY <2>2 DEF ParsedFrom
    <2>4. QED
      BY <1>1, <2>1, <2>3
  <1>8. CASE m # 0 /\ u < m
    <2>1. ParsedFrom(s, u, m, q) = InvalidParse
      BY <1>8 DEF ParsedFrom
    <2>2. u1 < m1
      BY <1>2, <1>3, <1>4, <1>8
    <2>3. ParsedFrom(b, u1, m1, q1) = InvalidParse
      BY <2>2 DEF ParsedFrom
    <2>4. QED
      BY <1>1, <2>1, <2>3
  <1>9. CASE m # 0 /\ ~(u < m)
    <2>1. m1 = m /\ m \in 1..n
      BY <1>4, <1>9
    <2>2. PICK get, path : get = SubSeq(s, 0 + 1, m - 1) /\ path = SubSeq(s, m + 1, u - 1)
      OBVIOUS
    <2>3. get = SubSeq(b, 0 + 1, m - 1) /\ path = SubSeq(b, m + 1, u - 1)
      <3>1. 0 \in Nat /\ m \in Nat /\ u \in Nat /\ m <= n /\ u <= n
        BY <1>2, <1>3, <2>1
      <3>2. QED
        BY <1>6, <2>2, <3>1
    <2>4. CASE HasQuery(q, u)
      <3>1. q1 = q /\ q \in 1..n
        BY <1>2, <1>5, <2>4 DEF HasQuery
      <3>2. PICK query, way : query = SubSeq(s, q + 1, u - 1) /\ way = SubSeq(s, m + 1, q - 1)
        OBVIOUS
      <3>3. query = SubSeq(b, q + 1, u - 1) /\ way = SubSeq(b, m + 1, q - 1)
        <4>1. q \in Nat /\ m \in Nat /\ u \in Nat /\ q <= n /\ u <= n
          BY <1>2, <1>3, <2>1, <3>1
        <4>2. QED
          BY <1>6, <3>2, <4>1
      <3>4. PICK v : v = IF get # <<Tok("GET")>> THEN InvalidParse
                         ELSE IF q < m \/ ~Params[Pieces[query]].ok THEN InvalidParse
                         ELSE [ok |-> TRUE, path |-> way, params |-> Params[Pieces[query]].list]
        OBVIOUS
      <3>5. ParsedFrom(s, u, m, q) = v
        BY <1>9, <2>2, <2>4, <3>2, <3>4 DEF ParsedFrom
      <3>6. ParsedFrom(b, u, m, q) = v
        BY <1>9, <2>3, <2>4, <3>3, <3>4 DEF ParsedFrom
      <3>7. QED
        BY <1>1, <1>3, <2>1, <3>1, <3>5, <3>6
    <2>5. CASE ~HasQuery(q, u)
      <3>1. ~HasQuery(q1, u)
        BY <1>2, <1>3, <1>5, <2>5 DEF HasQuery
      <3>2. PICK v : v = IF get # <<Tok("GET")>> THEN InvalidParse
                         ELSE [ok |-> TRUE, path |-> path, params |-> <<>>]
        OBVIOUS
      <3>3. ParsedFrom(s, u, m, q) = v
        BY <1>9, <2>2, <2>5, <3>2 DEF ParsedFrom
      <3>4. ParsedFrom(b, u, m, q1) = v
        BY <1>9, <2>3, <3>1, <3>2 DEF ParsedFrom
      <3>5. QED
        BY <1>1, <1>3, <2>1, <3>3, <3>4
    <2>6. QED
      BY <2>4, <2>5
  <1>10. QED
    BY <1>7, <1>8, <1>9

(* base64 is decoded up to size, and nothing after it is looked at.         *)
LEMMA DecodedAlone ==
    ASSUME NEW s, NEW t, Sequence(s), Sequence(t), s # <<>>, s[1].kind = "base64"
    PROVE  LookedAt(s \o t, Len(s)) = LookedAt(s, Len(s))
  <1>1. PICK b : b = s \o t
    OBVIOUS
  <1>2. PICK n \in Nat : n = Len(s) /\ DOMAIN s = 1..n
    BY SequenceOK
  <1>3. n > 0
    BY <1>2, SequenceOK
  <1>4. PICK k \in Nat : Len(b) = n + k /\ DOMAIN b = 1..(n + k)
    BY <1>1, <1>2, SequenceOK, JoinedOK
  <1>5. \A i \in 1..n : b[i] = s[i]
    BY <1>1, <1>2, JoinedOK
  <1>6. b[1].kind = "base64"
    BY <1>3, <1>5
  <1>7. PICK d, e : d = Decode64(b, n) /\ e = Decode64(s, n)
    OBVIOUS
  <1>8. \A i \in 1..n : d[i] = s[i].of
    BY <1>3, <1>4, <1>5, <1>6, <1>7 DEF Decode64
  <1>9. \A i \in 1..n : e[i] = s[i].of
    BY <1>2, <1>7 DEF Decode64
  <1>10. SubSeq(d, 1, n) = [l \in 1..(n - 1 + 1) |-> d[1 + l - 1]]
    BY CutIs
  <1>11. SubSeq(e, 1, n) = [l \in 1..(n - 1 + 1) |-> e[1 + l - 1]]
    BY CutIs
  <1>12. \A l \in 1..(n - 1 + 1) : d[1 + l - 1] = e[1 + l - 1]
    BY <1>8, <1>9
  <1>13. SubSeq(d, 1, n) = SubSeq(e, 1, n)
    BY <1>10, <1>11, <1>12
  <1>14. QED
    BY <1>1, <1>2, <1>6, <1>7, <1>13 DEF LookedAt

(* Whatever the buffer still holds of earlier requests, one that came whole *)
(* is parsed as if the buffer had nothing else.                             *)
LEMMA ParseAlone ==
    ASSUME NEW s, NEW t, Sequence(s), Sequence(t), s # <<>>,
           SaysWhereItEnds(s)
    PROVE  Parse(s \o t, Len(s)) = Parse(s, Len(s))
  <1>1. PICK n \in Nat : n = Len(s) /\ DOMAIN s = 1..n
    BY SequenceOK
  <1>2. PICK b : b = s \o t
    OBVIOUS
  <1>3. b[1] = s[1]
    <2>1. n > 0
      BY <1>1, SequenceOK
    <2>2. \A i \in 1..n : b[i] = s[i]
      BY <1>1, <1>2, JoinedOK
    <2>3. QED
      BY <1>1, <2>1, <2>2
  <1>4. CASE s[1].kind = "base64"
    <2>1. LookedAt(b, n) = LookedAt(s, n)
      BY <1>1, <1>2, <1>4, DecodedAlone
    <2>2. QED
      BY <1>1, <1>2, <2>1, ParseIs, Zenon
  <1>5. CASE s[1].kind # "base64"
    <2>1. LookedAt(b, n) = b /\ LookedAt(s, n) = s
      BY <1>3, <1>5 DEF LookedAt
    <2>2. PICK end, slash, mark : end = " HTTP/" /\ slash = " /" /\ mark = "?"
      BY Zenon
    <2>3. \E i \in DOMAIN s : s[i].kind = end
      BY <1>5, <2>2, Zenon DEF SaysWhereItEnds
    <2>4. Index(s, end) # 0
      <3>1. Index(s, end) = 0 => \A j \in 1..n : s[j].kind # end
        BY <1>1, IndexOK
      <3>2. QED
        BY <1>1, <2>3, <3>1
    <2>5. ParsedFrom(b, Index(b, end), Index(b, slash), Index(b, mark))
             = ParsedFrom(s, Index(s, end), Index(s, slash), Index(s, mark))
      BY <1>2, <2>4, PlainAlone
    <2>6. Parse(b, n) = ParsedFrom(b, Index(b, end), Index(b, slash), Index(b, mark))
      BY <2>1, <2>2, ParseIs, Zenon
    <2>7. Parse(s, n) = ParsedFrom(s, Index(s, end), Index(s, slash), Index(s, mark))
      BY <2>1, <2>2, ParseIs, Zenon
    <2>8. QED
      BY <1>1, <1>2, <2>5, <2>6, <2>7
  <1>6. QED
    BY <1>4, <1>5

-----------------------------------------------------------------------------
(* Recursive functions                                                     *)

(* f takes the step G everywhere, or where the measure m is less than n     *)
Follows(D, m, G, n, f) == \A x \in D : m[x] < n => f[x] = G[x][f]

\* The step at x looks only at what is less than x
Local(D, V, m, G) ==
    /\ m \in [D -> Nat]
    /\ \A x \in D : \A g \in [D -> V] : G[x][g] \in V
    /\ \A x \in D : \A g, h \in [D -> V] :
          (\A y \in D : m[y] < m[x] => g[y] = h[y]) => G[x][g] = G[x][h]

(* Two functions that take the step agree.                                  *)
LEMMA FollowersAgree ==
    ASSUME NEW D, NEW V, NEW m, NEW G, Local(D, V, m, G), NEW n \in Nat, NEW k \in Nat,
           NEW g \in [D -> V], NEW h \in [D -> V],
           Follows(D, m, G, n, g), Follows(D, m, G, k, h)
    PROVE  \A x \in D : m[x] < n /\ m[x] < k => g[x] = h[x]
  <1> DEFINE Bad == {i \in Nat : \E x \in D : m[x] = i /\ i < n /\ i < k /\ g[x] # h[x]}
  <1>1. SUFFICES ASSUME NEW x0 \in D, m[x0] < n, m[x0] < k, g[x0] # h[x0] PROVE FALSE
    OBVIOUS
  <1>2. m[x0] \in Nat
    BY DEF Local
  <1>3. Bad \in SUBSET Nat /\ Bad # {}
    BY <1>1, <1>2
  <1>4. PICK i \in Bad : \A j \in Bad : i <= j
    BY <1>3, LeastElement
  <1>5. PICK x \in D : m[x] = i /\ i < n /\ i < k /\ g[x] # h[x]
    BY <1>4
  <1>6. ASSUME NEW y \in D, m[y] < m[x] PROVE g[y] = h[y]
    <2>1. m[y] \in Nat /\ m[x] \in Nat /\ m[y] < n /\ m[y] < k
      BY <1>5, <1>6 DEF Local
    <2>2. m[y] \notin Bad
      <3> HIDE DEF Bad
      <3>1. QED
        BY <1>4, <1>5, <1>6, <2>1, <1>3
    <2>3. QED
      BY <2>1, <2>2
  <1>7. G[x][g] = G[x][h]
    BY <1>6 DEF Local
  <1>8. g[x] = G[x][g] /\ h[x] = G[x][h]
    BY <1>5 DEF Follows
  <1>9. QED
    BY <1>5, <1>7, <1>8

(* One takes the step up to any measure.                                    *)
LEMMA FollowerUpTo ==
    ASSUME NEW D, NEW V, NEW v \in V, NEW m, NEW G, Local(D, V, m, G)
    PROVE  \A n \in Nat : \E g \in [D -> V] : Follows(D, m, G, n, g)
  <1> DEFINE Good(n) == \E g \in [D -> V] : Follows(D, m, G, n, g)
             Bad == {n \in Nat : ~Good(n)}
  <1>1. Good(0)
    <2>1. [x \in D |-> v] \in [D -> V]
      OBVIOUS
    <2>2. Follows(D, m, G, 0, [x \in D |-> v])
      <3>1. \A x \in D : m[x] \in Nat
        BY DEF Local
      <3>2. QED
        BY <3>1 DEF Follows
    <2>3. QED
      BY <2>1, <2>2
  <1>2. ASSUME NEW n \in Nat, Good(n) PROVE Good(n + 1)
    <2>1. PICK g \in [D -> V] : Follows(D, m, G, n, g)
      BY <1>2
    <2>2. PICK h : h = [x \in D |-> G[x][g]]
      OBVIOUS
    <2>3. h \in [D -> V]
      BY <2>2 DEF Local
    <2>4. ASSUME NEW x \in D, m[x] < n + 1 PROVE h[x] = G[x][h]
      <3>1. m[x] \in Nat
        BY DEF Local
      <3>2. ASSUME NEW y \in D, m[y] < m[x] PROVE g[y] = h[y]
        <4>1. m[y] \in Nat
          BY DEF Local
        <4>2. m[y] < n
          BY <2>4, <3>1, <3>2, <4>1
        <4>3. QED
          BY <2>1, <2>2, <4>2 DEF Follows
      <3>3. G[x][g] = G[x][h]
        BY <2>3, <3>2 DEF Local
      <3>4. QED
        BY <2>2, <3>3
    <2>5. Follows(D, m, G, n + 1, h)
      BY <2>4 DEF Follows
    <2>6. QED
      BY <2>3, <2>5
  <1> HIDE DEF Good
  <1>3. Bad = {}
    <2>1. SUFFICES ASSUME Bad # {} PROVE FALSE
      OBVIOUS
    <2>2. PICK n \in Bad : \A k \in Bad : n <= k
      BY <2>1, LeastElement
    <2>3. n \in Nat /\ ~Good(n) /\ n # 0
      BY <1>1, <2>2
    <2>4. n - 1 \in Nat /\ (n - 1) + 1 = n
      BY <2>3
    <2>5. Good(n - 1)
      BY <2>2, <2>4
    <2>6. QED
      BY <1>2, <2>3, <2>4, <2>5
  <1>4. \A n \in Nat : Good(n)
    BY <1>3
  <1>5. QED
    BY <1>4 DEF Good

(* A function that is defined by a step to smaller arguments exists.        *)
LEMMA RecursionExists ==
    ASSUME NEW D, NEW V, NEW v \in V, NEW m, NEW G, Local(D, V, m, G)
    PROVE  \E f \in [D -> V] : \A x \in D : f[x] = G[x][f]
  <1> DEFINE Upto(n) == CHOOSE g \in [D -> V] : Follows(D, m, G, n, g)
             f == [x \in D |-> Upto(m[x] + 1)[x]]
  <1>1. \A n \in Nat : Upto(n) \in [D -> V] /\ Follows(D, m, G, n, Upto(n))
    BY FollowerUpTo
  <1>2. \A x \in D : m[x] \in Nat /\ m[x] + 1 \in Nat /\ m[x] < m[x] + 1
    BY DEF Local
  <1> HIDE DEF Upto
  <1>3. f \in [D -> V]
    BY <1>1, <1>2
  <1>4. ASSUME NEW x \in D PROVE f[x] = G[x][f]
    <2>1. PICK n \in Nat : n = m[x] + 1
      BY <1>2
    <2>2. PICK g \in [D -> V] : g = Upto(n) /\ Follows(D, m, G, n, g)
      BY <1>1
    <2>3. ASSUME NEW y \in D, m[y] < m[x] PROVE g[y] = f[y]
      <3>1. PICK k \in Nat : k = m[y] + 1
        BY <1>2
      <3>2. PICK h \in [D -> V] : h = Upto(k) /\ Follows(D, m, G, k, h)
        BY <1>1
      <3>3. m[y] < n /\ m[y] < k
        BY <1>2, <2>1, <2>3, <3>1
      <3>4. g[y] = h[y]
        BY <2>2, <3>2, <3>3, FollowersAgree
      <3>5. f[y] = h[y]
        BY <3>1, <3>2
      <3>6. QED
        BY <3>4, <3>5
    <2> HIDE DEF f
    <2>4. G[x][g] = G[x][f]
      BY <1>3, <2>3 DEF Local
    <2>5. f[x] = g[x]
      BY <2>1, <2>2 DEF f
    <2>6. g[x] = G[x][g]
      BY <1>2, <2>1, <2>2 DEF Follows
    <2>7. QED
      BY <2>4, <2>5, <2>6
  <1> HIDE DEF f
  <1>5. QED
    BY <1>3, <1>4

-----------------------------------------------------------------------------
(* The loop of unescapeFast                                                *)

Runs == Seq(Byte) \X Nat \X Nat

Shifted(bs, i) ==
    [x \in DOMAIN bs |->
        IF x = i THEN 16 * FromHexChar(bs[i + 1]) + FromHexChar(bs[i + 2])
        ELSE IF x > i /\ x <= Len(bs) - 2 THEN bs[x + 2]
        ELSE bs[x]]

UnescapeAt(f, bs, l, i) ==
    IF i > l THEN [val |-> SubSeq(bs, 1, l), ok |-> TRUE]
    ELSE IF bs[i] # Percent THEN f[<<bs, l, i + 1>>]
    ELSE IF i + 2 > l THEN [val |-> <<>>, ok |-> FALSE]
    ELSE f[<<Shifted(bs, i), l - 2, i + 1>>]

Left == [s \in Runs |-> IF s[3] > s[2] THEN 0 ELSE s[2] + 1 - s[3]]
Ends == [val : {SubSeq(s[1], 1, s[2]) : s \in Runs} \cup {<<>>}, ok : BOOLEAN]

(* fromHexChar gives a digit.                                              *)
LEMMA HexOK == \A c : FromHexChar(c) \in 0..15
  BY DEF FromHexChar

(* The copy in unescapeFast keeps the length of its slice.                 *)
LEMMA ShiftedOK ==
    ASSUME NEW bs \in Seq(Byte), NEW i \in Nat
    PROVE  Shifted(bs, i) \in Seq(Byte) /\ Len(Shifted(bs, i)) = Len(bs)
  <1>1. PICK n \in Nat : n = Len(bs) /\ DOMAIN bs = 1..n /\ \A x \in 1..n : bs[x] \in Byte
    BY LenProperties, ElementOfSeq
  <1>2. PICK h : h = 16 * FromHexChar(bs[i + 1]) + FromHexChar(bs[i + 2])
    OBVIOUS
  <1>3. h \in Byte
    <2>1. PICK a, b \in 0..15 : a = FromHexChar(bs[i + 1]) /\ b = FromHexChar(bs[i + 2])
      BY HexOK
    <2>2. h = 16 * a + b
      BY <1>2, <2>1
    <2>3. QED
      BY <2>2 DEF Byte
  <1>4. ASSUME NEW x \in 1..n
        PROVE  (IF x = i THEN h ELSE IF x > i /\ x <= n - 2 THEN bs[x + 2] ELSE bs[x]) \in Byte
    <2>1. x > i /\ x <= n - 2 => x + 2 \in 1..n
      BY <1>1, <1>4
    <2>2. QED
      BY <1>1, <1>3, <2>1
  <1>5. PICK q : q = [x \in 1..n |-> IF x = i THEN h ELSE IF x > i /\ x <= n - 2
                                    THEN bs[x + 2] ELSE bs[x]]
    OBVIOUS
  <1>6. Shifted(bs, i) = q
    BY <1>1, <1>2, <1>5 DEF Shifted
  <1>7. q = [x \in 1..n |-> q[x]] /\ \A x \in 1..n : q[x] \in Byte
    BY <1>4, <1>5
  <1>8. q \in Seq(Byte) /\ Len(q) = n
    <2>1. q \in [1..n -> Byte]
      BY <1>7
    <2>2. q \in Seq(Byte)
      BY <2>1, SeqDef
    <2>3. QED
      BY <2>1, <2>2
  <1>9. QED
    BY <1>1, <1>6, <1>8

(* unescapeFast comes to an end from every place: each turn leaves less.   *)
LEMMA UnescapeExists ==
    \E f \in [Runs -> Ends] : \A s \in Runs : f[s] = UnescapeAt(f, s[1], s[2], s[3])
  <1> DEFINE G == [s \in Runs |-> [f \in [Runs -> Ends] |-> UnescapeAt(f, s[1], s[2], s[3])]]
  <1>1. Left \in [Runs -> Nat]
    BY DEF Left, Runs
  <1>2. ASSUME NEW bs \in Seq(Byte), NEW l \in Nat, NEW i \in Nat
        PROVE  LET s == <<bs, l, i>>
               IN  /\ \A f \in [Runs -> Ends] : UnescapeAt(f, bs, l, i) \in Ends
                   /\ \A f, g \in [Runs -> Ends] :
                         (\A r \in Runs : Left[r] < Left[s] => f[r] = g[r]) =>
                             UnescapeAt(f, bs, l, i) = UnescapeAt(g, bs, l, i)
    <2> DEFINE s == <<bs, l, i>>
               on == <<bs, l, i + 1>>
               past == <<Shifted(bs, i), l - 2, i + 1>>
    <2>1. s \in Runs /\ on \in Runs
      BY DEF Runs
    <2>2. i <= l => Left[on] < Left[s]
      BY <2>1 DEF Left
    <2>3. i + 2 <= l => past \in Runs /\ Left[past] < Left[s]
      <3>1. i + 2 <= l => past \in Runs
        <4>1. i + 2 <= l => l - 2 \in Nat
          OBVIOUS
        <4>2. Shifted(bs, i) \in Seq(Byte)
          BY ShiftedOK
        <4>3. QED
          BY <4>1, <4>2 DEF Runs
      <3>2. QED
        BY <2>1, <3>1 DEF Left
    <2>4. SubSeq(bs, 1, l) \in {SubSeq(t[1], 1, t[2]) : t \in Runs}
      BY <2>1
    <2>5. [val |-> SubSeq(bs, 1, l), ok |-> TRUE] \in Ends /\ [val |-> <<>>, ok |-> FALSE] \in Ends
      BY <2>4 DEF Ends
    <2>6. PICK u, v : u \in Ends /\ v \in Ends /\ u = [val |-> SubSeq(bs, 1, l), ok |-> TRUE] /\ v = [val |-> <<>>, ok |-> FALSE]
      BY <2>5
    <2>7. \A f : UnescapeAt(f, bs, l, i) = IF i > l THEN u
                 ELSE IF bs[i] # Percent THEN f[on]
                 ELSE IF i + 2 > l THEN v ELSE f[past]
      BY <2>6 DEF UnescapeAt
    <2> HIDE DEF s, on, past
    <2>8. ASSUME NEW f \in [Runs -> Ends] PROVE UnescapeAt(f, bs, l, i) \in Ends
      <3>1. f[on] \in Ends /\ (i + 2 <= l => f[past] \in Ends)
        BY <2>1, <2>3
      <3>2. UnescapeAt(f, bs, l, i) \in {u, v, f[on], f[past]}
        BY <2>7
      <3>3. i + 2 > l => UnescapeAt(f, bs, l, i) \in {u, v, f[on]}
        BY <2>7
      <3>4. u \in Ends /\ v \in Ends
        BY <2>6
      <3>5. i + 2 <= l \/ i + 2 > l
        OBVIOUS
      <3>6. QED
        BY <3>1, <3>2, <3>3, <3>4, <3>5, Zenon
    <2>9. ASSUME NEW f \in [Runs -> Ends], NEW g \in [Runs -> Ends],
                 \A r \in Runs : Left[r] < Left[s] => f[r] = g[r]
          PROVE  UnescapeAt(f, bs, l, i) = UnescapeAt(g, bs, l, i)
      <3>1. i <= l => f[on] = g[on]
        BY <2>1, <2>2, <2>9
      <3>2. i + 2 <= l => f[past] = g[past]
        BY <2>3, <2>9
      <3>3. QED
        BY <2>7, <3>1, <3>2
    <2>10. QED
      BY <2>8, <2>9 DEF s
  <1>3. Local(Runs, Ends, Left, G)
    <2>1. ASSUME NEW s \in Runs
          PROVE  /\ \A f \in [Runs -> Ends] : G[s][f] \in Ends
                 /\ \A f, g \in [Runs -> Ends] :
                       (\A r \in Runs : Left[r] < Left[s] => f[r] = g[r]) => G[s][f] = G[s][g]
      <3>1. PICK bs \in Seq(Byte), l \in Nat, i \in Nat : s = <<bs, l, i>>
        BY DEF Runs
      <3>2. s[1] = bs /\ s[2] = l /\ s[3] = i
        BY <3>1
      <3>3. QED
        BY <1>2, <3>1, <3>2
    <2>2. QED
      BY <1>1, <2>1 DEF Local
  <1>4. PICK v : v \in Ends
    <2>1. [val |-> <<>>, ok |-> FALSE] \in Ends
      BY DEF Ends
    <2>2. QED
      BY <2>1
  <1>5. PICK f \in [Runs -> Ends] : \A s \in Runs : f[s] = G[s][f]
    <2> HIDE DEF G
    <2>1. QED
      BY <1>3, <1>4, RecursionExists
  <1>6. QED
    BY <1>5

(* One turn of unescapeFast.                                               *)
LEMMA UnescapeIs ==
    ASSUME NEW bs \in Seq(Byte), NEW l \in Nat, NEW i \in Nat
    PROVE  Unescape[<<bs, l, i>>] = UnescapeAt(Unescape, bs, l, i)
  <1> DEFINE R(g) == g = [s \in Runs |-> UnescapeAt(g, s[1], s[2], s[3])]
  <1>1. Unescape = CHOOSE g : R(g)
    BY DEF Unescape, UnescapeAt, Runs, Shifted
  <1>2. PICK f \in [Runs -> Ends] : \A s \in Runs : f[s] = UnescapeAt(f, s[1], s[2], s[3])
    BY UnescapeExists
  <1>3. R(f)
    BY <1>2
  <1> HIDE DEF R
  <1>4. R(Unescape)
    BY <1>1, <1>3
  <1>5. <<bs, l, i>> \in Runs
    BY DEF Runs
  <1>6. QED
    BY <1>4, <1>5 DEF R

DecodedAt(f, val) ==
    IF val = <<>> THEN <<>>
    ELSE IF Head(val) # Percent THEN <<Head(val)>> \o f[Tail(val)]
    ELSE <<16 * FromHexChar(val[2]) + FromHexChar(val[3])>> \o f[SubSeq(val, 4, Len(val))]

WellEscapedAt(f, val) ==
    \/ val = <<>>
    \/ Head(val) # Percent /\ f[Tail(val)]
    \/ Head(val) = Percent /\ Len(val) >= 3 /\ f[SubSeq(val, 4, Len(val))]

Lengths == [val \in Seq(Byte) |-> Len(val)]

(* Two digits make a byte.                                                 *)
LEMMA ByteOf == ASSUME NEW c, NEW d PROVE 16 * FromHexChar(c) + FromHexChar(d) \in Byte
  <1>1. PICK a, b \in 0..15 : a = FromHexChar(c) /\ b = FromHexChar(d)
    BY HexOK
  <1>2. QED
    BY <1>1 DEF Byte

(* What is left of a value after one byte, or after an escape.             *)
LEMMA Shorter ==
    ASSUME NEW val \in Seq(Byte), val # <<>>
    PROVE  /\ Head(val) \in Byte
           /\ Tail(val) \in Seq(Byte) /\ Len(Tail(val)) < Len(val)
           /\ SubSeq(val, 4, Len(val)) \in Seq(Byte) /\ Len(SubSeq(val, 4, Len(val))) < Len(val)
  <1>1. Len(val) \in Nat \ {0}
    BY EmptySeq
  <1>2. Head(val) \in Byte /\ Tail(val) \in Seq(Byte) /\ Len(Tail(val)) = Len(val) - 1
    BY HeadTailProperties
  <1>3. \A i \in 4..Len(val) : val[i] \in Byte
    BY <1>1, ElementOfSeq
  <1>4. PICK n \in Nat : n = Len(val)
    BY <1>1
  <1>5. CASE 4 <= n
    <2>1. SubSeq(val, 4, n) \in Seq(Byte) /\ Len(SubSeq(val, 4, n)) = n - 3
      BY <1>3, <1>4, <1>5, SubSeqProperties
    <2>2. QED
      BY <1>1, <1>2, <1>4, <2>1
  <1>6. CASE n < 4
    <2>1. SubSeq(val, 4, n) = <<>>
      BY <1>4, <1>6, SubSeqEmpty
    <2>2. <<>> \in Seq(Byte) /\ Len(<<>>) = 0
      BY EmptySeq
    <2>3. QED
      BY <1>1, <1>2, <1>4, <2>1, <2>2
  <1>7. QED
    BY <1>4, <1>5, <1>6

(* Decoded takes one byte, or one escape, and goes on.                     *)
LEMMA DecodedIs ==
    ASSUME NEW val \in Seq(Byte)
    PROVE  Decoded[val] = DecodedAt(Decoded, val) /\ Decoded[val] \in Seq(Byte)
  <1> DEFINE V == Seq(Byte)
             G == [x \in V |-> [f \in [V -> V] |-> DecodedAt(f, x)]]
             R(g) == g = [x \in V |-> DecodedAt(g, x)]
  <1>1. Decoded = CHOOSE g : R(g)
    BY DEF Decoded, DecodedAt
  <1>2. ASSUME NEW x \in V, NEW f, \A y \in V : Lengths[y] < Lengths[x] => f[y] \in V
        PROVE  DecodedAt(f, x) \in V
    <2>1. CASE x = <<>>
      BY <2>1 DEF DecodedAt
    <2>2. CASE x # <<>>
      <3>1. /\ Head(x) \in Byte /\ f[Tail(x)] \in Seq(Byte)
            /\ f[SubSeq(x, 4, Len(x))] \in Seq(Byte)
        BY <1>2, <2>2, Shorter DEF Lengths
      <3>2. PICK b : b \in Byte /\ b = 16 * FromHexChar(x[2]) + FromHexChar(x[3])
        BY ByteOf
      <3>3. <<Head(x)>> \in Seq(Byte) /\ <<b>> \in Seq(Byte)
        BY <3>1, <3>2
      <3>4. <<Head(x)>> \o f[Tail(x)] \in V /\ <<b>> \o f[SubSeq(x, 4, Len(x))] \in V
        BY <3>1, <3>3, ConcatProperties
      <3>5. QED
        BY <2>2, <3>2, <3>4 DEF DecodedAt
    <2>3. QED
      BY <2>1, <2>2
  <1>3. ASSUME NEW x \in V, NEW f \in [V -> V], NEW g \in [V -> V],
               \A y \in V : Lengths[y] < Lengths[x] => f[y] = g[y]
        PROVE  DecodedAt(f, x) = DecodedAt(g, x)
    <2>1. CASE x = <<>>
      BY <2>1 DEF DecodedAt
    <2>2. CASE x # <<>>
      <3>1. f[Tail(x)] = g[Tail(x)] /\ f[SubSeq(x, 4, Len(x))] = g[SubSeq(x, 4, Len(x))]
        BY <1>3, <2>2, Shorter DEF Lengths
      <3>2. QED
        BY <2>2, <3>1 DEF DecodedAt
    <2>3. QED
      BY <2>1, <2>2
  <1>4. Lengths \in [V -> Nat]
    BY LenProperties DEF Lengths
  <1>5. Local(V, V, Lengths, G)
    BY <1>2, <1>3, <1>4 DEF Local
  <1>6. <<>> \in V
    OBVIOUS
  <1>7. PICK f \in [V -> V] : \A x \in V : f[x] = G[x][f]
    <2> HIDE DEF G, V
    <2>1. QED
      BY <1>5, <1>6, RecursionExists
  <1>8. R(f)
    BY <1>7
  <1>9. R(Decoded)
    <2> HIDE DEF R
    <2>1. QED
      BY <1>1, <1>8
  <1>10. QED
    <2> DEFINE Bad == {k \in Nat : \E x \in V : Lengths[x] = k /\ Decoded[x] \notin V}
    <2>1. \A x \in V : Decoded[x] = DecodedAt(Decoded, x)
      BY <1>9
    <2>2. \A x \in V : Lengths[x] \in Nat
      BY <1>4
    <2>3. Bad = {}
      <3>1. SUFFICES ASSUME Bad # {} PROVE FALSE
        OBVIOUS
      <3>2. PICK k \in Bad : \A j \in Bad : k <= j
        <4> HIDE DEF V
        <4>1. QED
          BY <3>1, LeastElement
      <3>3. PICK x \in V : Lengths[x] = k /\ Decoded[x] \notin V
        BY <3>2
      <3>4. ASSUME NEW y \in V, Lengths[y] < Lengths[x] PROVE Decoded[y] \in V
        <4>1. Lengths[y] \notin Bad
          <5> HIDE DEF Bad
          <5>1. k \in Nat
            BY <2>2, <3>3
          <5>2. QED
            BY <2>2, <3>2, <3>3, <3>4, <5>1
        <4>2. QED
          BY <2>2, <4>1
      <3>5. QED
        BY <1>2, <2>1, <3>3, <3>4
    <2>4. QED
      BY <2>1, <2>2, <2>3

(* WellEscaped takes one byte, or one escape, and goes on.                 *)
LEMMA WellEscapedIs ==
    ASSUME NEW val \in Seq(Byte)
    PROVE  WellEscaped[val] = WellEscapedAt(WellEscaped, val)
  <1> DEFINE V == Seq(Byte)
             W == BOOLEAN
             G == [x \in V |-> [f \in [V -> W] |-> WellEscapedAt(f, x)]]
             R(g) == g = [x \in V |-> WellEscapedAt(g, x)]
  <1>1. WellEscaped = CHOOSE g : R(g)
    BY DEF WellEscaped, WellEscapedAt
  <1>2. ASSUME NEW x \in V, NEW f PROVE WellEscapedAt(f, x) \in BOOLEAN
    BY DEF WellEscapedAt
  <1>3. ASSUME NEW x \in V, NEW f \in [V -> W], NEW g \in [V -> W],
               \A y \in V : Lengths[y] < Lengths[x] => f[y] = g[y]
        PROVE  WellEscapedAt(f, x) = WellEscapedAt(g, x)
    <2>1. CASE x = <<>>
      BY <2>1 DEF WellEscapedAt
    <2>2. CASE x # <<>>
      <3>1. f[Tail(x)] = g[Tail(x)] /\ f[SubSeq(x, 4, Len(x))] = g[SubSeq(x, 4, Len(x))]
        BY <1>3, <2>2, Shorter DEF Lengths
      <3>2. PICK tail, rest : tail = Tail(x) /\ rest = SubSeq(x, 4, Len(x))
        OBVIOUS
      <3>3. f[tail] = g[tail] /\ f[rest] = g[rest]
        BY <3>1, <3>2
      <3>4. \A h : WellEscapedAt(h, x) = \/ x = <<>>
                                         \/ Head(x) # Percent /\ h[tail]
                                         \/ Head(x) = Percent /\ Len(x) >= 3 /\ h[rest]
        BY <3>2, Zenon DEF WellEscapedAt
      <3>5. QED
        BY <3>3, <3>4, Zenon
    <2>3. QED
      BY <2>1, <2>2
  <1>4. Lengths \in [V -> Nat]
    BY LenProperties DEF Lengths
  <1>5. Local(V, W, Lengths, G)
    BY <1>2, <1>3, <1>4 DEF Local
  <1>6. PICK v : v \in W
    OBVIOUS
  <1>7. PICK f \in [V -> W] : \A x \in V : f[x] = G[x][f]
    <2> HIDE DEF G, V, W
    <2>1. QED
      BY <1>5, <1>6, RecursionExists
  <1>8. R(f)
    BY <1>7
  <1>9. R(WellEscaped)
    <2> HIDE DEF R
    <2>1. QED
      BY <1>1, <1>8
  <1>10. QED
    BY <1>9

(* A slice of bytes.                                                       *)
LEMMA CutBytes ==
    ASSUME NEW bs \in Seq(Byte), NEW l \in 0..Len(bs), NEW i \in Nat \ {0}
    PROVE  /\ SubSeq(bs, i, l) \in Seq(Byte)
           /\ Len(SubSeq(bs, i, l)) = IF i <= l THEN l - i + 1 ELSE 0
           /\ \A x \in 1..l - i + 1 : SubSeq(bs, i, l)[x] = bs[i + x - 1]
  <1>1. Len(bs) \in Nat
    OBVIOUS
  <1>2. \A x \in i..l : bs[x] \in Byte
    BY <1>1, ElementOfSeq
  <1>3. i \in Int /\ l \in Int
    BY <1>1
  <1>4. QED
    BY <1>2, <1>3, SubSeqProperties

(* What is left at place i                                                  *)
Resting(bs, l, i, rest) ==
    /\ rest \in Seq(Byte) /\ rest # <<>> /\ Len(rest) = l - i + 1
    /\ Head(rest) = bs[i] /\ Tail(rest) = SubSeq(bs, i + 1, l)
    /\ i + 2 <= l => /\ rest[2] = bs[i + 1] /\ rest[3] = bs[i + 2]
                     /\ SubSeq(rest, 4, Len(rest)) = SubSeq(bs, i + 3, l)

(* What is left at a place that is not the end.                             *)
LEMMA RestIs ==
    ASSUME NEW bs \in Seq(Byte), NEW l \in 0..Len(bs), NEW i \in 1..l, NEW rest,
           rest = SubSeq(bs, i, l)
    PROVE  Resting(bs, l, i, rest)
  <1>1. PICK n \in Nat : n = Len(bs)
    OBVIOUS
  <1>2. l \in Nat /\ i \in Nat \ {0} /\ i <= l /\ l <= n /\ i \in 1..n /\ l \in i..n
    BY <1>1
  <1>3. /\ rest \in Seq(Byte) /\ Len(rest) = l - i + 1
        /\ \A x \in 1..l - i + 1 : rest[x] = bs[i + x - 1]
    BY <1>2, CutBytes
  <1>4. rest # <<>>
    <2>1. Len(rest) # 0
      BY <1>2, <1>3
    <2>2. QED
      BY <2>1, EmptySeq
  <1>5. Head(rest) = bs[i] /\ Tail(rest) = SubSeq(bs, i + 1, l)
    BY <1>1, <1>2, HeadTailOfSubSeq
  <1>6. ASSUME i + 2 <= l
        PROVE  /\ rest[2] = bs[i + 1] /\ rest[3] = bs[i + 2]
               /\ SubSeq(rest, 4, Len(rest)) = SubSeq(bs, i + 3, l)
    <2>1. 2 \in 1..l - i + 1 /\ 3 \in 1..l - i + 1
      BY <1>2, <1>6
    <2>2. rest[2] = bs[i + 1] /\ rest[3] = bs[i + 2]
      <3>1. rest[2] = bs[i + 2 - 1] /\ rest[3] = bs[i + 3 - 1]
        BY <1>3, <2>1
      <3>2. i + 2 - 1 = i + 1 /\ i + 3 - 1 = i + 2
        BY <1>2
      <3>3. QED
        BY <3>1, <3>2
    <2>3. CASE i + 2 = l
      <3>1. Len(rest) = 3
        BY <1>2, <1>3, <2>3
      <3>2. SubSeq(rest, 4, 3) = <<>>
        BY SubSeqEmpty
      <3>3. SubSeq(bs, i + 3, l) = <<>>
        BY <1>2, <2>3, SubSeqEmpty
      <3>4. QED
        BY <2>2, <3>1, <3>2, <3>3
    <2>4. CASE i + 2 < l
      <3>1. PICK k \in Nat : k = l - i + 1
        BY <1>2
      <3>2. 4 \in 1..k /\ k \in 1..k /\ i \in 1..n /\ l \in 1..n
        BY <1>2, <2>4, <3>1
      <3>3. SubSeq(SubSeq(bs, i, l), 4, k) = SubSeq(bs, i + 4 - 1, i + k - 1)
        BY <1>1, <3>1, <3>2, SubSeqOfSubSeq
      <3>4. i + 4 - 1 = i + 3 /\ i + k - 1 = l
        BY <1>2, <3>1
      <3>5. QED
        BY <1>3, <2>2, <3>1, <3>3, <3>4
    <2>5. QED
      BY <1>2, <1>6, <2>3, <2>4
  <1>7. QED
    BY <1>3, <1>4, <1>5, <1>6 DEF Resting

(* What an escape leaves: its byte, and what follows two places to the left *)
LEMMA ShiftedIs ==
    ASSUME NEW bs \in Seq(Byte), NEW l \in 0..Len(bs), NEW i \in 1..l, i + 2 <= l,
           NEW c, c = 16 * FromHexChar(bs[i + 1]) + FromHexChar(bs[i + 2])
    PROVE  /\ SubSeq(Shifted(bs, i), 1, i) = SubSeq(bs, 1, i - 1) \o <<c>>
           /\ SubSeq(Shifted(bs, i), i + 1, l - 2) = SubSeq(bs, i + 3, l)
  <1>1. PICK n \in Nat : n = Len(bs)
    OBVIOUS
  <1>2. PICK sh : sh = Shifted(bs, i)
    OBVIOUS
  <1>3. l \in Nat /\ i \in Nat \ {0} /\ i <= l /\ l <= n
    BY <1>1
  <1>4. sh \in Seq(Byte) /\ Len(sh) = n /\ c \in Byte
    BY <1>1, <1>2, <1>3, ShiftedOK, ByteOf
  <1>5. DOMAIN bs = 1..n
    BY <1>1
  <1>6. /\ sh[i] = c
        /\ \A x \in 1..i - 1 : sh[x] = bs[x]
        /\ \A x \in i + 1..n - 2 : sh[x] = bs[x + 2]
    BY <1>1, <1>2, <1>3, <1>5 DEF Shifted
  <1>7. i - 1 \in 0..n /\ i \in 0..n /\ l - 2 \in 0..n /\ l \in 0..n /\ 1 \in Nat \ {0}
        /\ i + 1 \in Nat \ {0} /\ i + 3 \in Nat \ {0}
    BY <1>3
  <1>8. SubSeq(sh, 1, i) = SubSeq(bs, 1, i - 1) \o <<c>>
    <2>1. SubSeq(sh, 1, i) = SubSeq(sh, 1, i - 1) \o <<sh[i]>>
      <3>1. 1 \in 1..n /\ i \in 1..n
        BY <1>3
      <3>2. QED
        BY <1>3, <1>4, <3>1, SubSeqRecursiveSecond
    <2>2. PICK s, t : s = SubSeq(sh, 1, i - 1) /\ t = SubSeq(bs, 1, i - 1)
      OBVIOUS
    <2>3. PICK k \in Nat : k = i - 1
      BY <1>3
    <2>4. /\ s \in Seq(Byte) /\ t \in Seq(Byte) /\ Len(s) = k /\ Len(t) = k
          /\ \A x \in 1..k : s[x] = sh[x] /\ t[x] = bs[x]
      <3>1. /\ s \in Seq(Byte) /\ Len(s) = IF 1 <= k THEN k - 1 + 1 ELSE 0
            /\ \A x \in 1..k - 1 + 1 : s[x] = sh[1 + x - 1]
        BY <1>4, <1>7, <2>2, <2>3, CutBytes
      <3>2. /\ t \in Seq(Byte) /\ Len(t) = IF 1 <= k THEN k - 1 + 1 ELSE 0
            /\ \A x \in 1..k - 1 + 1 : t[x] = bs[1 + x - 1]
        BY <1>1, <1>7, <2>2, <2>3, CutBytes
      <3>3. \A x \in 1..k : x \in 1..k - 1 + 1 /\ 1 + x - 1 = x
        OBVIOUS
      <3>4. (IF 1 <= k THEN k - 1 + 1 ELSE 0) = k
        OBVIOUS
      <3>5. QED
        BY <3>1, <3>2, <3>3, <3>4
    <2>5. s = t
      <3>1. \A x \in 1..k : s[x] = t[x]
        BY <1>6, <2>3, <2>4
      <3>2. QED
        BY <2>4, <3>1, SeqEqual
    <2>6. QED
      BY <1>6, <2>1, <2>2, <2>5
  <1>9. SubSeq(sh, i + 1, l - 2) = SubSeq(bs, i + 3, l)
    <2>1. PICK s, t : s = SubSeq(sh, i + 1, l - 2) /\ t = SubSeq(bs, i + 3, l)
      OBVIOUS
    <2>2. PICK k \in Nat : k = l - i - 2
      BY <1>3
    <2>3. /\ s \in Seq(Byte) /\ Len(s) = k /\ \A x \in 1..k : s[x] = sh[i + x]
      <3>1. /\ s \in Seq(Byte)
            /\ Len(s) = IF i + 1 <= l - 2 THEN l - 2 - (i + 1) + 1 ELSE 0
            /\ \A x \in 1..l - 2 - (i + 1) + 1 : s[x] = sh[i + 1 + x - 1]
        BY <1>4, <1>7, <2>1, CutBytes
      <3>2. (IF i + 1 <= l - 2 THEN l - 2 - (i + 1) + 1 ELSE 0) = k /\ l - 2 - (i + 1) + 1 = k
        BY <1>3, <2>2
      <3>3. \A x \in 1..k : i + 1 + x - 1 = i + x
        BY <1>3
      <3>4. QED
        BY <3>1, <3>2, <3>3
    <2>4. /\ t \in Seq(Byte) /\ Len(t) = k /\ \A x \in 1..k : t[x] = bs[i + x + 2]
      <3>1. /\ t \in Seq(Byte)
            /\ Len(t) = IF i + 3 <= l THEN l - (i + 3) + 1 ELSE 0
            /\ \A x \in 1..l - (i + 3) + 1 : t[x] = bs[i + 3 + x - 1]
        BY <1>1, <1>7, <2>1, CutBytes
      <3>2. (IF i + 3 <= l THEN l - (i + 3) + 1 ELSE 0) = k /\ l - (i + 3) + 1 = k
        BY <1>3, <2>2
      <3>3. \A x \in 1..k : i + 3 + x - 1 = i + x + 2
        BY <1>3
      <3>4. QED
        BY <3>1, <3>2, <3>3
    <2>5. \A x \in 1..k : s[x] = t[x]
      <3>1. \A x \in 1..k : i + x \in i + 1..n - 2
        BY <1>3, <2>2
      <3>2. QED
        BY <1>6, <2>3, <2>4, <3>1
    <2>6. QED
      BY <2>1, <2>3, <2>4, <2>5, SeqEqual
  <1>10. QED
    BY <1>2, <1>8, <1>9

\* What the loop makes of the first l bytes of bs when it is at place i
Unescaping(bs, l, i) ==
    LET rest == SubSeq(bs, i, l)
    IN  IF WellEscaped[rest] THEN [val |-> SubSeq(bs, 1, i - 1) \o Decoded[rest], ok |-> TRUE]
        ELSE [val |-> <<>>, ok |-> FALSE]

Decodes(bs, l, i) == Unescape[<<bs, l, i>>] = Unescaping(bs, l, i)

(* Unescaping, when the halves have names.                                 *)
LEMMA UnescapingIs ==
    ASSUME NEW bs, NEW l, NEW i, NEW rest, rest = SubSeq(bs, i, l),
           NEW before, before = SubSeq(bs, 1, i - 1)
    PROVE  Unescaping(bs, l, i) =
               IF WellEscaped[rest] THEN [val |-> before \o Decoded[rest], ok |-> TRUE]
               ELSE [val |-> <<>>, ok |-> FALSE]
  BY DEF Unescaping

LEMMA JoinBytes ==
    ASSUME NEW q \in Seq(Byte), NEW r \in Seq(Byte), NEW s \in Seq(Byte)
    PROVE  (q \o r) \o s = q \o (r \o s)
  BY ConcatAssociative

(* At the end of the slice unescapeFast gives what is before it.           *)
LEMMA DecodesEnd ==
    ASSUME NEW bs \in Seq(Byte), NEW l \in 0..Len(bs)
    PROVE  Decodes(bs, l, l + 1)
  <1>1. PICK n \in Nat : n = Len(bs)
    OBVIOUS
  <1>2. l \in Nat /\ l <= n /\ l + 1 \in Nat /\ l + 1 > l /\ l + 1 - 1 = l
    BY <1>1
  <1>3. SubSeq(bs, l + 1, l) = <<>>
    BY <1>2, SubSeqEmpty
  <1>4. <<>> \in Seq(Byte)
    OBVIOUS
  <1>5. WellEscaped[<<>>]
    BY <1>4, WellEscapedIs DEF WellEscapedAt
  <1>6. Decoded[<<>>] = <<>>
    BY <1>4, DecodedIs DEF DecodedAt
  <1>7. SubSeq(bs, 1, l) \in Seq(Byte)
    BY <1>1, <1>2, CutBytes
  <1>8. SubSeq(bs, 1, l) \o <<>> = SubSeq(bs, 1, l)
    BY <1>7, ConcatEmptySeq
  <1>9. Unescape[<<bs, l, l + 1>>] = [val |-> SubSeq(bs, 1, l), ok |-> TRUE]
    BY <1>2, UnescapeIs DEF UnescapeAt
  <1>10. Unescaping(bs, l, l + 1) = [val |-> SubSeq(bs, 1, l), ok |-> TRUE]
    <2>1. PICK k, rest, before : k = l + 1 /\ rest = SubSeq(bs, k, l) /\ before = SubSeq(bs, 1, k - 1)
      OBVIOUS
    <2>2. k - 1 = l /\ rest = <<>> /\ before = SubSeq(bs, 1, l)
      BY <1>2, <1>3, <2>1
    <2>3. Unescaping(bs, l, k) =
              IF WellEscaped[rest] THEN [val |-> before \o Decoded[rest], ok |-> TRUE]
              ELSE [val |-> <<>>, ok |-> FALSE]
      BY <2>1, UnescapingIs
    <2>4. before \o Decoded[rest] = before /\ WellEscaped[rest]
      BY <1>5, <1>6, <1>8, <2>2
    <2>5. QED
      BY <2>1, <2>2, <2>3, <2>4
  <1>11. QED
    BY <1>9, <1>10 DEF Decodes

(* A turn of unescapeFast, before it what the turns after it make.         *)
LEMMA DecodesStep ==
    ASSUME NEW bs \in Seq(Byte), NEW l \in 0..Len(bs), NEW i \in 1..l,
           Decodes(bs, l, i + 1), i + 2 <= l => Decodes(Shifted(bs, i), l - 2, i + 1)
    PROVE  Decodes(bs, l, i)
  <1>1. PICK n \in Nat : n = Len(bs)
    OBVIOUS
  <1>2. l \in Nat /\ i \in Nat \ {0} /\ i <= l /\ l <= n /\ i - 1 \in 0..n /\ ~(i > l)
        /\ i + 1 - 1 = i /\ i \in 1..n
    BY <1>1
  <1>3. PICK rest : rest = SubSeq(bs, i, l)
    OBVIOUS
  <1>4. /\ rest \in Seq(Byte) /\ rest # <<>> /\ Len(rest) = l - i + 1
        /\ Head(rest) = bs[i] /\ Tail(rest) = SubSeq(bs, i + 1, l)
        /\ i + 2 <= l => /\ rest[2] = bs[i + 1] /\ rest[3] = bs[i + 2]
                         /\ SubSeq(rest, 4, Len(rest)) = SubSeq(bs, i + 3, l)
    <2>1. Resting(bs, l, i, rest)
      BY <1>3, RestIs
    <2>2. QED
      BY <2>1 DEF Resting
  <1>5. PICK before : before = SubSeq(bs, 1, i - 1) /\ before \in Seq(Byte)
    <2>1. i - 1 \in 0..Len(bs) /\ 1 \in Nat \ {0}
      BY <1>1, <1>2
    <2>2. SubSeq(bs, 1, i - 1) \in Seq(Byte)
      BY <2>1, CutBytes
    <2>3. QED
      BY <2>2
  <1>6. Unescaping(bs, l, i) = IF WellEscaped[rest] THEN [val |-> before \o Decoded[rest], ok |-> TRUE]
                               ELSE [val |-> <<>>, ok |-> FALSE]
    BY <1>3, <1>5 DEF Unescaping
  <1>7. CASE bs[i] # Percent
    <2>1. PICK tail : tail = Tail(rest) /\ tail \in Seq(Byte)
      BY <1>4, Shorter
    <2>2. Unescape[<<bs, l, i>>] = Unescape[<<bs, l, i + 1>>]
      BY <1>2, <1>7, UnescapeIs DEF UnescapeAt
    <2>3. WellEscaped[rest] = WellEscaped[tail]
      <3>1. WellEscaped[rest] = WellEscapedAt(WellEscaped, rest)
        BY <1>4, WellEscapedIs
      <3>2. WellEscapedAt(WellEscaped, rest) <=> WellEscaped[tail]
        BY <1>4, <1>7, <2>1, Zenon DEF WellEscapedAt
      <3>3. WellEscaped[tail] = WellEscapedAt(WellEscaped, tail)
        BY <2>1, WellEscapedIs
      <3>4. WellEscapedAt(WellEscaped, tail) \in BOOLEAN /\ WellEscapedAt(WellEscaped, rest) \in BOOLEAN
        BY DEF WellEscapedAt
      <3>5. QED
        BY <3>1, <3>2, <3>3, <3>4, Zenon
    <2>4. before \o Decoded[rest] = SubSeq(bs, 1, i) \o Decoded[tail]
      <3>1. Decoded[rest] = <<bs[i]>> \o Decoded[tail]
        BY <1>4, <1>7, <2>1, DecodedIs DEF DecodedAt
      <3>2. SubSeq(bs, 1, i) = before \o <<bs[i]>>
        <4>1. 1 \in 1..n /\ i \in 1..n /\ i \in 1..i
          BY <1>2
        <4>2. QED
          BY <1>1, <1>2, <1>5, <4>1, SubSeqRecursiveSecond
      <3>3. <<bs[i]>> \in Seq(Byte) /\ Decoded[tail] \in Seq(Byte)
        <4>1. bs[i] \in Byte
          BY <1>4, Shorter
        <4>2. <<bs[i]>> \in Seq(Byte)
          BY <4>1
        <4>3. Decoded[tail] \in Seq(Byte)
          BY <2>1, DecodedIs
        <4>4. QED
          BY <4>2, <4>3
      <3>4. QED
        <4>1. PICK one, more : /\ one = <<bs[i]>> /\ more = Decoded[tail]
                               /\ one \in Seq(Byte) /\ more \in Seq(Byte)
          BY <3>3
        <4>2. (before \o one) \o more = before \o (one \o more)
          BY <1>5, <4>1, JoinBytes
        <4>3. QED
          BY <3>1, <3>2, <4>1, <4>2
    <2>5. Unescaping(bs, l, i + 1) = Unescaping(bs, l, i)
      <3>1. Unescaping(bs, l, i + 1) =
                IF WellEscaped[tail] THEN [val |-> SubSeq(bs, 1, i) \o Decoded[tail], ok |-> TRUE]
                ELSE [val |-> <<>>, ok |-> FALSE]
        <4>1. PICK j, s : j = i + 1 /\ s = SubSeq(bs, 1, j - 1)
          OBVIOUS
        <4>2. j - 1 = i /\ tail = SubSeq(bs, j, l)
          BY <1>2, <1>4, <2>1, <4>1
        <4>3. s = SubSeq(bs, 1, i)
          BY <4>1, <4>2
        <4>4. QED
          BY <4>1, <4>2, <4>3, UnescapingIs
      <3>2. QED
        BY <1>6, <2>3, <2>4, <3>1
    <2>6. QED
      BY <2>2, <2>5 DEF Decodes
  <1>8. CASE bs[i] = Percent /\ i + 2 > l
    <2>1. Unescape[<<bs, l, i>>] = [val |-> <<>>, ok |-> FALSE]
      BY <1>2, <1>8, UnescapeIs DEF UnescapeAt
    <2>2. ~(Len(rest) >= 3)
      BY <1>2, <1>4, <1>8
    <2>3. ~WellEscaped[rest]
      BY <1>4, <1>8, <2>2, WellEscapedIs DEF WellEscapedAt
    <2>4. QED
      BY <1>6, <2>1, <2>3 DEF Decodes
  <1>9. CASE bs[i] = Percent /\ i + 2 <= l
    <2>1. PICK after : after = SubSeq(rest, 4, Len(rest)) /\ after \in Seq(Byte)
      BY <1>4, Shorter
    <2>2. PICK c : c = 16 * FromHexChar(bs[i + 1]) + FromHexChar(bs[i + 2]) /\ c \in Byte
      BY ByteOf
    <2>3. PICK sh : sh = Shifted(bs, i)
      OBVIOUS
    <2>4. Unescape[<<bs, l, i>>] = Unescape[<<sh, l - 2, i + 1>>]
      <3>1. ~(i + 2 > l)
        BY <1>2, <1>9
      <3>2. QED
        BY <1>2, <1>9, <2>3, <3>1, UnescapeIs DEF UnescapeAt
    <2>5. Len(rest) >= 3
      BY <1>2, <1>4, <1>9
    <2>6. WellEscaped[rest] = WellEscaped[after]
      <3>1. WellEscaped[rest] = WellEscapedAt(WellEscaped, rest)
        BY <1>4, WellEscapedIs
      <3>2. WellEscapedAt(WellEscaped, rest) <=> WellEscaped[after]
        BY <1>4, <1>9, <2>1, <2>5, Zenon DEF WellEscapedAt
      <3>3. WellEscaped[after] = WellEscapedAt(WellEscaped, after)
        BY <2>1, WellEscapedIs
      <3>4. WellEscapedAt(WellEscaped, after) \in BOOLEAN /\ WellEscapedAt(WellEscaped, rest) \in BOOLEAN
        BY DEF WellEscapedAt
      <3>5. QED
        BY <3>1, <3>2, <3>3, <3>4, Zenon
    <2>7. before \o Decoded[rest] = SubSeq(sh, 1, i) \o Decoded[after]
      <3>1. Decoded[rest] = <<16 * FromHexChar(rest[2]) + FromHexChar(rest[3])>> \o Decoded[after]
        BY <1>4, <1>9, <2>1, DecodedIs DEF DecodedAt
      <3>2. Decoded[rest] = <<c>> \o Decoded[after]
        BY <1>4, <1>9, <2>2, <3>1
      <3>3. SubSeq(sh, 1, i) = before \o <<c>>
        BY <1>5, <1>9, <2>2, <2>3, ShiftedIs
      <3>4. <<c>> \in Seq(Byte) /\ Decoded[after] \in Seq(Byte)
        <4>1. <<c>> \in Seq(Byte)
          BY <2>2
        <4>2. Decoded[after] \in Seq(Byte)
          BY <2>1, DecodedIs
        <4>3. QED
          BY <4>1, <4>2
      <3>5. QED
        <4>1. PICK one, more : /\ one = <<c>> /\ more = Decoded[after]
                               /\ one \in Seq(Byte) /\ more \in Seq(Byte)
          BY <3>4
        <4>2. (before \o one) \o more = before \o (one \o more)
          BY <1>5, <4>1, JoinBytes
        <4>3. QED
          BY <3>2, <3>3, <4>1, <4>2
    <2>8. SubSeq(sh, i + 1, l - 2) = after
      BY <1>4, <1>9, <2>1, <2>2, <2>3, ShiftedIs
    <2>9. Unescaping(sh, l - 2, i + 1) = Unescaping(bs, l, i)
      <3>1. Unescaping(sh, l - 2, i + 1) =
                IF WellEscaped[after] THEN [val |-> SubSeq(sh, 1, i) \o Decoded[after], ok |-> TRUE]
                ELSE [val |-> <<>>, ok |-> FALSE]
        <4>1. PICK j, k, s : j = i + 1 /\ k = l - 2 /\ s = SubSeq(sh, 1, j - 1)
          OBVIOUS
        <4>2. j - 1 = i /\ after = SubSeq(sh, j, k)
          BY <1>2, <2>8, <4>1
        <4>3. s = SubSeq(sh, 1, i)
          BY <4>1, <4>2
        <4>4. QED
          BY <4>1, <4>2, <4>3, UnescapingIs
      <3>2. QED
        BY <1>6, <2>6, <2>7, <3>1
    <2>10. QED
      BY <1>9, <2>3, <2>4, <2>9 DEF Decodes
  <1>10. QED
    BY <1>2, <1>7, <1>8, <1>9

(* unescapeFast is right for every value: it decodes the escapes in place,   *)
(* and refuses the values where one is cut off, and only those.             *)
THEOREM UnescapeDecodes ==
    ASSUME NEW val \in Seq(Byte)
    PROVE  Unescape[<<val, Len(val), 1>>] =
               IF WellEscaped[val] THEN [val |-> Decoded[val], ok |-> TRUE]
               ELSE [val |-> <<>>, ok |-> FALSE]
  <1> DEFINE Fits(bs, l, i) == l \in 0..Len(bs) /\ i \in 1..l + 1
             Bad == {k \in Nat : \E bs \in Seq(Byte) : \E l, i \in Nat :
                        Fits(bs, l, i) /\ k = l + 1 - i /\ ~Decodes(bs, l, i)}
  <1>1. Bad = {}
    <2>1. SUFFICES ASSUME Bad # {} PROVE FALSE
      OBVIOUS
    <2>2. PICK k \in Bad : \A j \in Bad : k <= j
      <3>1. Bad \in SUBSET Nat
        OBVIOUS
      <3> HIDE DEF Bad
      <3>2. QED
        BY <2>1, <3>1, LeastElement
    <2>3. PICK bs \in Seq(Byte), l \in Nat, i \in Nat :
              Fits(bs, l, i) /\ k = l + 1 - i /\ ~Decodes(bs, l, i)
      BY <2>2
    <2>4. i # l + 1
      BY <2>3, DecodesEnd
    <2>5. PICK n \in Nat : n = Len(bs)
      OBVIOUS
    <2>6. i \in 1..l /\ l \in 0..n /\ k \in Nat /\ k = l + 1 - i
      BY <2>3, <2>4, <2>5
    <2>7. Decodes(bs, l, i + 1)
      <3>1. Fits(bs, l, i + 1) /\ l + 1 - (i + 1) \in Nat /\ l + 1 - (i + 1) < k
        BY <2>5, <2>6
      <3>2. l + 1 - (i + 1) \notin Bad
        <4> HIDE DEF Bad
        <4>1. QED
          BY <2>2, <2>6, <3>1
      <3>3. QED
        BY <2>6, <3>1, <3>2
    <2>8. ASSUME i + 2 <= l PROVE Decodes(Shifted(bs, i), l - 2, i + 1)
      <3>1. PICK sh \in Seq(Byte) : sh = Shifted(bs, i) /\ Len(sh) = n
        BY <2>5, <2>6, ShiftedOK
      <3>2. PICK m \in Nat : m = l - 2
        BY <2>6, <2>8
      <3>3. Fits(sh, m, i + 1) /\ m + 1 - (i + 1) \in Nat /\ m + 1 - (i + 1) < k
        BY <2>5, <2>6, <2>8, <3>1, <3>2
      <3>4. m + 1 - (i + 1) \notin Bad
        <4> HIDE DEF Bad
        <4>1. QED
          BY <2>2, <2>6, <3>3
      <3>5. Decodes(sh, m, i + 1)
        BY <2>6, <3>3, <3>4
      <3>6. QED
        BY <3>1, <3>2, <3>5
    <2>9. QED
      BY <2>3, <2>5, <2>6, <2>7, <2>8, DecodesStep
  <1>2. PICK n \in Nat : n = Len(val)
    OBVIOUS
  <1>3. Fits(val, n, 1) /\ n + 1 - 1 \in Nat /\ 1 \in Nat
    BY <1>2
  <1>4. Decodes(val, n, 1)
    BY <1>1, <1>3
  <1>5. SubSeq(val, 1, n) = val
    BY <1>2, SubSeqFull
  <1>6. SubSeq(val, 1, 1 - 1) = <<>>
    BY SubSeqEmpty
  <1>7. <<>> \o Decoded[val] = Decoded[val]
    BY DecodedIs, ConcatEmptySeq
  <1>8. QED
    BY <1>2, <1>4, <1>5, <1>6, <1>7 DEF Decodes, Unescaping

-----------------------------------------------------------------------------
(* Where the query is cut                                                  *)

(* A set that has each element of D when it has those of smaller measure    *)
(* has all of D.                                                            *)
LEMMA SmallerFirst ==
    ASSUME NEW D, NEW m \in [D -> Nat], NEW T,
           \A x \in D : (\A y \in D : m[y] < m[x] => y \in T) => x \in T
    PROVE  D \subseteq T
  <1> DEFINE Bad == {k \in Nat : \E x \in D : m[x] = k /\ x \notin T}
  <1>1. SUFFICES ASSUME NEW x0 \in D, x0 \notin T PROVE FALSE
    OBVIOUS
  <1>2. Bad \in SUBSET Nat /\ Bad # {}
    BY <1>1
  <1>3. PICK k \in Bad : \A j \in Bad : k <= j
    <2> HIDE DEF Bad
    <2>1. QED
      BY <1>2, LeastElement
  <1>4. PICK x \in D : m[x] = k /\ x \notin T
    BY <1>3
  <1>5. ASSUME NEW y \in D, m[y] < m[x] PROVE y \in T
    <2>1. m[y] \notin Bad
      <3> HIDE DEF Bad
      <3>1. QED
        BY <1>3, <1>4, <1>5
    <2>2. QED
      BY <2>1
  <1>6. QED
    BY <1>4, <1>5

LEMMA Wholly ==
    ASSUME NEW S, NEW s \in Seq(S), NEW t \in Seq(S)
    PROVE  SubSeq(s \o t, 1, Len(s)) = s
  <1>1. Sequence(s) /\ Sequence(t) /\ Len(s) \in Nat
    BY DEF Sequence
  <1>2. SubSeq(s \o t, 1, Len(s)) = SubSeq(s, 1, Len(s))
    BY <1>1, CutAlone
  <1>3. QED
    BY <1>2, SubSeqFull

LEMMA Onwards ==
    ASSUME NEW S, NEW s \in Seq(S), NEW t \in Seq(S), NEW i \in 1..Len(s) + 1
    PROVE  SubSeq(s \o t, i, Len(s \o t)) = SubSeq(s, i, Len(s)) \o t
  <1>1. PICK m, n \in Nat : m = Len(s) /\ n = Len(t)
    OBVIOUS
  <1>2. PICK b : b = s \o t
    OBVIOUS
  <1>3. /\ b \in Seq(S) /\ Len(b) = m + n
        /\ \A j \in 1..m + n : b[j] = IF j <= m THEN s[j] ELSE t[j - m]
    BY <1>1, <1>2, ConcatProperties
  <1>4. PICK c, d : c = SubSeq(b, i, m + n) /\ d = SubSeq(s, i, m)
    OBVIOUS
  <1>5. i \in Int /\ m \in Int /\ m + n \in Int /\ i \in 1..m + 1
    BY <1>1
  <1>6. (\A j \in i..m + n : b[j] \in S) /\ \A j \in i..m : s[j] \in S
    BY <1>1, <1>3, <1>5, ElementOfSeq
  <1>7. PICK k \in Nat : k = m - i + 1
    BY <1>5
  <1>8. c \in Seq(S) /\ Len(c) = k + n /\ \A j \in 1..k + n : c[j] = b[i + j - 1]
    <2>1. /\ c \in Seq(S) /\ Len(c) = IF i <= m + n THEN m + n - i + 1 ELSE 0
          /\ \A j \in 1..m + n - i + 1 : c[j] = b[i + j - 1]
      BY <1>4, <1>5, <1>6, SubSeqProperties
    <2>2. m + n - i + 1 = k + n /\ (IF i <= m + n THEN m + n - i + 1 ELSE 0) = k + n
      BY <1>1, <1>5, <1>7
    <2>3. QED
      BY <2>1, <2>2
  <1>9. d \in Seq(S) /\ Len(d) = k /\ \A j \in 1..k : d[j] = s[i + j - 1]
    <2>1. /\ d \in Seq(S) /\ Len(d) = IF i <= m THEN m - i + 1 ELSE 0
          /\ \A j \in 1..m - i + 1 : d[j] = s[i + j - 1]
      BY <1>4, <1>5, <1>6, SubSeqProperties
    <2>2. (IF i <= m THEN m - i + 1 ELSE 0) = k
      BY <1>1, <1>5, <1>7
    <2>3. QED
      BY <1>7, <2>1, <2>2
  <1>10. PICK e : e = d \o t
    OBVIOUS
  <1>11. /\ e \in Seq(S) /\ Len(e) = k + n
         /\ \A j \in 1..k + n : e[j] = IF j <= k THEN d[j] ELSE t[j - k]
    BY <1>1, <1>9, <1>10, ConcatProperties
  <1>12. ASSUME NEW j \in 1..k + n PROVE c[j] = e[j]
    <2>1. i + j - 1 \in 1..m + n
      BY <1>1, <1>5, <1>7
    <2>2. CASE j <= k
      <3>1. i + j - 1 <= m /\ j \in 1..k
        BY <1>5, <1>7, <2>2
      <3>2. c[j] = s[i + j - 1]
        BY <1>3, <1>8, <2>1, <3>1
      <3>3. QED
        BY <1>9, <1>11, <2>2, <3>1, <3>2
    <2>3. CASE ~(j <= k)
      <3>1. ~(i + j - 1 <= m) /\ i + j - 1 - m = j - k
        BY <1>5, <1>7, <2>3
      <3>2. c[j] = t[j - k]
        BY <1>3, <1>8, <2>1, <3>1
      <3>3. QED
        BY <1>11, <2>3, <3>2
    <2>4. QED
      BY <2>2, <2>3
  <1>13. c = e
    BY <1>8, <1>11, <1>12, SeqEqual
  <1>14. QED
    BY <1>1, <1>2, <1>3, <1>4, <1>10, <1>13

PiecesAt(f, query, amp) ==
    LET i == Index(query, amp)
    IN  IF i = 0 THEN <<query>>
        ELSE <<SubSeq(query, 1, i - 1)>> \o f[SubSeq(query, i + 1, Len(query))]

Extents == [query \in Seq(Token) |-> Len(query)]

(* Where a query is cut, what comes before and after is shorter             *)
LEMMA CutQuery ==
    ASSUME NEW query \in Seq(Token), NEW amp, NEW i, i = Index(query, amp), i # 0
    PROVE  /\ i \in 1..Len(query)
           /\ SubSeq(query, 1, i - 1) \in Seq(Token)
           /\ SubSeq(query, i + 1, Len(query)) \in Seq(Token)
           /\ Len(SubSeq(query, i + 1, Len(query))) < Len(query)
  <1>1. PICK n \in Nat : n = Len(query) /\ DOMAIN query = 1..n
    OBVIOUS
  <1>2. i \in 1..n
    BY <1>1, IndexOK
  <1>3. PICK rest : rest = SubSeq(query, i + 1, n)
    OBVIOUS
  <1>4. \A j \in 1..n : query[j] \in Token
    BY <1>1, ElementOfSeq
  <1>5. /\ i + 1 \in Int /\ n \in Int /\ i - 1 \in Int /\ 1 \in Int
        /\ (\A j \in i + 1..n : query[j] \in Token) /\ \A j \in 1..i - 1 : query[j] \in Token
    BY <1>2, <1>4
  <1>6. rest \in Seq(Token) /\ Len(rest) = IF i + 1 <= n THEN n - (i + 1) + 1 ELSE 0
    BY <1>3, <1>5, SubSeqProperties
  <1>7. SubSeq(query, 1, i - 1) \in Seq(Token)
    BY <1>5, SubSeqProperties
  <1>8. Len(rest) < n
    BY <1>2, <1>6
  <1>9. QED
    BY <1>1, <1>2, <1>3, <1>6, <1>7, <1>8

(* The loop over the query takes one piece and goes on.                    *)
LEMMA PiecesIs ==
    ASSUME NEW amp, amp = "&"
    PROVE  \A query \in Seq(Token) :
              /\ Pieces[query] = PiecesAt(Pieces, query, amp)
              /\ Pieces[query] \in Seq(Seq(Token))
  <1> DEFINE D == Seq(Token)
             V == Seq(Seq(Token))
             G == [x \in D |-> [f \in [D -> V] |-> PiecesAt(f, x, amp)]]
             R(g) == g = [x \in D |-> PiecesAt(g, x, amp)]
             T == {x \in D : Pieces[x] \in V}
  <1>1. Pieces = CHOOSE g : R(g)
    BY DEF Pieces, PiecesAt
  <1>2. ASSUME NEW x \in D, NEW f, \A y \in D : Extents[y] < Extents[x] => f[y] \in V
        PROVE  PiecesAt(f, x, amp) \in V
    <2>1. PICK i : i = Index(x, amp)
      OBVIOUS
    <2>2. CASE i = 0
      BY <2>1, <2>2 DEF PiecesAt
    <2>3. CASE i # 0
      <3>1. PICK before, rest : before = SubSeq(x, 1, i - 1) /\ rest = SubSeq(x, i + 1, Len(x))
        OBVIOUS
      <3>2. before \in D /\ rest \in D /\ Len(rest) < Len(x)
        BY <2>1, <2>3, <3>1, CutQuery
      <3>3. <<before>> \in V /\ f[rest] \in V
        BY <1>2, <3>2 DEF Extents
      <3>4. <<before>> \o f[rest] \in V
        BY <3>3, ConcatProperties
      <3>5. PiecesAt(f, x, amp) = <<before>> \o f[rest]
        BY <2>1, <2>3, <3>1 DEF PiecesAt
      <3>6. QED
        BY <3>4, <3>5
    <2>4. QED
      BY <2>2, <2>3
  <1>3. ASSUME NEW x \in D, NEW f \in [D -> V], NEW g \in [D -> V],
               \A y \in D : Extents[y] < Extents[x] => f[y] = g[y]
        PROVE  PiecesAt(f, x, amp) = PiecesAt(g, x, amp)
    <2>1. PICK i, rest : i = Index(x, amp) /\ rest = SubSeq(x, i + 1, Len(x))
      OBVIOUS
    <2>2. i # 0 => f[rest] = g[rest]
      BY <1>3, <2>1, CutQuery DEF Extents
    <2>3. QED
      BY <2>1, <2>2 DEF PiecesAt
  <1>4. Extents \in [D -> Nat]
    BY LenProperties DEF Extents
  <1>5. Local(D, V, Extents, G)
    BY <1>2, <1>3, <1>4 DEF Local
  <1>6. PICK v : v \in V
    <2>1. <<>> \in V
      BY EmptySeq
    <2>2. QED
      BY <2>1
  <1>7. PICK f \in [D -> V] : \A x \in D : f[x] = G[x][f]
    <2> HIDE DEF G, D, V
    <2>1. QED
      BY <1>5, <1>6, RecursionExists
  <1>8. R(f)
    BY <1>7
  <1>9. R(Pieces)
    <2> HIDE DEF R
    <2>1. QED
      BY <1>1, <1>8
  <1>10. \A x \in D : Pieces[x] = PiecesAt(Pieces, x, amp)
    BY <1>9
  <1>11. ASSUME NEW x \in D, \A y \in D : Extents[y] < Extents[x] => y \in T PROVE x \in T
    BY <1>2, <1>10, <1>11
  <1>12. D \subseteq T
    <2> HIDE DEF D, T
    <2>1. QED
      BY <1>4, <1>11, SmallerFirst
  <1>13. QED
    BY <1>10, <1>12

(* A query that goes on after an '&' has one more piece.                    *)
LEMMA OneMore ==
    ASSUME NEW amp, amp = "&", NEW sep \in Token, sep.kind = amp,
           NEW p \in Seq(Token), \A i \in 1..Len(p) : p[i].kind # amp,
           NEW query \in Seq(Token)
    PROVE  Pieces[query \o (<<sep>> \o p)] = Pieces[query] \o <<p>>
  <1>1. PICK after : after = <<sep>> \o p
    OBVIOUS
  <1>2. PICK k \in Nat : k = Len(p)
    OBVIOUS
  <1>3. /\ after \in Seq(Token) /\ Len(after) = k + 1
        /\ after[1] = sep /\ \A i \in 1..k : after[i + 1] = p[i]
    <2>1. PICK one : one = <<sep>> /\ one \in Seq(Token) /\ Len(one) = 1 /\ one[1] = sep
      <3>1. <<sep>> \in Seq(Token) /\ Len(<<sep>>) = 1 /\ <<sep>>[1] = sep
        OBVIOUS
      <3>2. QED
        BY <3>1
    <2>2. /\ one \o p \in Seq(Token) /\ Len(one \o p) = 1 + k
          /\ \A i \in 1..1 + k : (one \o p)[i] = IF i <= 1 THEN one[i] ELSE p[i - 1]
      BY <1>2, <2>1, ConcatProperties
    <2>3. QED
      BY <1>1, <1>2, <2>1, <2>2
  <1> DEFINE D == Seq(Token)
             T == {q \in D : Pieces[q \o after] = Pieces[q] \o <<p>>}
  <1>4. ASSUME NEW q \in D, \A y \in D : Extents[y] < Extents[q] => y \in T
        PROVE  q \in T
    <2>1. PICK n \in Nat : n = Len(q) /\ DOMAIN q = 1..n
      OBVIOUS
    <2>2. PICK s : s = q \o after
      OBVIOUS
    <2>3. PICK z \in Nat : z = n + (k + 1)
      OBVIOUS
    <2>4. /\ s \in D /\ Len(s) = z /\ DOMAIN s = 1..z
          /\ \A i \in 1..z : s[i] = IF i <= n THEN q[i] ELSE after[i - n]
      <3>1. PICK r : r = after /\ r \in D /\ Len(r) = k + 1
        BY <1>3
      <3>2. /\ q \o r \in D /\ Len(q \o r) = Len(q) + Len(r)
            /\ \A i \in 1..Len(q) + Len(r) : (q \o r)[i] = IF i <= Len(q) THEN q[i] ELSE r[i - Len(q)]
        BY <3>1, ConcatProperties
      <3>3. Len(q) + Len(r) = z
        BY <2>1, <2>3, <3>1
      <3>4. QED
        BY <2>1, <2>2, <3>1, <3>2, <3>3
    <2>7. /\ Pieces[q] = PiecesAt(Pieces, q, amp) /\ Pieces[s] = PiecesAt(Pieces, s, amp)
          /\ Pieces[p] = PiecesAt(Pieces, p, amp)
      BY <2>4, PiecesIs
    <2>5. PICK a : a = Index(q, amp)
      OBVIOUS
    <2>6. /\ a \in 0..n
          /\ a = 0 => \A j \in 1..n : q[j].kind # amp
          /\ a # 0 => q[a].kind = amp /\ \A j \in 1..n : j < a => q[j].kind # amp
      BY <2>1, <2>5, IndexOK
    <2>8. CASE a = 0
      <3>1. Index(s, amp) = n + 1
        <4>1. n + 1 \in 1..z /\ s[n + 1] = sep
          BY <1>3, <2>3, <2>4
        <4>2. \A j \in 1..z : j < n + 1 => s[j].kind # amp
          BY <2>3, <2>4, <2>6, <2>8
        <4>3. DOMAIN s = 1..z
          BY <2>4
        <4>4. PICK i \in 1..z : i = n + 1 /\ s[i].kind = amp
          BY <4>1
        <4>5. \A j \in 1..z : j < i => s[j].kind # amp
          BY <4>2, <4>4
        <4>6. Index(s, amp) = i
          BY <2>3, <4>3, <4>4, <4>5, IndexIs
        <4>7. QED
          BY <4>4, <4>6
      <3>2. SubSeq(s, 1, n) = q
        BY <1>3, <2>1, <2>2, Wholly
      <3>3. SubSeq(s, n + 1 + 1, z) = p
        <4>1. PICK one, both : /\ one = <<sep>> /\ both = q \o one /\ one \in D /\ Len(one) = 1
          <5>1. <<sep>> \in D /\ Len(<<sep>>) = 1
            OBVIOUS
          <5>2. QED
            BY <5>1
        <4>2. both \in D /\ Len(both) = n + 1
          BY <2>1, <4>1, ConcatProperties
        <4>3. both \o p = s
          BY <1>1, <2>2, <4>1, ConcatAssociative
        <4>4. PICK i \in 1..Len(both) + 1 : i = n + 1 + 1
          BY <4>2
        <4>5. SubSeq(both \o p, i, Len(both \o p)) = SubSeq(both, i, Len(both)) \o p
          BY <4>2, Onwards
        <4>6. SubSeq(both, i, Len(both)) = <<>>
          BY <4>2, <4>4, SubSeqEmpty
        <4>7. <<>> \o p = p
          BY ConcatEmptySeq
        <4>8. QED
          BY <2>4, <4>3, <4>4, <4>5, <4>6, <4>7
      <3>4. Index(p, amp) = 0
        <4>1. PICK j : j = Index(p, amp)
          OBVIOUS
        <4>2. j \in 0..k /\ (j # 0 => p[j].kind = amp)
          BY <1>2, <4>1, IndexOK
        <4>3. QED
          BY <1>2, <4>1, <4>2
      <3>5. Pieces[p] = <<p>> /\ Pieces[q] = <<q>>
        BY <2>7, <2>5, <2>8, <3>4 DEF PiecesAt
      <3>6. Pieces[s] = <<q>> \o <<p>>
        <4>1. PICK i : i = n + 1 /\ i # 0 /\ i - 1 = n
          OBVIOUS
        <4>2. Pieces[s] = <<SubSeq(s, 1, i - 1)>> \o Pieces[SubSeq(s, i + 1, Len(s))]
          BY <2>7, <3>1, <4>1 DEF PiecesAt
        <4>3. QED
          BY <2>4, <3>2, <3>3, <3>5, <4>1, <4>2
      <3>7. QED
        BY <2>2, <3>5, <3>6
    <2>9. CASE a # 0
      <3>1. Index(s, amp) = a
        <4>1. a \in 1..z /\ s[a].kind = amp
          BY <2>3, <2>4, <2>6, <2>9
        <4>2. \A j \in 1..z : j < a => s[j].kind # amp
          BY <2>3, <2>4, <2>6, <2>9
        <4>3. DOMAIN s = 1..z
          BY <2>4
        <4>4. QED
          BY <4>1, <4>2, <4>3, IndexIs
      <3>2. PICK x, rest : x = SubSeq(q, 1, a - 1) /\ rest = SubSeq(q, a + 1, n)
        OBVIOUS
      <3>3. x \in D /\ rest \in D /\ Len(rest) < n
        BY <2>1, <2>5, <2>9, <3>2, CutQuery
      <3>4. SubSeq(s, 1, a - 1) = x
        <4>1. Sequence(q) /\ Sequence(after)
          BY <1>3 DEF Sequence
        <4>2. a - 1 \in Int /\ a - 1 <= n /\ 1 \in Nat \ {0}
          BY <2>6
        <4>3. QED
          BY <2>1, <2>2, <3>2, <4>1, <4>2, CutAlone
      <3>5. SubSeq(s, a + 1, z) = rest \o after
        <4>1. PICK i \in 1..n + 1 : i = a + 1
          BY <2>6
        <4>2. SubSeq(q \o after, i, Len(q \o after)) = SubSeq(q, i, Len(q)) \o after
          BY <1>3, <2>1, Onwards
        <4>3. QED
          BY <2>1, <2>2, <2>4, <3>2, <4>1, <4>2
      <3>6. Pieces[rest \o after] = Pieces[rest] \o <<p>>
        BY <1>4, <2>1, <3>3 DEF Extents
      <3>7. Pieces[s] = <<x>> \o Pieces[rest \o after]
        BY <2>4, <2>7, <2>9, <3>1, <3>4, <3>5 DEF PiecesAt
      <3>8. Pieces[q] = <<x>> \o Pieces[rest]
        BY <2>1, <2>7, <2>5, <2>9, <3>2 DEF PiecesAt
      <3>9. PICK one, more, last : /\ one = <<x>> /\ more = Pieces[rest] /\ last = <<p>>
                                   /\ one \in Seq(D) /\ more \in Seq(D) /\ last \in Seq(D)
        <4>1. <<x>> \in Seq(D) /\ <<p>> \in Seq(D)
          BY <3>3
        <4>2. Pieces[rest] \in Seq(D)
          BY <3>3, PiecesIs
        <4>3. QED
          BY <4>1, <4>2
      <3>10. (one \o more) \o last = one \o (more \o last)
        <4>2. PICK E : E = D
          OBVIOUS
        <4>3. one \in Seq(E) /\ more \in Seq(E) /\ last \in Seq(E)
          BY <3>9, <4>2
        <4>4. QED
          BY <4>3, ConcatAssociative
      <3>11. QED
        BY <2>2, <3>6, <3>7, <3>8, <3>9, <3>10
    <2>10. QED
      BY <2>8, <2>9
  <1>5. Extents \in [D -> Nat]
    BY LenProperties DEF Extents
  <1>6. D \subseteq T
    <2> HIDE DEF D, T
    <2>1. QED
      BY <1>4, <1>5, SmallerFirst
  <1>7. QED
    BY <1>1, <1>6

\* f joins ever more of seqs
Joins(f, seqs, n) ==
    /\ FlattenSeq(seqs) = f[n]
    /\ \A i \in 1..n : f[i] = IF i = 1 THEN seqs[i] ELSE f[i - 1] \o seqs[i]

(* FlattenSeq joins one sequence after the other.                          *)
LEMMA FlattenIs ==
    ASSUME NEW S, NEW n \in Nat \ {0}, NEW seqs \in [1..n -> Seq(S)]
    PROVE  \E f \in [1..n -> Seq(S)] : Joins(f, seqs, n)
  <1> DEFINE D == 1..n
             V == Seq(S)
             m == [i \in D |-> i]
             At(f, i) == IF i = 1 THEN seqs[i] ELSE f[i - 1] \o seqs[i]
             G == [i \in D |-> [f \in [D -> V] |-> At(f, i)]]
             R(g) == g = [i \in D |-> At(g, i)]
  <1>1. Len(seqs) = n
    BY SeqDef
  <1>2. FlattenSeq(seqs) = (CHOOSE g : R(g))[n]
    BY <1>1 DEF FlattenSeq
  <1>3. ASSUME NEW f \in [D -> V], NEW i \in D PROVE At(f, i) \in V
    <2>1. seqs[i] \in V /\ (i # 1 => f[i - 1] \in V)
      OBVIOUS
    <2>2. i # 1 => f[i - 1] \o seqs[i] \in V
      BY <2>1, ConcatProperties
    <2>3. QED
      BY <2>1, <2>2
  <1>4. ASSUME NEW i \in D, NEW f \in [D -> V], NEW g \in [D -> V],
               \A j \in D : m[j] < m[i] => f[j] = g[j]
        PROVE  At(f, i) = At(g, i)
    <2>1. i # 1 => f[i - 1] = g[i - 1]
      BY <1>4
    <2>2. QED
      BY <2>1
  <1>5. m \in [D -> Nat]
    OBVIOUS
  <1>6. Local(D, V, m, G)
    <2> HIDE DEF At, m, D, V
    <2>1. QED
      BY <1>3, <1>4, <1>5 DEF Local
  <1>7. PICK v : v \in V
    <2>1. <<>> \in V
      BY EmptySeq
    <2>2. QED
      BY <2>1
  <1>8. PICK f \in [D -> V] : \A i \in D : f[i] = G[i][f]
    <2> HIDE DEF G, D, V, m
    <2>1. PICK E, W, M, H : E = D /\ W = V /\ M = m /\ H = G
      OBVIOUS
    <2>2. Local(E, W, M, H) /\ v \in W
      BY <1>6, <1>7, <2>1
    <2>3. \E f \in [E -> W] : \A i \in E : f[i] = H[i][f]
      BY <2>2, RecursionExists
    <2>4. QED
      BY <2>1, <2>3
  <1>9. R(f)
    <2> HIDE DEF At
    <2>1. QED
      BY <1>8
  <1>10. PICK g : g = CHOOSE h : R(h)
    OBVIOUS
  <1>11. R(g)
    <2> HIDE DEF R
    <2>1. QED
      BY <1>9, <1>10
  <1>12. \A i \in D : g[i] = At(g, i)
    BY <1>11
  <1> DEFINE T == {i \in D : g[i] = f[i]}
  <1>13. ASSUME NEW i \in D, \A j \in D : m[j] < m[i] => j \in T PROVE i \in T
    <2>1. i # 1 => g[i - 1] = f[i - 1]
      BY <1>13
    <2>2. At(g, i) = At(f, i)
      BY <2>1
    <2>3. f[i] = At(f, i)
      BY <1>8
    <2>4. QED
      BY <1>12, <2>2, <2>3
  <1>14. D \subseteq T
    <2> HIDE DEF D, T, m
    <2>1. QED
      BY <1>5, <1>13, SmallerFirst
  <1>15. g[n] = f[n]
    BY <1>14
  <1>16. \A i \in D : f[i] = At(f, i)
    BY <1>8
  <1>17. QED
    BY <1>2, <1>10, <1>15, <1>16 DEF Joins

PieceOf(p) == IF p.key = "" THEN <<>> ELSE <<Param(p.key, p.val)>>

(* A method, a delimiter or the headers.                                    *)
LEMMA TokOK ==
    ASSUME NEW kind \in Delimiter \cup STRING
    PROVE  Tok(kind) \in Token /\ Tok(kind).kind = kind
  BY DEF Tok, Token

(* A piece is empty, or one parameter.                                     *)
LEMMA PieceOK ==
    ASSUME NEW p \in Parameter, NEW par, par = "param"
    PROVE  PieceOf(p) \in Seq(Token) /\ \A i \in 1..Len(PieceOf(p)) : PieceOf(p)[i].kind = par
  <1>1. PICK tok : tok = Param(p.key, p.val)
    OBVIOUS
  <1>2. tok \in Token /\ tok.kind = par
    BY <1>1 DEF Param, Token, Parameter
  <1>3. PICK q : q = PieceOf(p)
    OBVIOUS
  <1>4. q = <<>> \/ q = <<tok>>
    BY <1>1, <1>3 DEF PieceOf
  <1>5. <<>> \in Seq(Token) /\ <<tok>> \in Seq(Token)
    BY <1>2
  <1>6. \A i \in 1..Len(q) : q[i].kind = par
    BY <1>2, <1>4
  <1>7. QED
    BY <1>3, <1>4, <1>5, <1>6

\* What stands for the query of a request, and the pieces it is cut into
QueryTokens(query, mark, amp) ==
    [k \in DOMAIN query |-> <<Tok(IF k = 1 THEN mark ELSE amp)>> \o PieceOf(query[k])]

PiecesOf(query, n) == [k \in 1..n |-> PieceOf(query[k])]

\* g is what follows the first delimiter
Follow(g, query, n, mark, amp, par) ==
    /\ FlattenSeq(QueryTokens(query, mark, amp)) = <<Tok(mark)>> \o g
    /\ Pieces[g] = PiecesOf(query, n)
    /\ \A i \in 1..Len(g) : g[i].kind \in {amp, par}

(* The pieces that parse cuts from a query are those it was rendered from. *)
LEMMA QueryIs ==
    ASSUME NEW mark \in Delimiter, NEW amp \in Delimiter, amp = "&", NEW par, par = "param",
           NEW n \in Nat \ {0}, NEW query \in [1..n -> Parameter]
    PROVE  \E g \in Seq(Token) : Follow(g, query, n, mark, amp, par)
  <1>1. PICK seqs : /\ seqs = QueryTokens(query, mark, amp)
                    /\ seqs = [k \in 1..n |-> <<Tok(IF k = 1 THEN mark ELSE amp)>> \o PieceOf(query[k])]
    <2>1. DOMAIN query = 1..n
      OBVIOUS
    <2>2. QED
      BY <2>1 DEF QueryTokens
  <1>2. PICK first, sep : /\ first = Tok(mark) /\ sep = Tok(amp)
                          /\ first \in Token /\ sep \in Token /\ sep.kind = amp
    BY TokOK
  <1>3. PICK pieces : pieces = [k \in 1..n |-> PieceOf(query[k])]
    OBVIOUS
  <1>4. \A k \in 1..n : /\ pieces[k] \in Seq(Token)
                        /\ \A i \in 1..Len(pieces[k]) : pieces[k][i].kind = par
    BY <1>3, PieceOK
  <1>5. \A k \in 1..n : seqs[k] = <<IF k = 1 THEN first ELSE sep>> \o pieces[k]
    BY <1>1, <1>2, <1>3
  <1>6. seqs \in [1..n -> Seq(Token)]
    <2>1. ASSUME NEW k \in 1..n PROVE seqs[k] \in Seq(Token)
      <3>1. PICK one : one = <<IF k = 1 THEN first ELSE sep>> /\ one \in Seq(Token)
        <4>1. (IF k = 1 THEN first ELSE sep) \in Token
          BY <1>2
        <4>2. <<IF k = 1 THEN first ELSE sep>> \in Seq(Token)
          BY <4>1
        <4>3. QED
          BY <4>2
      <3>2. one \o pieces[k] \in Seq(Token)
        BY <1>4, <3>1, ConcatProperties
      <3>3. QED
        BY <1>5, <3>1, <3>2
    <2>2. QED
      BY <1>1, <2>1
  <1>7. PICK f \in [1..n -> Seq(Token)] : Joins(f, seqs, n)
    BY <1>6, FlattenIs
  <1> DEFINE m == [i \in 1..n |-> i]
             Good(i, g) == /\ f[i] = <<first>> \o g
                           /\ Pieces[g] = [k \in 1..i |-> pieces[k]]
                           /\ \A j \in 1..Len(g) : g[j].kind \in {amp, par}
             T == {i \in 1..n : \E g \in Seq(Token) : Good(i, g)}
  <1>8. ASSUME NEW i \in 1..n, \A j \in 1..n : m[j] < m[i] => j \in T
        PROVE  \E g \in Seq(Token) : Good(i, g)
    <2>1. PICK p : p = pieces[i] /\ p \in Seq(Token) /\ \A j \in 1..Len(p) : p[j].kind = par
      BY <1>4
    <2>2. amp # par
      BY Zenon
    <2>3. CASE i = 1
      <3>1. f[1] = <<first>> \o p
        BY <1>5, <1>7, <2>1, <2>3 DEF Joins
      <3>2. Pieces[p] = <<p>>
        <4>1. Index(p, amp) = 0
          <5>1. PICK k \in Nat : k = Len(p) /\ DOMAIN p = 1..k
            BY <2>1
          <5>2. PICK j : j = Index(p, amp)
            OBVIOUS
          <5>3. j \in 0..k /\ (j # 0 => p[j].kind = amp)
            BY <5>1, <5>2, IndexOK
          <5>4. QED
            BY <2>1, <2>2, <5>1, <5>2, <5>3
        <4>2. QED
          BY <2>1, <4>1, PiecesIs DEF PiecesAt
      <3>3. <<p>> = [k \in 1..1 |-> pieces[k]]
        BY <2>1, <2>3
      <3>4. QED
        BY <2>1, <2>3, <3>1, <3>2, <3>3
    <2>4. CASE i # 1
      <3>1. PICK l \in 1..n : l = i - 1
        BY <2>4
      <3>2. l \in T
        <4>1. m[l] < m[i]
          BY <3>1
        <4> HIDE DEF T, m
        <4>2. QED
          BY <1>8, <3>1, <4>1
      <3>3. PICK g \in Seq(Token) : Good(l, g)
        BY <3>2
      <3>4. PICK after : after = <<sep>> \o p
        OBVIOUS
      <3>5. /\ after \in Seq(Token) /\ Len(after) = 1 + Len(p)
            /\ \A j \in 1..Len(after) : after[j].kind \in {amp, par}
        <4>1. PICK one : one = <<sep>> /\ one \in Seq(Token) /\ Len(one) = 1 /\ one[1] = sep
          <5>1. <<sep>> \in Seq(Token) /\ Len(<<sep>>) = 1 /\ <<sep>>[1] = sep
            BY <1>2
          <5>2. QED
            BY <5>1
        <4>2. /\ one \o p \in Seq(Token) /\ Len(one \o p) = Len(one) + Len(p)
              /\ \A j \in 1..Len(one) + Len(p) :
                    (one \o p)[j] = IF j <= Len(one) THEN one[j] ELSE p[j - Len(one)]
          BY <2>1, <4>1, ConcatProperties
        <4>3. PICK k \in Nat : k = Len(p)
          BY <2>1
        <4>4. ASSUME NEW j \in 1..1 + k PROVE after[j].kind \in {amp, par}
          <5>1. after[j] = IF j <= 1 THEN one[j] ELSE p[j - 1]
            BY <3>4, <4>1, <4>2, <4>3
          <5>2. j = 1 \/ (~(j <= 1) /\ j - 1 \in 1..k)
            BY <4>3
          <5>3. QED
            BY <1>2, <2>1, <4>1, <4>3, <5>1, <5>2
        <4>5. QED
          BY <3>4, <4>1, <4>2, <4>3, <4>4
      <3>6. PICK h : h = g \o after
        OBVIOUS
      <3>7. /\ h \in Seq(Token) /\ Len(h) = Len(g) + Len(after)
            /\ \A j \in 1..Len(g) + Len(after) : h[j] = IF j <= Len(g) THEN g[j] ELSE after[j - Len(g)]
        <4>1. g \in Seq(Token) /\ after \in Seq(Token)
          BY <3>3, <3>5
        <4>2. QED
          BY <3>6, <4>1, ConcatProperties
      <3>8. f[i] = <<first>> \o h
        <4>1. f[i] = f[l] \o seqs[i]
          BY <1>7, <2>4, <3>1 DEF Joins
        <4>2. seqs[i] = after
          BY <1>5, <2>1, <2>4, <3>4
        <4>3. f[l] = <<first>> \o g
          BY <3>3
        <4>4. PICK one : one = <<first>> /\ one \in Seq(Token)
          <5>1. <<first>> \in Seq(Token)
            BY <1>2
          <5>2. QED
            BY <5>1
        <4>5. (one \o g) \o after = one \o (g \o after)
          <5>1. PICK E : one \in Seq(E) /\ g \in Seq(E) /\ after \in Seq(E)
            BY <3>3, <3>5, <4>4
          <5>2. QED
            BY <5>1, ConcatAssociative
        <4>6. QED
          BY <3>6, <4>1, <4>2, <4>3, <4>4, <4>5
      <3>9. Pieces[h] = [k \in 1..i |-> pieces[k]]
        <4>1. \A j \in 1..Len(p) : p[j].kind # amp
          BY <2>1, <2>2
        <4>2. Pieces[g \o (<<sep>> \o p)] = Pieces[g] \o <<p>>
          <5>1. sep \in Token /\ sep.kind = amp /\ p \in Seq(Token) /\ g \in Seq(Token)
            BY <1>2, <2>1, <3>3
          <5>2. QED
            BY <4>1, <5>1, OneMore
        <4>3. PICK a, b, c : /\ a = [k \in 1..l |-> pieces[k]] /\ b = <<p>> /\ c = [k \in 1..i |-> pieces[k]]
          OBVIOUS
        <4>4. PICK E : E = Seq(Token)
          OBVIOUS
        <4>5. a \in Seq(E) /\ Len(a) = l /\ b \in Seq(E) /\ Len(b) = 1 /\ b[1] = p
          <5>1. a \in [1..l -> E] /\ l \in Nat
            BY <1>4, <3>1, <4>3, <4>4
          <5>2. a \in Seq(E)
            BY <5>1, SeqDef
          <5>3. QED
            BY <2>1, <4>3, <4>4, <5>1, <5>2
        <4>6. c \in Seq(E) /\ Len(c) = i
          <5>1. c \in [1..i -> E] /\ i \in Nat
            BY <1>4, <4>3, <4>4
          <5>2. c \in Seq(E)
            BY <5>1, SeqDef
          <5>3. QED
            BY <5>1, <5>2
        <4>7. /\ a \o b \in Seq(E) /\ Len(a \o b) = Len(a) + Len(b)
              /\ \A j \in 1..Len(a) + Len(b) : (a \o b)[j] = IF j <= Len(a) THEN a[j] ELSE b[j - Len(a)]
          BY <4>5, ConcatProperties
        <4>8. Len(a) + Len(b) = i
          BY <3>1, <4>5
        <4>9. ASSUME NEW j \in 1..i PROVE (a \o b)[j] = c[j]
          <5>1. (a \o b)[j] = IF j <= l THEN a[j] ELSE b[j - l]
            BY <4>5, <4>7, <4>8
          <5>2. c[j] = pieces[j]
            BY <4>3
          <5>3. j <= l => a[j] = pieces[j]
            BY <4>3
          <5>4. ~(j <= l) => j = i /\ j - l = 1
            BY <3>1
          <5>5. QED
            BY <2>1, <4>5, <5>1, <5>2, <5>3, <5>4
        <4>10. a \o b = c
          BY <4>6, <4>7, <4>8, <4>9, SeqEqual
        <4>11. QED
          BY <3>3, <3>4, <3>6, <4>2, <4>3, <4>10
      <3>10. \A j \in 1..Len(h) : h[j].kind \in {amp, par}
        <4>1. PICK a, b \in Nat : a = Len(g) /\ b = Len(after)
          <5>1. g \in Seq(Token) /\ after \in Seq(Token)
            BY <3>3, <3>5
          <5>2. Len(g) \in Nat /\ Len(after) \in Nat
            BY <5>1
          <5>3. QED
            BY <5>2
        <4>2. ASSUME NEW j \in 1..a + b PROVE h[j].kind \in {amp, par}
          <5>1. h[j] = IF j <= a THEN g[j] ELSE after[j - a]
            BY <3>7, <4>1, <4>2
          <5>2. (j <= a /\ j \in 1..a) \/ (~(j <= a) /\ j - a \in 1..b)
            BY <4>1, <4>2
          <5>3. QED
            BY <3>3, <3>5, <4>1, <5>1, <5>2
        <4>3. QED
          BY <3>7, <4>1, <4>2
      <3>11. QED
        BY <3>7, <3>8, <3>9, <3>10
    <2>5. QED
      BY <2>3, <2>4
  <1>9. m \in [1..n -> Nat]
    OBVIOUS
  <1>10. 1..n \subseteq T
    <2>1. \A i \in 1..n : (\A j \in 1..n : m[j] < m[i] => j \in T) => i \in T
      <3> HIDE DEF Good
      <3>1. QED
        BY <1>8
    <2> HIDE DEF T, m
    <2>2. PICK D, M, U : D = 1..n /\ M = m /\ U = T
      OBVIOUS
    <2>3. M \in [D -> Nat] /\ \A i \in D : (\A j \in D : M[j] < M[i] => j \in U) => i \in U
      BY <1>9, <2>1, <2>2
    <2>4. D \subseteq U
      BY <2>3, SmallerFirst
    <2>5. QED
      BY <2>2, <2>4
  <1>11. PICK g \in Seq(Token) : Good(n, g)
    <2>1. n \in 1..n
      OBVIOUS
    <2>2. n \in T
      BY <1>10, <2>1
    <2> HIDE DEF Good
    <2>3. QED
      BY <2>2
  <1>12. FlattenSeq(seqs) = <<Tok(mark)>> \o g
    BY <1>2, <1>7, <1>11 DEF Joins
  <1>13. Pieces[g] = PiecesOf(query, n) /\ \A i \in 1..Len(g) : g[i].kind \in {amp, par}
    BY <1>3, <1>11 DEF PiecesOf
  <1>14. QED
    BY <1>1, <1>12, <1>13, Zenon DEF Follow

-----------------------------------------------------------------------------
(* What parse makes of the pieces                                          *)

(* An empty value is good, and stays empty.                                *)
LEMMA EmptyDecodes == <<>> \in Seq(Byte) /\ WellEscaped[<<>>] /\ Decoded[<<>>] = <<>>
  <1>1. <<>> \in Seq(Byte)
    OBVIOUS
  <1>2. WellEscaped[<<>>]
    BY <1>1, WellEscapedIs DEF WellEscapedAt
  <1>3. Decoded[<<>>] = <<>>
    BY <1>1, DecodedIs DEF DecodedAt
  <1>4. QED
    BY <1>1, <1>2, <1>3

\* A parameter without a key is left empty
Keyed(p) == p.key = "" => p.val = <<>>

UnescapedAt(piece, empty) ==
    IF piece = <<>> THEN [key |-> empty, val |-> <<>>, ok |-> TRUE]
    ELSE LET u == Unescape[<<piece[1].val, Len(piece[1].val), 1>>]
         IN  [key |-> piece[1].key, val |-> u.val, ok |-> u.ok]

(* What parse makes of a piece.                                            *)
LEMMA UnescapedIs ==
    ASSUME NEW p \in Parameter, Keyed(p), NEW u, u = Unescaped[PieceOf(p)]
    PROVE  /\ u.key = p.key
           /\ u.ok <=> WellEscaped[p.val]
           /\ u.ok => u.val = Decoded[p.val]
  <1>1. PICK q : q = PieceOf(p) /\ q \in Seq(Token)
    BY PieceOK
  <1>2. p.val \in Seq(Byte)
    BY DEF Parameter
  <1>3. PICK empty : empty = ""
    BY Zenon
  <1>4. q = IF p.key = empty THEN <<>> ELSE <<Param(p.key, p.val)>>
    BY <1>1, <1>3, Zenon DEF PieceOf
  <1>5. u = UnescapedAt(q, empty)
    <2>1. Unescaped = [piece \in Seq(Token) |-> UnescapedAt(piece, empty)]
      BY <1>3, Zenon DEF Unescaped, UnescapedAt
    <2>2. QED
      BY <1>1, <2>1
  <1>6. CASE p.key = empty
    <2>1. p.val = <<>>
      BY <1>3, <1>6, Zenon DEF Keyed
    <2>2. u = [key |-> empty, val |-> <<>>, ok |-> TRUE]
      BY <1>4, <1>5, <1>6 DEF UnescapedAt
    <2>3. u.key = p.key /\ u.ok /\ u.val = <<>>
      BY <1>6, <2>2
    <2>4. WellEscaped[p.val] /\ Decoded[p.val] = <<>>
      BY <2>1, EmptyDecodes
    <2>5. QED
      BY <2>3, <2>4, Zenon
  <1>7. CASE p.key # empty
    <2>1. q = <<Param(p.key, p.val)>>
      BY <1>4, <1>7
    <2>2. q # <<>> /\ q[1].key = p.key /\ q[1].val = p.val
      BY <2>1 DEF Param
    <2>3. PICK v : v = Unescape[<<p.val, Len(p.val), 1>>]
      OBVIOUS
    <2>4. u = [key |-> p.key, val |-> v.val, ok |-> v.ok]
      BY <1>5, <2>2, <2>3 DEF UnescapedAt
    <2>5. v = IF WellEscaped[p.val] THEN [val |-> Decoded[p.val], ok |-> TRUE]
              ELSE [val |-> <<>>, ok |-> FALSE]
      BY <1>2, <2>3, UnescapeDecodes
    <2>6. CASE WellEscaped[p.val]
      <3>1. u.key = p.key /\ u.ok /\ u.val = Decoded[p.val]
        BY <2>4, <2>5, <2>6
      <3>2. QED
        BY <2>6, <3>1, Zenon
    <2>7. CASE ~WellEscaped[p.val]
      <3>1. u.key = p.key /\ ~u.ok
        BY <2>4, <2>5, <2>7
      <3>2. QED
        BY <2>7, <3>1, Zenon
    <2>8. QED
      BY <2>6, <2>7
  <1>8. QED
    BY <1>6, <1>7

\* How many parameters parse looks at
Looked(n) == Min({n, MaxParams})

(* parse looks at no piece that is not there, and at one if there is one.  *)
LEMMA LookedOK ==
    ASSUME NEW n \in Nat
    PROVE  Looked(n) \in 0..n /\ (n > 0 => Looked(n) > 0) /\ (n = 0 => Looked(n) = 0)
  <1>1. PICK S : S = {n, MaxParams}
    OBVIOUS
  <1>2. \E x \in S : \A y \in S : x <= y
    BY <1>1, MaxParamsAssumption
  <1>3. PICK x : x = CHOOSE z \in S : \A y \in S : z <= y
    OBVIOUS
  <1>4. x \in S /\ \A y \in S : x <= y
    BY <1>2, <1>3
  <1>5. Looked(n) = x
    BY <1>1, <1>3 DEF Looked, Min
  <1>6. QED
    BY <1>1, <1>4, <1>5, MaxParamsAssumption

\* The last of n pieces is empty, and parse looks at it
CutOff(query, n) == n <= MaxParams /\ query[n].key = ""

\* The parameters a request asks with
AskedWith(query, n) ==
    [k \in 1..Looked(n) |-> [key |-> query[k].key, val |-> Decoded[query[k].val]]]

Escaped(query, n) == \A k \in 1..Looked(n) : WellEscaped[query[k].val]

ParamsAt(pieces) ==
    LET n == Min({Len(pieces), MaxParams})
        params == [k \in 1..n |-> Unescaped[pieces[k]]]
    IN  [ok |-> ~NilPiece(pieces) /\ \A k \in 1..n : params[k].ok,
         list |-> [k \in 1..n |-> [key |-> params[k].key, val |-> params[k].val]]]

(* parse accepts the pieces unless the last is empty or an escape is cut off,*)
(* and then it has the keys and the decoded values in their order.         *)
LEMMA ParamsIs ==
    ASSUME NEW n \in Nat \ {0}, NEW query \in [1..n -> Parameter], \A k \in 1..n : Keyed(query[k]),
           NEW params, params = Params[PiecesOf(query, n)]
    PROVE  /\ params.ok <=> ~CutOff(query, n) /\ Escaped(query, n)
           /\ params.ok => params.list = AskedWith(query, n)
  <1>1. PICK pieces : pieces = PiecesOf(query, n) /\ pieces = [k \in 1..n |-> PieceOf(query[k])]
    BY DEF PiecesOf
  <1>2. pieces \in Seq(Seq(Token)) /\ Len(pieces) = n
    <2>1. \A k \in 1..n : PieceOf(query[k]) \in Seq(Token)
      BY PieceOK
    <2>2. pieces \in [1..n -> Seq(Token)]
      BY <1>1, <2>1
    <2>3. pieces \in Seq(Seq(Token))
      BY <2>2, SeqDef
    <2>4. QED
      BY <2>2, <2>3
  <1>3. PICK m : m = Looked(n) /\ m \in 0..n
    BY LookedOK
  <1>4. PICK us : us = [k \in 1..m |-> Unescaped[pieces[k]]]
    OBVIOUS
  <1>5. params = [ok |-> ~NilPiece(pieces) /\ \A k \in 1..m : us[k].ok,
                  list |-> [k \in 1..m |-> [key |-> us[k].key, val |-> us[k].val]]]
    <2>1. Params = [ps \in Seq(Seq(Token)) |-> ParamsAt(ps)]
      BY Zenon DEF Params, ParamsAt
    <2>2. params = ParamsAt(pieces)
      BY <1>1, <1>2, <2>1
    <2>3. m = Min({Len(pieces), MaxParams})
      BY <1>2, <1>3 DEF Looked
    <2>4. QED
      BY <1>4, <2>2, <2>3, Zenon DEF ParamsAt
  <1>6. NilPiece(pieces) <=> CutOff(query, n)
    <2>1. Last(pieces) = PieceOf(query[n])
      BY <1>1, <1>2 DEF Last
    <2>2. PICK p : p = query[n] /\ p \in Parameter
      OBVIOUS
    <2>3. PieceOf(p) = <<>> <=> p.key = ""
      <3>1. <<Param(p.key, p.val)>> # <<>>
        OBVIOUS
      <3>2. QED
        BY <3>1 DEF PieceOf
    <2>4. QED
      BY <1>2, <2>1, <2>2, <2>3 DEF NilPiece, CutOff
  <1>7. ASSUME NEW k \in 1..m
        PROVE  /\ us[k].key = query[k].key
               /\ us[k].ok <=> WellEscaped[query[k].val]
               /\ us[k].ok => us[k].val = Decoded[query[k].val]
    <2>1. PICK p : p = query[k] /\ p \in Parameter /\ Keyed(p)
      BY <1>3
    <2>2. us[k] = Unescaped[PieceOf(p)]
      BY <1>1, <1>3, <1>4, <2>1
    <2>3. QED
      <3>1. PICK u : u = us[k]
        OBVIOUS
      <3>2. u = Unescaped[PieceOf(p)] /\ Keyed(p)
        BY <2>1, <2>2, <3>1
      <3>3. /\ u.key = p.key
            /\ u.ok <=> WellEscaped[p.val]
            /\ u.ok => u.val = Decoded[p.val]
        BY <2>1, <3>2, UnescapedIs, Zenon
      <3>4. QED
        BY <2>1, <3>1, <3>3, Zenon
  <1>8. params.ok <=> ~NilPiece(pieces) /\ \A k \in 1..m : us[k].ok
    <2>1. PICK ok, list : /\ ok = (~NilPiece(pieces) /\ \A k \in 1..m : us[k].ok)
                          /\ params = [ok |-> ok, list |-> list]
      BY <1>5, Zenon
    <2>2. params.ok = ok
      BY <2>1
    <2>3. QED
      BY <2>1, <2>2, Zenon
  <1>9. params.ok <=> /\ ~CutOff(query, n)
                      /\ \A k \in 1..m : WellEscaped[query[k].val]
    BY <1>6, <1>7, <1>8
  <1>10. ASSUME params.ok
         PROVE  params.list = [k \in 1..m |-> [key |-> query[k].key, val |-> Decoded[query[k].val]]]
    <2>1. \A k \in 1..m : us[k].key = query[k].key /\ us[k].val = Decoded[query[k].val]
      BY <1>7, <1>8, <1>10
    <2>2. params.list = [k \in 1..m |-> [key |-> us[k].key, val |-> us[k].val]]
      BY <1>5
    <2>3. QED
      BY <2>1, <2>2
  <1>11. QED
    BY <1>3, <1>9, <1>10, Zenon DEF AskedWith, Escaped

(* The answer a request asks for, in the terms of ParamsIs.                 *)
LEMMA MeantIs ==
    ASSUME NEW r, NEW n \in Nat, NEW query \in Seq(Parameter), query = r.query, n = Len(query),
           NEW get, get = "GET"
    PROVE  Meant(r) = IF r.method # get \/ (n # 0 /\ CutOff(query, n)) \/ ~Escaped(query, n)
                      THEN Plain(400)
                      ELSE Route(<<Path(r.path)>>, AskedWith(query, n))
  <1>1. PICK m : m = Looked(n) /\ m \in 0..n
    BY LookedOK
  <1>2. PICK asked : asked = SubSeq(query, 1, m)
    OBVIOUS
  <1>3. DOMAIN asked = 1..m /\ \A k \in 1..m : asked[k] = query[k]
    <2>1. \A k \in 1..m : query[k] \in Parameter
      BY <1>1, ElementOfSeq
    <2>2. 1 \in Int /\ m \in Int
      BY <1>1
    <2>3. /\ asked \in Seq(Parameter) /\ Len(asked) = IF 1 <= m THEN m - 1 + 1 ELSE 0
          /\ \A k \in 1..m - 1 + 1 : asked[k] = query[1 + k - 1]
      BY <1>2, <2>1, <2>2, SubSeqProperties
    <2>4. (IF 1 <= m THEN m - 1 + 1 ELSE 0) = m /\ m - 1 + 1 = m
      BY <1>1
    <2>5. \A k \in 1..m : 1 + k - 1 = k
      OBVIOUS
    <2>6. QED
      BY <2>3, <2>4, <2>5
  <1>4. PICK params : params = [k \in DOMAIN asked |->
                                   [key |-> asked[k].key, val |-> Decoded[asked[k].val]]]
    OBVIOUS
  <1>5. params = AskedWith(query, n)
    BY <1>1, <1>3, <1>4 DEF AskedWith
  <1>6. (\E k \in DOMAIN asked : ~WellEscaped[asked[k].val]) <=> ~Escaped(query, n)
    BY <1>1, <1>3 DEF Escaped
  <1>7. PICK cut : cut = (query # <<>> /\ n <= MaxParams /\ Last(query).key = "")
    BY Zenon
  <1>8. cut <=> n # 0 /\ CutOff(query, n)
    <2>1. Last(query) = query[n]
      BY DEF Last
    <2>2. query # <<>> <=> n # 0
      BY EmptySeq
    <2>3. QED
      BY <1>7, <2>1, <2>2, Zenon DEF CutOff
  <1>9. Meant(r) = IF \/ r.method # get \/ cut \/ \E k \in DOMAIN asked : ~WellEscaped[asked[k].val]
                   THEN Plain(400)
                   ELSE Route(<<Path(r.path)>>, params)
    BY <1>1, <1>2, <1>4, <1>7, Zenon DEF Meant, Looked
  <1>10. QED
    BY <1>5, <1>6, <1>8, <1>9, Zenon

-----------------------------------------------------------------------------
(* parse of a whole request                                                *)

\* The strings of a request, under names: the provers do better without them
Words(end, slash, mark, amp, get, par, way) ==
    /\ end = " HTTP/" /\ slash = " /" /\ mark = "?" /\ amp = "&"
    /\ get = "GET" /\ par = "param" /\ way = "path"

(* The strings of a request differ.                                        *)
LEMMA WordsOK ==
    ASSUME NEW end, NEW slash, NEW mark, NEW amp, NEW get, NEW par, NEW way,
           Words(end, slash, mark, amp, get, par, way)
    PROVE  /\ end \in Delimiter /\ slash \in Delimiter /\ mark \in Delimiter /\ amp \in Delimiter
           /\ get # slash /\ get # end /\ get # mark
           /\ way # slash /\ way # end /\ way # mark
           /\ slash # end /\ slash # mark /\ mark # end /\ amp # end /\ par # end
  <1>1. /\ end \in Delimiter /\ slash \in Delimiter /\ mark \in Delimiter /\ amp \in Delimiter
    BY Zenon DEF Words, Delimiter
  <1>2. get # slash /\ get # end /\ get # mark
    BY Zenon DEF Words
  <1>3. way # slash /\ way # end /\ way # mark
    BY Zenon DEF Words
  <1>4. slash # end /\ slash # mark /\ mark # end /\ amp # end /\ par # end
    BY Zenon DEF Words
  <1>5. QED
    BY <1>1, <1>2, <1>3, <1>4, Zenon

Tokens(r, query, end, slash) ==
    <<Tok(r.method), Tok(slash), Path(r.path)>> \o query \o <<Tok(end), Tok(r.headers)>>

\* Where the tokens are; query has l of them
Laid(data, r, query, l, end, slash, way) ==
    /\ data \in Seq(Token) /\ Len(data) = l + 5 /\ DOMAIN data = 1..l + 5
    /\ data[1] = Tok(r.method) /\ data[1].kind = r.method
    /\ data[2].kind = slash
    /\ data[3] = Path(r.path) /\ data[3].kind = way
    /\ \A i \in 1..l : data[3 + i] = query[i]
    /\ data[l + 4].kind = end

(* Each token is where it was rendered.                                     *)
LEMMA TokensAre ==
    ASSUME NEW r, r.method \in STRING, r.path \in STRING, r.headers \in STRING,
           NEW end \in Delimiter, NEW slash \in Delimiter, NEW way, way = "path",
           NEW query \in Seq(Token), NEW l, l = Len(query),
           NEW data, data = Tokens(r, query, end, slash)
    PROVE  Laid(data, r, query, l, end, slash, way)
  <1>1. PICK t1, t2, t3, t4, t5 : /\ t1 = Tok(r.method) /\ t2 = Tok(slash) /\ t3 = Path(r.path)
                                  /\ t4 = Tok(end) /\ t5 = Tok(r.headers)
    OBVIOUS
  <1>2. /\ t1 \in Token /\ t1.kind = r.method
        /\ t2 \in Token /\ t2.kind = slash
        /\ t4 \in Token /\ t4.kind = end
        /\ t5 \in Token
    BY <1>1, TokOK
  <1>3. t3 \in Token /\ t3.kind = way
    BY <1>1 DEF Path, Token
  <1>4. PICK a : a = <<t1, t2, t3>> /\ a \in Seq(Token) /\ Len(a) = 3
                  /\ a[1] = t1 /\ a[2] = t2 /\ a[3] = t3
    <2>1. LET b == <<t1, t2, t3>>
          IN  b \in Seq(Token) /\ Len(b) = 3 /\ b[1] = t1 /\ b[2] = t2 /\ b[3] = t3
      BY <1>2, <1>3
    <2>2. QED
      BY <2>1
  <1>5. PICK z : z = <<t4, t5>> /\ z \in Seq(Token) /\ Len(z) = 2 /\ z[1] = t4
    <2>1. LET b == <<t4, t5>> IN b \in Seq(Token) /\ Len(b) = 2 /\ b[1] = t4
      BY <1>2
    <2>2. QED
      BY <2>1
  <1>6. PICK n \in Nat : n = Len(query)
    OBVIOUS
  <1>7. PICK b : b = a \o query
    OBVIOUS
  <1>8. b \in Seq(Token) /\ Len(b) = 3 + n /\ \A i \in 1..3 + n : b[i] = IF i <= 3 THEN a[i] ELSE query[i - 3]
    BY <1>4, <1>6, <1>7, ConcatProperties
  <1>9. data = b \o z
    BY <1>1, <1>4, <1>5, <1>7 DEF Tokens
  <1>10. /\ data \in Seq(Token) /\ Len(data) = 3 + n + 2
         /\ \A i \in 1..3 + n + 2 : data[i] = IF i <= 3 + n THEN b[i] ELSE z[i - (3 + n)]
    BY <1>5, <1>8, <1>9, ConcatProperties
  <1>11. /\ 1 \in 1..3 + n /\ 2 \in 1..3 + n /\ 3 \in 1..3 + n
         /\ \A i \in 1..n : 3 + i \in 1..3 + n /\ ~(3 + i <= 3) /\ 3 + i - 3 = i
    BY <1>6
  <1>12. \A i \in 1..3 + n : data[i] = b[i]
    BY <1>6, <1>10
  <1>13. b[1] = t1 /\ b[2] = t2 /\ b[3] = t3
    BY <1>4, <1>8, <1>11
  <1>14. \A i \in 1..n : b[3 + i] = query[i]
    BY <1>8, <1>11
  <1>15. data[n + 4] = t4
    <2>1. n + 4 \in 1..3 + n + 2 /\ ~(n + 4 <= 3 + n) /\ n + 4 - (3 + n) = 1
      BY <1>6
    <2>2. QED
      BY <1>5, <1>10, <2>1
  <1>16. data[1] = t1 /\ data[2] = t2 /\ data[3] = t3 /\ \A i \in 1..n : data[3 + i] = query[i]
    BY <1>11, <1>12, <1>13, <1>14
  <1>17. 3 + n + 2 = l + 5 /\ DOMAIN data = 1..l + 5
    BY <1>6, <1>10
  <1>18. QED
    BY <1>1, <1>2, <1>3, <1>6, <1>10, <1>15, <1>16, <1>17 DEF Laid

(* Another method is refused, wherever else the delimiters are.             *)
LEMMA OtherMethod ==
    ASSUME NEW data \in Seq(Token), NEW n \in Nat, n = Len(data), n >= 2,
           NEW slash, data[2].kind = slash, data[1] # Tok("GET"), NEW u, NEW q
    PROVE  ParsedFrom(data, u, Index(data, slash), q) = InvalidParse
  <1>1. PICK m : m = Index(data, slash)
    OBVIOUS
  <1>2. DOMAIN data = 1..n
    OBVIOUS
  <1>3. m \in 1..2
    <2>1. /\ m \in 0..n
          /\ m = 0 => \A j \in 1..n : data[j].kind # slash
          /\ m # 0 => \A j \in 1..n : j < m => data[j].kind # slash
      BY <1>1, <1>2, IndexOK
    <2>2. 2 \in 1..n
      OBVIOUS
    <2>3. QED
      BY <2>1, <2>2
  <1>4. PICK tok : tok = Tok("GET") /\ data[1] # tok
    OBVIOUS
  <1>5. PICK get : get = SubSeq(data, 0 + 1, m - 1)
    OBVIOUS
  <1>6. get # <<tok>>
    <2>1. \A i \in 1..m - 1 : data[i] \in Token
      BY <1>3, ElementOfSeq
    <2>2. 0 + 1 \in Int /\ m - 1 \in Int
      BY <1>3
    <2>3. /\ Len(get) = IF 0 + 1 <= m - 1 THEN m - 1 - (0 + 1) + 1 ELSE 0
          /\ \A i \in 1..m - 1 - (0 + 1) + 1 : get[i] = data[0 + 1 + i - 1]
      <3>1. \A i \in 0 + 1..m - 1 : data[i] \in Token
        BY <2>1
      <3>2. QED
        BY <1>5, <2>2, <3>1, SubSeqProperties
    <2>4. CASE m = 1
      <3>1. Len(get) = 0
        BY <2>3, <2>4
      <3>2. Len(<<tok>>) = 1
        OBVIOUS
      <3>3. QED
        BY <3>1, <3>2
    <2>5. CASE m = 2
      <3>1. get[1] = data[1]
        BY <2>3, <2>5
      <3>2. <<tok>>[1] = tok
        OBVIOUS
      <3>3. QED
        BY <1>4, <3>1, <3>2
    <2>6. QED
      BY <1>3, <2>4, <2>5
  <1>7. QED
    BY <1>1, <1>4, <1>5, <1>6 DEF ParsedFrom

\* Where the delimiters of a GET are
Found(data, l, end, slash, mark) ==
    /\ Index(data, slash) = 2 /\ Index(data, end) = l + 4
    /\ l = 0 => ~HasQuery(Index(data, mark), l + 4)
    /\ l # 0 /\ data[4].kind = mark => Index(data, mark) = 4

(* The delimiters are where they were rendered: nothing before them looks  *)
(* like one.                                                               *)
LEMMA Delimited ==
    ASSUME NEW end, NEW slash, NEW mark, NEW amp, NEW get, NEW par, NEW way,
           Words(end, slash, mark, amp, get, par, way),
           NEW data, NEW l \in Nat, DOMAIN data = 1..l + 5,
           data[1].kind = get, data[2].kind = slash, data[3].kind = way,
           data[l + 4].kind = end,
           \A i \in 1..l : data[3 + i].kind \in {mark, amp, par}
    PROVE  Found(data, l, end, slash, mark)
  <1>1. /\ get # slash /\ get # end /\ get # mark
        /\ way # slash /\ way # end /\ way # mark
        /\ slash # end /\ slash # mark /\ mark # end /\ amp # end /\ par # end
    BY WordsOK
  <1>2. PICK n \in Nat : n = l + 5 /\ DOMAIN data = 1..n
    OBVIOUS
  <1>3. \A j \in 1..l + 3 : j = 1 \/ j = 2 \/ j = 3 \/ (j - 3 \in 1..l /\ 3 + (j - 3) = j)
    OBVIOUS
  <1>4. \A j \in 1..l + 3 : data[j].kind \in {get, slash, way, mark, amp, par}
    BY <1>3
  <1>5. Index(data, slash) = 2
    <2>1. 2 \in 1..n /\ \A j \in 1..n : j < 2 => data[j].kind # slash
      BY <1>1, <1>2
    <2>2. QED
      BY <1>2, <2>1, IndexIs
  <1>6. Index(data, end) = l + 4
    <2>1. PICK i \in 1..n : i = l + 4 /\ data[i].kind = end
      BY <1>2
    <2>2. ASSUME NEW j \in 1..n, j < i PROVE data[j].kind # end
      <3>1. j \in 1..l + 3
        BY <2>1, <2>2
      <3>2. QED
        BY <1>1, <1>4, <3>1
    <2>3. Index(data, end) = i
      BY <1>2, <2>1, <2>2, IndexIs
    <2>4. QED
      BY <2>1, <2>3
  <1>7. ASSUME l = 0 PROVE ~HasQuery(Index(data, mark), l + 4)
    <2>1. PICK i : i = Index(data, mark)
      OBVIOUS
    <2>2. i \in 0..n /\ (i # 0 => data[i].kind = mark)
      BY <1>2, <2>1, IndexOK
    <2>3. i \notin 1..4
      <3>1. i = 1 \/ i = 2 \/ i = 3 \/ i = 4 => data[i].kind # mark
        BY <1>1, <1>7
      <3>2. QED
        BY <2>2, <3>1
    <2>4. i = 0 \/ ~(i < l + 4)
      BY <1>2, <1>7, <2>2, <2>3
    <2>5. QED
      BY <2>1, <2>4 DEF HasQuery
  <1>8. ASSUME l # 0, data[4].kind = mark PROVE Index(data, mark) = 4
    <2>1. 4 \in 1..n /\ \A j \in 1..n : j < 4 => j = 1 \/ j = 2 \/ j = 3
      BY <1>2
    <2>2. \A j \in 1..n : j < 4 => data[j].kind # mark
      BY <1>1, <2>1
    <2>3. QED
      BY <1>2, <1>8, <2>1, <2>2, IndexIs
  <1>9. QED
    BY <1>5, <1>6, <1>7, <1>8 DEF Found

(* A slice of one token.                                                   *)
LEMMA OneToken ==
    ASSUME NEW data \in Seq(Token), NEW i \in 1..Len(data)
    PROVE  SubSeq(data, i, i) = <<data[i]>>
  <1>1. PICK n \in Nat : n = Len(data)
    OBVIOUS
  <1>2. i \in 1..n /\ i \in i..n /\ i + 1 \in Int /\ i \in Int
    BY <1>1
  <1>3. SubSeq(data, i, i) = <<data[i]>> \o SubSeq(data, i + 1, i)
    BY <1>1, <1>2, SubSeqRecursiveFirst
  <1>4. SubSeq(data, i + 1, i) = <<>>
    BY <1>2, SubSeqEmpty
  <1>5. <<data[i]>> \in Seq(Token)
    BY ElementOfSeq
  <1>6. <<data[i]>> \o <<>> = <<data[i]>>
    BY <1>5, ConcatEmptySeq
  <1>7. QED
    BY <1>3, <1>4, <1>6

(* What parse makes of a GET that asks for nothing, and of one that does.   *)
LEMMA GetWithout ==
    ASSUME NEW data \in Seq(Token), Len(data) = 5, data[1] = Tok("GET"), NEW q,
           NEW u, u = 4, ~HasQuery(q, u)
    PROVE  ParsedFrom(data, u, 2, q) = [ok |-> TRUE, path |-> <<data[3]>>, params |-> <<>>]
  <1>1. PICK get, way : /\ get = SubSeq(data, 0 + 1, 2 - 1) /\ way = SubSeq(data, 2 + 1, u - 1)
    OBVIOUS
  <1>2. 1 \in 1..Len(data) /\ 3 \in 1..Len(data) /\ 0 + 1 = 1 /\ 2 - 1 = 1 /\ 2 + 1 = 3 /\ u - 1 = 3
    OBVIOUS
  <1>3. SubSeq(data, 1, 1) = <<data[1]>> /\ SubSeq(data, 3, 3) = <<data[3]>>
    BY <1>2, OneToken
  <1>4. PICK tok : tok = Tok("GET") /\ data[1] = tok
    OBVIOUS
  <1>5. get = <<tok>> /\ way = <<data[3]>>
    BY <1>1, <1>2, <1>3, <1>4
  <1>6. PICK m : m = 2 /\ m # 0 /\ ~(u < m) /\ get = SubSeq(data, 0 + 1, m - 1)
                 /\ way = SubSeq(data, m + 1, u - 1)
    BY <1>1
  <1>7. ParsedFrom(data, u, m, q) = [ok |-> TRUE, path |-> way, params |-> <<>>]
    BY <1>4, <1>5, <1>6, Zenon DEF ParsedFrom
  <1>8. QED
    BY <1>5, <1>6, <1>7

\* What parse makes of a GET whose query has l tokens, the last of them query
ParsedWith(data, l, query, params, u) ==
    ParsedFrom(data, u, 2, 4) =
        IF ~params.ok THEN InvalidParse
        ELSE [ok |-> TRUE, path |-> <<data[3]>>, params |-> params.list]

(* The same of a GET that has a query.                                      *)
LEMMA GetWith ==
    ASSUME NEW data \in Seq(Token), NEW l \in Nat \ {0}, Len(data) = l + 5, data[1] = Tok("GET"),
           NEW query, query = SubSeq(data, 5, l + 3), NEW params, params = Params[Pieces[query]],
           NEW u, u = l + 4
    PROVE  ParsedWith(data, l, query, params, u)
  <1>1. PICK get, way, part : /\ get = SubSeq(data, 0 + 1, 2 - 1) /\ way = SubSeq(data, 2 + 1, 4 - 1)
                              /\ part = SubSeq(data, 4 + 1, u - 1)
    OBVIOUS
  <1>2. /\ 1 \in 1..Len(data) /\ 3 \in 1..Len(data) /\ 0 + 1 = 1 /\ 2 - 1 = 1 /\ 2 + 1 = 3 /\ 4 - 1 = 3
        /\ u - 1 = l + 3 /\ 4 + 1 = 5
    OBVIOUS
  <1>3. SubSeq(data, 1, 1) = <<data[1]>> /\ SubSeq(data, 3, 3) = <<data[3]>>
    BY <1>2, OneToken
  <1>4. PICK tok : tok = Tok("GET") /\ data[1] = tok
    OBVIOUS
  <1>5. get = <<tok>> /\ way = <<data[3]>> /\ part = query
    BY <1>1, <1>2, <1>3, <1>4
  <1>6. HasQuery(4, u)
    BY DEF HasQuery
  <1>7. 2 # 0 /\ ~(u < 2) /\ ~(4 < 2)
    OBVIOUS
  <1>8. PICK m, q : /\ m = 2 /\ q = 4 /\ m # 0 /\ ~(u < m) /\ ~(q < m) /\ HasQuery(q, u)
                    /\ get = SubSeq(data, 0 + 1, m - 1) /\ way = SubSeq(data, m + 1, q - 1)
                    /\ part = SubSeq(data, q + 1, u - 1)
    BY <1>1, <1>6, <1>7, Zenon
  <1>9. ParsedFrom(data, u, m, q) = IF ~params.ok THEN InvalidParse
               ELSE [ok |-> TRUE, path |-> way, params |-> params.list]
    BY <1>4, <1>5, <1>8, Zenon DEF ParsedFrom
  <1>10. QED
    BY <1>5, <1>8, <1>9 DEF ParsedWith

\* flat is a query: one token before each piece, and nothing where there is none
QueryLaid(flat, query, n, mark, amp, par) ==
    /\ flat \in Seq(Token) /\ \A i \in 1..Len(flat) : flat[i].kind \in {mark, amp, par}
    /\ IF n = 0 THEN Len(flat) = 0
       ELSE /\ Len(flat) # 0 /\ flat[1].kind = mark
            /\ Pieces[SubSeq(flat, 2, Len(flat))] = PiecesOf(query, n)

(* A query as it is rendered.                                               *)
LEMMA QueryTokensAre ==
    ASSUME NEW mark \in Delimiter, NEW amp \in Delimiter, amp = "&", NEW par, par = "param",
           NEW query \in Seq(Parameter), NEW n \in Nat, n = Len(query),
           NEW flat, flat = FlattenSeq(QueryTokens(query, mark, amp))
    PROVE  QueryLaid(flat, query, n, mark, amp, par)
  <1>1. PICK seqs : seqs = QueryTokens(query, mark, amp)
    OBVIOUS
  <1>2. DOMAIN query = 1..n /\ query \in [1..n -> Parameter]
    OBVIOUS
  <1>3. CASE n = 0
    <2>1. seqs = <<>>
      BY <1>1, <1>2, <1>3 DEF QueryTokens
    <2>2. flat = <<>>
      BY <1>1, <2>1 DEF FlattenSeq
    <2>3. Len(flat) = 0 /\ flat \in Seq(Token) /\ 1..Len(flat) = {}
      <3>1. Len(<<>>) = 0
        OBVIOUS
      <3>2. <<>> \in Seq(Token)
        OBVIOUS
      <3>3. 1..0 = {}
        OBVIOUS
      <3>4. QED
        BY <2>2, <3>1, <3>2, <3>3, Zenon
    <2>4. QED
      BY <1>3, <2>3, Zenon DEF QueryLaid
  <1>4. CASE n # 0
    <2>1. n \in Nat \ {0}
      BY <1>4
    <2>2. PICK g \in Seq(Token) : Follow(g, query, n, mark, amp, par)
      BY <1>2, <2>1, QueryIs
    <2>3. /\ flat = <<Tok(mark)>> \o g /\ Pieces[g] = PiecesOf(query, n)
          /\ \A i \in 1..Len(g) : g[i].kind \in {amp, par}
      BY <2>2, Zenon DEF Follow
    <2>4. PICK one : one = <<Tok(mark)>> /\ one \in Seq(Token) /\ Len(one) = 1 /\ one[1].kind = mark
      <3>1. PICK tok : tok = Tok(mark) /\ tok \in Token /\ tok.kind = mark
        BY TokOK
      <3>2. <<tok>> \in Seq(Token) /\ Len(<<tok>>) = 1 /\ <<tok>>[1].kind = mark
        BY <3>1
      <3>3. QED
        BY <3>1, <3>2
    <2>5. PICK l \in Nat : l = Len(g)
      BY <2>2
    <2>6. flat = one \o g
      BY <2>3, <2>4
    <2>7. /\ flat \in Seq(Token) /\ Len(flat) = 1 + l
          /\ \A i \in 1..1 + l : flat[i] = IF i <= 1 THEN one[i] ELSE g[i - 1]
      <3>1. /\ one \o g \in Seq(Token) /\ Len(one \o g) = Len(one) + Len(g)
            /\ \A i \in 1..Len(one) + Len(g) :
                  (one \o g)[i] = IF i <= Len(one) THEN one[i] ELSE g[i - Len(one)]
        BY <2>2, <2>4, ConcatProperties
      <3>2. QED
        BY <2>4, <2>5, <2>6, <3>1
    <2>8. \A i \in 1..1 + l : i = 1 \/ (~(i <= 1) /\ i - 1 \in 1..l)
      BY <2>5
    <2>9. flat[1].kind = mark
      BY <2>4, <2>7
    <2>10. \A i \in 1..1 + l : flat[i].kind \in {mark, amp, par}
      BY <2>3, <2>5, <2>7, <2>8, <2>9
    <2>11. SubSeq(flat, 2, Len(flat)) = g
      <3>1. PICK sub : sub = SubSeq(flat, 2, Len(flat))
        OBVIOUS
      <3>2. \A i \in 2..1 + l : flat[i] \in Token
        BY <2>7, ElementOfSeq
      <3>3. 2 \in Int /\ 1 + l \in Int
        OBVIOUS
      <3>4. /\ sub \in Seq(Token) /\ Len(sub) = (IF 2 <= 1 + l THEN 1 + l - 2 + 1 ELSE 0)
            /\ \A i \in 1..1 + l - 2 + 1 : sub[i] = flat[2 + i - 1]
        BY <2>7, <3>1, <3>2, <3>3, SubSeqProperties
      <3>5. (IF 2 <= 1 + l THEN 1 + l - 2 + 1 ELSE 0) = l /\ 1 + l - 2 + 1 = l
        OBVIOUS
      <3>6. ASSUME NEW i \in 1..l PROVE sub[i] = g[i]
        <4>1. PICK j \in 1..1 + l : j = 2 + i - 1 /\ ~(j <= 1) /\ j - 1 = i
          OBVIOUS
        <4>2. QED
          BY <2>7, <3>4, <3>5, <4>1
      <3>7. QED
        BY <2>2, <2>5, <3>1, <3>4, <3>5, <3>6, SeqEqual
    <2>12. Len(flat) # 0 /\ \A i \in 1..Len(flat) : flat[i].kind \in {mark, amp, par}
      BY <2>5, <2>7, <2>10
    <2>13. Pieces[SubSeq(flat, 2, Len(flat))] = PiecesOf(query, n)
      BY <2>3, <2>11, Zenon
    <2>14. QED
      BY <1>4, <2>7, <2>9, <2>12, <2>13, Zenon DEF QueryLaid
  <1>5. QED
    BY <1>3, <1>4

(* parse of a request that is not base64, or of what base64 stands for.     *)
LEMMA TokensParse ==
    ASSUME NEW r, IsRequest(r), NEW end, NEW slash, NEW mark, NEW amp, NEW get, NEW par, NEW way,
           Words(end, slash, mark, amp, get, par, way),
           NEW flat, flat = FlattenSeq(QueryTokens(r.query, mark, amp)),
           NEW data, data = Tokens(r, flat, end, slash)
    PROVE  /\ data \in Seq(Token) /\ Len(data) # 0 /\ data[1].kind = r.method
           /\ \E i \in DOMAIN data : data[i].kind = end
           /\ Answer(ParsedFrom(data, Index(data, end), Index(data, slash), Index(data, mark)))
                = Meant(r)
  <1>1. PICK query : query = r.query /\ query \in Seq(Parameter)
    BY Zenon DEF IsRequest
  <1>2. PICK n \in Nat : n = Len(query) /\ query \in [1..n -> Parameter]
    BY <1>1
  <1>3. \A k \in 1..n : Keyed(query[k])
    <2>1. DOMAIN query = 1..n
      BY <1>2
    <2>2. QED
      BY <1>1, <2>1, Zenon DEF IsRequest, Keyed
  <1>4. /\ amp = "&" /\ par = "param" /\ way = "path" /\ get = "GET"
    BY Zenon DEF Words
  <1>5. /\ end \in Delimiter /\ slash \in Delimiter /\ mark \in Delimiter /\ amp \in Delimiter
    BY WordsOK
  <1>6. r.method \in STRING /\ r.path \in STRING /\ r.headers \in STRING
    BY Zenon DEF IsRequest
  <1>7. /\ flat \in Seq(Token) /\ \A i \in 1..Len(flat) : flat[i].kind \in {mark, amp, par}
        /\ IF n = 0 THEN Len(flat) = 0
           ELSE /\ Len(flat) # 0 /\ flat[1].kind = mark
                /\ Pieces[SubSeq(flat, 2, Len(flat))] = PiecesOf(query, n)
    <2>1. flat = FlattenSeq(QueryTokens(query, mark, amp))
      BY <1>1, Zenon
    <2>2. QueryLaid(flat, query, n, mark, amp, par)
      BY <1>1, <1>2, <1>4, <1>5, <2>1, QueryTokensAre
    <2>3. QED
      BY <2>2, Zenon DEF QueryLaid
  <1>8. PICK l \in Nat : l = Len(flat)
    BY <1>7
  <1>9. /\ data \in Seq(Token) /\ Len(data) = l + 5 /\ DOMAIN data = 1..l + 5
        /\ data[1] = Tok(r.method) /\ data[1].kind = r.method
        /\ data[2].kind = slash
        /\ data[3] = Path(r.path) /\ data[3].kind = way
        /\ \A i \in 1..l : data[3 + i] = flat[i]
        /\ data[l + 4].kind = end
    <2>1. Laid(data, r, flat, l, end, slash, way)
      BY <1>4, <1>5, <1>6, <1>7, <1>8, TokensAre
    <2>2. QED
      BY <2>1, Zenon DEF Laid
  <1>10. Len(data) # 0 /\ \E i \in DOMAIN data : data[i].kind = end
    <2>1. l + 4 \in 1..l + 5 /\ l + 5 # 0
      OBVIOUS
    <2>2. QED
      BY <1>9, <2>1
  <1>11. Meant(r) = IF r.method # get \/ (n # 0 /\ CutOff(query, n)) \/ ~Escaped(query, n)
                    THEN Plain(400)
                    ELSE Route(<<Path(r.path)>>, AskedWith(query, n))
    BY <1>1, <1>2, <1>4, MeantIs
  <1>12. PICK parsed : parsed = ParsedFrom(data, Index(data, end), Index(data, slash), Index(data, mark))
    OBVIOUS
  <1>13. CASE r.method # get
    <2>1. data[1] # Tok("GET")
      <3>1. Tok(get).kind = get /\ Tok(r.method).kind = r.method
        BY DEF Tok
      <3>2. data[1] # Tok(get)
        BY <1>9, <1>13, <3>1
      <3>3. QED
        BY <1>4, <3>2, Zenon
    <2>2. PICK size \in Nat : size = Len(data) /\ size >= 2
      BY <1>9
    <2>3. parsed = InvalidParse
      BY <1>9, <1>12, <2>1, <2>2, OtherMethod
    <2>4. ~InvalidParse.ok
      BY DEF InvalidParse
    <2>5. Answer(parsed) = Plain(400)
      BY <2>3, <2>4, Zenon DEF Answer
    <2>6. QED
      BY <1>9, <1>10, <1>11, <1>12, <1>13, <2>5, Zenon
  <1>14. CASE r.method = get
    <2>1. data[1] = Tok("GET") /\ data[1].kind = get
      BY <1>4, <1>9, <1>14, Zenon
    <2>2. \A i \in 1..l : data[3 + i].kind \in {mark, amp, par}
      BY <1>7, <1>8, <1>9
    <2>3. /\ Index(data, slash) = 2 /\ Index(data, end) = l + 4
          /\ l = 0 => ~HasQuery(Index(data, mark), l + 4)
          /\ l # 0 /\ data[4].kind = mark => Index(data, mark) = 4
      <3>1. Found(data, l, end, slash, mark)
        BY <1>9, <2>1, <2>2, Delimited
      <3>2. QED
        BY <3>1, Zenon DEF Found
    <2>4. PICK u \in Nat : u = l + 4
      OBVIOUS
    <2>5. CASE n = 0
      <3>1. l = 0
        BY <1>7, <1>8, <2>5
      <3>2. PICK q : q = Index(data, mark)
        OBVIOUS
      <3>3. ~HasQuery(q, u) /\ u = 4 /\ Len(data) = 5
        BY <1>9, <2>3, <2>4, <3>1, <3>2
      <3>4. parsed = [ok |-> TRUE, path |-> <<data[3]>>, params |-> <<>>]
        <4>1. ParsedFrom(data, u, 2, q) = [ok |-> TRUE, path |-> <<data[3]>>, params |-> <<>>]
          BY <1>9, <2>1, <3>3, GetWithout
        <4>2. QED
          BY <1>12, <2>3, <2>4, <3>2, <4>1
      <3>5. Answer(parsed) = Route(<<Path(r.path)>>, <<>>)
        <4>1. parsed.ok /\ parsed.path = <<Path(r.path)>> /\ parsed.params = <<>>
          BY <1>9, <3>4
        <4>2. QED
          BY <4>1, Zenon DEF Answer
      <3>6. Looked(n) = 0
        BY <2>5, LookedOK
      <3>7. AskedWith(query, n) = <<>> /\ Escaped(query, n)
        BY <3>6 DEF AskedWith, Escaped
      <3>8. QED
        BY <1>9, <1>10, <1>11, <1>12, <1>14, <2>5, <3>5, <3>7, Zenon
    <2>6. CASE n # 0
      <3>1. l # 0 /\ flat[1].kind = mark
        BY <1>7, <1>8, <2>6
      <3>2. data[4] = flat[1]
        <4>1. 1 \in 1..l /\ 3 + 1 = 4
          BY <3>1
        <4>2. QED
          BY <1>9, <4>1
      <3>3. Index(data, mark) = 4
        BY <2>3, <3>1, <3>2
      <3>4. PICK sub : sub = SubSeq(flat, 2, l)
        OBVIOUS
      <3>5. sub = SubSeq(data, 5, l + 3)
        <4>1. PICK cut : cut = SubSeq(data, 5, l + 3)
          OBVIOUS
        <4>2. \A i \in 5..l + 3 : i \in 1..l + 5
          OBVIOUS
        <4>3. \A i \in 5..l + 3 : data[i] \in Token
          BY <1>9, <4>2, ElementOfSeq
        <4>4. 5 \in Int /\ l + 3 \in Int /\ 2 \in Int /\ l \in Int
          OBVIOUS
        <4>5. /\ cut \in Seq(Token) /\ Len(cut) = (IF 5 <= l + 3 THEN l + 3 - 5 + 1 ELSE 0)
              /\ \A i \in 1..l + 3 - 5 + 1 : cut[i] = data[5 + i - 1]
          BY <1>9, <4>1, <4>3, <4>4, SubSeqProperties
        <4>6. \A i \in 2..l : flat[i] \in Token
          BY <1>7, <1>8, ElementOfSeq
        <4>7. /\ sub \in Seq(Token) /\ Len(sub) = (IF 2 <= l THEN l - 2 + 1 ELSE 0)
              /\ \A i \in 1..l - 2 + 1 : sub[i] = flat[2 + i - 1]
          BY <1>7, <3>4, <4>4, <4>6, SubSeqProperties
        <4>8. PICK m \in Nat : m = l - 1 /\ l + 3 - 5 + 1 = m /\ l - 2 + 1 = m
                               /\ (IF 5 <= l + 3 THEN l + 3 - 5 + 1 ELSE 0) = m
                               /\ (IF 2 <= l THEN l - 2 + 1 ELSE 0) = m
          BY <3>1
        <4>9. ASSUME NEW i \in 1..m PROVE cut[i] = sub[i]
          <5>1. PICK j \in 1..l : j = 2 + i - 1 /\ 5 + i - 1 = 3 + j
            BY <4>8
          <5>2. cut[i] = data[3 + j] /\ sub[i] = flat[j]
            BY <4>5, <4>7, <4>8, <5>1
          <5>3. QED
            BY <1>9, <5>2
        <4>10. QED
          BY <4>1, <4>5, <4>7, <4>8, <4>9, SeqEqual
      <3>6. PICK params : params = Params[Pieces[sub]]
        OBVIOUS
      <3>7. params = Params[PiecesOf(query, n)]
        BY <1>7, <1>8, <2>6, <3>4, <3>6, Zenon
      <3>8. /\ params.ok <=> ~CutOff(query, n) /\ Escaped(query, n)
            /\ params.ok => params.list = AskedWith(query, n)
        <4>1. n \in Nat \ {0}
          BY <2>6
        <4>2. QED
          BY <1>2, <1>3, <3>7, <4>1, ParamsIs
      <3>11. parsed = IF ~params.ok THEN InvalidParse
                      ELSE [ok |-> TRUE, path |-> <<data[3]>>, params |-> params.list]
        <4>1. l \in Nat \ {0} /\ Len(data) = l + 5
          BY <1>9, <3>1
        <4>2. ParsedFrom(data, u, 2, 4) =
                 IF ~params.ok THEN InvalidParse
                 ELSE [ok |-> TRUE, path |-> <<data[3]>>, params |-> params.list]
          <5>1. ParsedWith(data, l, sub, params, u)
            BY <1>9, <2>1, <2>4, <3>5, <3>6, <4>1, GetWith
          <5>2. QED
            BY <5>1, Zenon DEF ParsedWith
        <4>3. QED
          BY <1>12, <2>3, <2>4, <3>3, <4>2
      <3>12. CASE ~params.ok
        <4>1. parsed = InvalidParse
          BY <3>11, <3>12, Zenon
        <4>2. ~InvalidParse.ok
          BY DEF InvalidParse
        <4>3. Answer(parsed) = Plain(400)
          BY <4>1, <4>2, Zenon DEF Answer
        <4>4. QED
          BY <1>9, <1>10, <1>11, <1>12, <2>6, <3>8, <3>12, <4>3, Zenon
      <3>13. CASE params.ok
        <4>1. parsed = [ok |-> TRUE, path |-> <<data[3]>>, params |-> params.list]
          BY <3>11, <3>13, Zenon
        <4>2. parsed.ok /\ parsed.path = <<Path(r.path)>> /\ parsed.params = params.list
          BY <1>9, <4>1
        <4>3. parsed.params = AskedWith(query, n)
          BY <3>8, <3>13, <4>2, Zenon
        <4>4. Answer(parsed) = Route(<<Path(r.path)>>, AskedWith(query, n))
          BY <4>2, <4>3, Zenon DEF Answer
        <4>5. QED
          BY <1>9, <1>10, <1>11, <1>12, <1>14, <2>6, <3>8, <3>13, <4>4, Zenon
      <3>14. QED
        BY <3>12, <3>13
    <2>7. QED
      BY <2>5, <2>6
  <1>15. QED
    BY <1>13, <1>14

(* What a request is rendered as.                                           *)
LEMMA RenderedIs ==
    ASSUME NEW r, NEW end, NEW slash, NEW mark, NEW amp, NEW get, NEW par, NEW way,
           Words(end, slash, mark, amp, get, par, way),
           NEW tokens, tokens = Tokens(r, FlattenSeq(QueryTokens(r.query, mark, amp)), end, slash)
    PROVE  Rendered(r) = IF r.base64 THEN [i \in DOMAIN tokens |-> Base64(tokens[i])] ELSE tokens
  BY Zenon DEF Words, Tokens, QueryTokens, PieceOf, Rendered

LEMMA MoreKinds ==
    ASSUME NEW S, NEW T, NEW s \in Seq(T)
    PROVE  s \in Seq(S \cup T)
  OBVIOUS

(* base64 is undone before anything is looked for.                          *)
LEMMA Base64Looks ==
    ASSUME NEW tokens \in Seq(Token), Len(tokens) # 0,
           NEW data, data = [i \in DOMAIN tokens |-> Base64(tokens[i])],
           NEW mark, mark = "base64"
    PROVE  /\ data \in Seq([kind : {mark}, of : Token]) /\ data # <<>> /\ data[1].kind = mark
           /\ LookedAt(data, Len(data)) = tokens
  <1>1. PICK n \in Nat : n = Len(tokens) /\ DOMAIN tokens = 1..n /\ n # 0
    OBVIOUS
  <1>2. \A i \in 1..n : data[i] \in [kind : {mark}, of : Token] /\ data[i].kind = mark
                        /\ data[i].of = tokens[i]
    <2>1. \A i \in 1..n : data[i] = [kind |-> mark, of |-> tokens[i]]
      BY <1>1 DEF Base64
    <2>2. \A i \in 1..n : tokens[i] \in Token
      BY <1>1
    <2>3. ASSUME NEW i \in 1..n
          PROVE  data[i] \in [kind : {mark}, of : Token] /\ data[i].kind = mark /\ data[i].of = tokens[i]
      <3>1. PICK tok : tok = tokens[i] /\ tok \in Token
        BY <2>2
      <3>2. PICK d : d = data[i] /\ d = [kind |-> mark, of |-> tok]
        BY <2>1, <3>1
      <3>3. d \in [kind : {mark}, of : Token] /\ d.kind = mark /\ d.of = tok
        BY <3>1, <3>2
      <3>4. QED
        BY <3>1, <3>2, <3>3
    <2>4. QED
      BY <2>3
  <1>3. data \in Seq([kind : {mark}, of : Token]) /\ Len(data) = n /\ DOMAIN data = 1..n
    <2>1. PICK E : E = [kind : {mark}, of : Token]
      OBVIOUS
    <2>2. data \in [1..n -> E]
      BY <1>1, <1>2, <2>1
    <2>3. data \in Seq(E)
      BY <2>2, SeqDef
    <2>4. QED
      BY <2>1, <2>2, <2>3
  <1>4. data # <<>> /\ data[1].kind = mark
    BY <1>1, <1>2, <1>3
  <1>5. PICK d : d = Decode64(data, n)
    OBVIOUS
  <1>6. DOMAIN d = 1..n /\ \A i \in 1..n : d[i] = tokens[i]
    BY <1>2, <1>3, <1>4, <1>5 DEF Decode64
  <1>7. SubSeq(d, 1, n) = tokens
    <2>1. \A i \in 1..n : d[i] \in Token
      BY <1>1, <1>6
    <2>2. d \in Seq(Token)
      <3>1. d = [i \in DOMAIN data |-> d[i]]
        BY <1>5 DEF Decode64
      <3>2. d \in [1..n -> Token]
        BY <1>3, <2>1, <3>1
      <3>3. QED
        BY <3>2, SeqDef
    <2>3. Len(d) = n
      BY <1>6, <2>2
    <2>4. d = tokens
      BY <1>1, <1>6, <2>2, <2>3, SeqEqual
    <2>5. QED
      BY <2>2, <2>3, <2>4, SubSeqFull
  <1>8. QED
    BY <1>3, <1>4, <1>5, <1>7 DEF LookedAt

(* Every request of the grammar, alone in the buffer, is parsed as it is     *)
(* meant: any method, path and headers, any number of parameters, any       *)
(* escapes in them, good or cut off, in base64 or not.                      *)
THEOREM EveryRequestParses ==
    ASSUME NEW r, IsRequest(r)
    PROVE  ParsesAlone(r)
  <1>1. PICK end, slash, mark, amp, get, par, way : Words(end, slash, mark, amp, get, par, way)
    BY Zenon DEF Words
  <1>2. PICK flat : flat = FlattenSeq(QueryTokens(r.query, mark, amp))
    OBVIOUS
  <1>3. PICK tokens : tokens = Tokens(r, flat, end, slash)
    OBVIOUS
  <1>4. /\ tokens \in Seq(Token) /\ Len(tokens) # 0 /\ tokens[1].kind = r.method
        /\ \E i \in DOMAIN tokens : tokens[i].kind = end
        /\ Answer(ParsedFrom(tokens, Index(tokens, end), Index(tokens, slash), Index(tokens, mark)))
             = Meant(r)
    BY <1>1, <1>2, <1>3, TokensParse
  <1>5. PICK data : data = Rendered(r)
    OBVIOUS
  <1>6. data = IF r.base64 THEN [i \in DOMAIN tokens |-> Base64(tokens[i])] ELSE tokens
    BY <1>1, <1>2, <1>3, <1>5, RenderedIs
  <1>7. PICK coded : coded = "base64"
    BY Zenon
  <1>8. r.method # coded
    BY <1>7, Zenon DEF IsRequest
  <1>9. SUFFICES /\ data \in Seq(Token \cup [kind : {coded}, of : Token])
                 /\ data # <<>> /\ SaysWhereItEnds(data)
                 /\ LookedAt(data, Len(data)) = tokens
    <2>1. Parse(data, Len(data)) = ParsedFrom(tokens, Index(tokens, end), Index(tokens, slash),
                                              Index(tokens, mark))
      <3>1. end = " HTTP/" /\ slash = " /" /\ mark = "?"
        BY <1>1, Zenon DEF Words
      <3>2. QED
        BY <1>9, <3>1, ParseIs, Zenon
    <2>2. QED
      BY <1>4, <1>5, <1>7, <1>9, <2>1, Zenon DEF ParsesAlone
  <1>10. CASE r.base64
    <2>1. data = [i \in DOMAIN tokens |-> Base64(tokens[i])]
      BY <1>6, <1>10, Zenon
    <2>2. /\ data \in Seq([kind : {coded}, of : Token]) /\ data # <<>> /\ data[1].kind = coded
          /\ LookedAt(data, Len(data)) = tokens
      BY <1>4, <1>7, <2>1, Base64Looks
    <2>3. data \in Seq(Token \cup [kind : {coded}, of : Token])
      BY <2>2, MoreKinds
    <2>4. SaysWhereItEnds(data)
      BY <1>7, <2>2, Zenon DEF SaysWhereItEnds
    <2>5. QED
      BY <2>2, <2>3, <2>4
  <1>11. CASE ~r.base64
    <2>1. data = tokens
      BY <1>6, <1>11, Zenon
    <2>2. data \in Seq(Token \cup [kind : {coded}, of : Token]) /\ data # <<>>
      BY <1>4, <2>1
    <2>3. \E i \in DOMAIN data : data[i].kind = " HTTP/"
      <3>1. end = " HTTP/"
        BY <1>1, Zenon DEF Words
      <3>2. QED
        BY <1>4, <2>1, <3>1, Zenon
    <2>4. SaysWhereItEnds(data)
      BY <2>3, Zenon DEF SaysWhereItEnds
    <2>5. data[1].kind # coded
      BY <1>4, <1>8, <2>1
    <2>6. LookedAt(data, Len(data)) = data
      BY <1>7, <2>5, Zenon DEF LookedAt
    <2>7. QED
      BY <2>1, <2>2, <2>4, <2>6
  <1>12. QED
    BY <1>10, <1>11

-----------------------------------------------------------------------------
(* From the request to its reply                                            *)

(* Nothing fits behind httpSuccessBytes.                                    *)
Full == HeaderCap = HeaderLen

Whole(c) == conn[c].data = Rendered(conn[c].req)

\* A client that has sent something has sent a request, and gets no reply before
Asked(c) ==
    /\ conn[c].data # <<>> => conn[c].req \in Requests /\ Sequence(conn[c].data)
    /\ conn[c].reply # None => /\ conn[c].data # <<>>
                               /\ Whole(c) => conn[c].reply = Fit(conn[c].req)

\* How far worker x is with the request of c
Reading(x, c) ==
    w[x].pc = "parse" =>
        \E rest : Sequence(rest) /\ w[x].buffer = conn[c].data \o rest

Getting(x, c) ==
    w[x].pc = "get" =>
        /\ w[x].do.body # None
        /\ Whole(c) => w[x].do.body = Meant(conn[c].req).body

Appending(x, c) ==
    w[x].pc = "append" =>
        /\ w[x].dict \in Dictionaries
        /\ Whole(c) => /\ Meant(conn[c].req).body # None
                       /\ buf[w[x].dict] = <<Meant(conn[c].req).body>>

Writing(x, c) ==
    w[x].pc = "write" /\ Whole(c) => w[x].out = Fit(conn[c].req)

InHand == {"parse", "get", "append", "write", "close"}

Handled(x) ==
    LET c == w[x].conn
    IN  /\ Sequence(w[x].buffer)
        /\ w[x].pc \in InHand =>
              /\ conn[c].data # <<>>
              /\ Reading(x, c) /\ Getting(x, c) /\ Appending(x, c) /\ Writing(x, c)

Answered == (\A c \in Conns : Asked(c)) /\ \A x \in Workers : Handled(x)

-----------------------------------------------------------------------------
\* The connection c keeps what came of it and what was answered
Unmoved(c) ==
    conn'[c].data = conn[c].data /\ conn'[c].req = conn[c].req /\ conn'[c].reply = conn[c].reply

LEMMA AskedStays ==
    ASSUME NEW c, Asked(c), Unmoved(c)
    PROVE  Asked(c)'
  BY DEF Asked, Unmoved, Whole

LEMMA HandledStays ==
    ASSUME NEW x, Handled(x), w'[x] = w[x],
           w[x].pc \in InHand => Unmoved(w[x].conn),
           w[x].pc = "append" => buf'[w[x].dict] = buf[w[x].dict]
    PROVE  Handled(x)'
  <1>1. Sequence(w'[x].buffer)
    BY DEF Handled
  <1>2. ASSUME w[x].pc \in InHand
        PROVE  /\ conn'[w[x].conn].data # <<>>
               /\ Reading(x, w[x].conn)' /\ Getting(x, w[x].conn)'
               /\ Appending(x, w[x].conn)' /\ Writing(x, w[x].conn)'
    <2>1. /\ conn'[w[x].conn].data = conn[w[x].conn].data
          /\ conn'[w[x].conn].req = conn[w[x].conn].req
      BY <1>2 DEF Unmoved
    <2>2. /\ conn[w[x].conn].data # <<>>
          /\ Reading(x, w[x].conn) /\ Getting(x, w[x].conn)
          /\ Appending(x, w[x].conn) /\ Writing(x, w[x].conn)
      BY <1>2 DEF Handled
    <2>3. Reading(x, w[x].conn)'
      BY <2>1, <2>2 DEF Reading
    <2>4. Getting(x, w[x].conn)'
      BY <2>1, <2>2 DEF Getting, Whole
    <2>5. Appending(x, w[x].conn)'
      BY <2>1, <2>2 DEF Appending, Whole
    <2>6. Writing(x, w[x].conn)'
      BY <2>1, <2>2 DEF Writing, Whole
    <2>7. QED
      BY <2>1, <2>2, <2>3, <2>4, <2>5, <2>6
  <1>3. QED
    BY <1>1, <1>2 DEF Handled

(* What parse makes of a request, and that its reply is one.                *)
LEMMA RequestIs ==
    ASSUME NEW r \in Requests
    PROVE  /\ Sequence(Rendered(r)) /\ Rendered(r) # <<>> /\ SaysWhereItEnds(Rendered(r))
           /\ Answer(Parse(Rendered(r), Len(Rendered(r)))) = Meant(r)
           /\ Fit(r) # None
  <1>1. IsRequest(r) /\ Fit(r) # None
    BY RequestsAssumption
  <1>2. ParsesAlone(r)
    BY <1>1, EveryRequestParses
  <1>3. QED
    BY <1>1, <1>2, Zenon DEF ParsesAlone, Sequence

(* The other workers go on with theirs: no two have one connection, or one  *)
(* dictionary.                                                              *)
LEMMA OthersOK ==
    ASSUME Owned, Placed, Answered, NEW x \in Workers, NEW l, w' = [w EXCEPT ![x] = l],
           \A c \in Conns : c # w[x].conn => Unmoved(c),
           \A d \in Dictionaries : d # w[x].dict /\ (\E y \in Workers : w[y].dict = d)
                                      => buf'[d] = buf[d]
    PROVE  w'[x] = l /\ \A y \in Workers \ {x} : Handled(y)'
  <1>1. w'[x] = l /\ \A y \in Workers \ {x} : w'[y] = w[y]
    BY DEF Owned, Shapes
  <1>2. ASSUME NEW y \in Workers \ {x} PROVE Handled(y)'
    <2>1. Handled(y)
      BY DEF Answered
    <2>2. w[y].pc \in InHand => Unmoved(w[y].conn)
      <3>1. w[y].pc \in InHand => w[y].conn \in Conns /\ w[y].conn # None
        BY NoneAssumption DEF Placed, Served, InHand, Serving
      <3>2. w[y].conn # None => w[y].conn # w[x].conn
        BY DEF Placed, Served
      <3>3. QED
        BY <3>1, <3>2
    <2>3. w[y].pc = "append" => buf'[w[y].dict] = buf[w[y].dict]
      <3>1. w[y].pc = "append" => w[y].dict \in Dictionaries
        BY <2>1 DEF Handled, InHand, Appending
      <3>2. w[y].dict \in Dictionaries => w[y].dict # w[x].dict
        BY NoneAssumption DEF Owned, DictionariesHaveOneOwner
      <3>3. QED
        BY <3>1, <3>2
    <2>4. QED
      BY <1>1, <2>1, <2>2, <2>3, HandledStays
  <1>3. QED
    BY <1>1, <1>2

(* A step of a worker that answers nobody.                                  *)
LEMMA StepOK ==
    ASSUME Owned, Placed, Answered, NEW x \in Workers, NEW l, w' = [w EXCEPT ![x] = l],
           \A c \in Conns : Unmoved(c), Handled(x)',
           \A d \in Dictionaries : d # w[x].dict /\ (\E y \in Workers : w[y].dict = d)
                                      => buf'[d] = buf[d]
    PROVE  Answered'
  <1>1. \A y \in Workers \ {x} : Handled(y)'
    BY OthersOK
  <1>2. \A c \in Conns : Asked(c)'
    BY AskedStays DEF Answered
  <1>3. QED
    BY <1>1, <1>2 DEF Answered

\* A worker that has nothing in hand
LEMMA IdleOK ==
    ASSUME NEW x, w'[x].pc \notin InHand, Sequence(w'[x].buffer)
    PROVE  Handled(x)'
  BY DEF Handled

-----------------------------------------------------------------------------
LEMMA InitAnswered == Init => Answered
  <1> SUFFICES ASSUME Init PROVE Answered
    OBVIOUS
  <1>1. Sequence(<<>>)
    BY DEF Sequence
  <1>2. \A c \in Conns : conn[c].data = <<>> /\ conn[c].reply = None
    BY NoConnFields DEF Init
  <1>3. \A x \in Workers : w[x].pc = "accept" /\ w[x].buffer = <<>>
    BY NoWorkFields DEF Init
  <1>4. QED
    BY <1>1, <1>2, <1>3 DEF Answered, Asked, Handled, InHand

\* What clients do to connections nobody has
LEMMA WaitOK ==
    ASSUME Answered, Placed, w' = w, buf' = buf,
           \A c \in Conns : Asked(c)' /\ (conn[c].data # <<>> => Unmoved(c) \/ conn[c].state = "queued")
    PROVE  Answered'
  <1>1. ASSUME NEW x \in Workers PROVE Handled(x)'
    <2>1. Handled(x)
      BY DEF Answered
    <2>2. w[x].pc \in InHand => Unmoved(w[x].conn)
      <3>1. w[x].pc \in InHand => w[x].conn \in Conns
        BY DEF Placed, Served, InHand, Serving
      <3>2. w[x].pc \in InHand => conn[w[x].conn].state = "open"
        BY <3>1 DEF Placed, Served
      <3>3. w[x].pc \in InHand => conn[w[x].conn].data # <<>>
        BY <2>1 DEF Handled
      <3>4. QED
        BY <3>1, <3>2, <3>3
    <2>3. QED
      BY <2>1, <2>2, HandledStays
  <1>2. QED
    BY <1>1 DEF Answered

LEMMA DialAnswered ==
    ASSUME Placed, Answered, NEW c \in Conns, Dial(c)
    PROVE  Answered'
  <1>1. w' = w /\ buf' = buf /\ conn' = [conn EXCEPT ![c].state = "queued"]
    BY DEF Dial, dictVars
  <1>2. \A d \in Conns : Unmoved(d)
    BY <1>1 DEF Placed, ConnShapes, ConnFields, Unmoved
  <1>3. QED
    BY <1>1, <1>2, AskedStays, WaitOK DEF Answered

LEMMA HangUpAnswered ==
    ASSUME Placed, Answered, NEW c \in Conns, HangUp(c)
    PROVE  Answered'
  <1>1. w' = w /\ buf' = buf /\ conn' = [conn EXCEPT ![c].gone = TRUE]
    BY DEF HangUp, dictVars
  <1>2. \A d \in Conns : Unmoved(d)
    BY <1>1 DEF Placed, ConnShapes, ConnFields, Unmoved
  <1>3. QED
    BY <1>1, <1>2, AskedStays, WaitOK DEF Answered

LEMMA SendAnswered ==
    ASSUME Placed, Answered, NEW c \in Conns, NEW r \in Requests, Send(c, r)
    PROVE  Answered'
  <1>1. PICK data : /\ data \in {Rendered(r), SubSeq(Rendered(r), 1, FirstSegment)}
                    /\ conn' = [conn EXCEPT ![c].req = r, ![c].data = data]
    BY DEF Send
  <1>2. w' = w /\ buf' = buf /\ conn[c].data = <<>>
    BY DEF Send, Silent, dictVars
  <1>3. Sequence(data)
    <2>1. CASE data = Rendered(r)
      BY <2>1, RequestIs
    <2>2. CASE data = SubSeq(Rendered(r), 1, FirstSegment)
      <3>1. PICK n \in Nat : n = FirstSegment
        BY SizesAssumption
      <3>2. data = [l \in 1..(n - 1 + 1) |-> Rendered(r)[1 + l - 1]]
        BY <2>2, <3>1, CutIs
      <3>3. data = [l \in 1..n |-> data[l]]
        BY <3>2
      <3>4. QED
        BY <3>3, BuiltOK
    <2>3. QED
      BY <1>1, <2>1, <2>2
  <1>4. /\ conn'[c].req = r /\ conn'[c].data = data /\ conn'[c].reply = conn[c].reply
        /\ \A d \in Conns \ {c} : Unmoved(d)
    BY <1>1 DEF Placed, ConnShapes, ConnFields, Unmoved
  <1>5. conn[c].reply = None
    BY <1>2 DEF Answered, Asked
  <1>6. Asked(c)'
    BY <1>3, <1>4, <1>5 DEF Asked
  <1>7. QED
    BY <1>2, <1>4, <1>6, AskedStays, WaitOK DEF Answered

LEMMA CloseListenerAnswered ==
    ASSUME Placed, Answered, CloseListener
    PROVE  Answered'
  <1>1. /\ w' = w /\ buf' = buf
        /\ conn' = [c \in Conns |-> IF conn[c].state = "queued" THEN Closed ELSE conn[c]]
    BY DEF CloseListener, dictVars
  <1>2. ASSUME NEW c \in Conns, conn[c].state = "queued" PROVE Asked(c)'
    <2>1. conn'[c].data = <<>> /\ conn'[c].reply = None
      BY <1>1, <1>2, NoConnFields
    <2>2. QED
      BY <2>1 DEF Asked
  <1>3. \A c \in Conns : conn[c].state # "queued" => Unmoved(c)
    BY <1>1 DEF Unmoved
  <1>4. QED
    BY <1>1, <1>2, <1>3, AskedStays, WaitOK DEF Answered

LEMMA AcceptAnswered ==
    ASSUME Owned, Placed, Answered, NEW x \in Workers, Accept(x)
    PROVE  Answered'
  <1>1. PICK l : l = [w[x] EXCEPT !.pc = "read", !.conn = Head(backlog)]
    OBVIOUS
  <1>2. /\ w' = [w EXCEPT ![x] = l] /\ buf' = buf
        /\ conn' = [conn EXCEPT ![Head(backlog)].state = "open"]
    BY <1>1 DEF Accept, dictVars, Owned, Shapes
  <1>3. \A c \in Conns : Unmoved(c)
    BY <1>2 DEF Placed, ConnShapes, ConnFields, Unmoved
  <1>4. w'[x] = l /\ l.pc = "read" /\ l.buffer = w[x].buffer
    BY <1>1, <1>2 DEF Owned, Shapes, Fields
  <1>5. Handled(x)'
    BY <1>4, IdleOK DEF Answered, Handled, InHand
  <1>6. QED
    BY <1>2, <1>3, <1>5, StepOK

LEMMA AcceptFailsAnswered ==
    ASSUME Owned, Placed, Answered, NEW x \in Workers, AcceptFails(x)
    PROVE  Answered'
  <1>1. PICK l : l = [w[x] EXCEPT !.pc = "done"]
    OBVIOUS
  <1>2. w' = [w EXCEPT ![x] = l] /\ buf' = buf /\ conn' = conn
    BY <1>1 DEF AcceptFails, connVars, dictVars, Owned, Shapes
  <1>3. \A c \in Conns : Unmoved(c)
    BY <1>2 DEF Unmoved
  <1>4. w'[x] = l /\ l.pc = "done" /\ l.buffer = w[x].buffer
    BY <1>1, <1>2 DEF Owned, Shapes, Fields
  <1>5. Handled(x)'
    BY <1>4, IdleOK DEF Answered, Handled, InHand
  <1>6. QED
    BY <1>2, <1>3, <1>5, StepOK

(* What is read is at the start of the buffer; the rest of it is old.       *)
LEMMA ReadAnswered ==
    ASSUME Owned, Placed, Answered, NEW x \in Workers, Read(x)
    PROVE  Answered'
  <1>1. PICK data, old : data = conn[w[x].conn].data /\ old = w[x].buffer
    OBVIOUS
  <1>2. PICK rest : rest = SubSeq(old, Len(data) + 1, Len(old))
    OBVIOUS
  <1>3. PICK l : l = [w[x] EXCEPT !.pc = "parse", !.buffer = data \o rest]
    OBVIOUS
  <1>4. /\ w' = [w EXCEPT ![x] = l] /\ conn' = conn /\ buf' = buf
        /\ w[x].pc = "read" /\ data # <<>>
    BY <1>1, <1>2, <1>3 DEF Read, connVars, dictVars, Owned, Shapes, Fields
  <1>5. w'[x] = l /\ l.pc = "parse" /\ l.buffer = data \o rest /\ l.conn = w[x].conn
    BY <1>3, <1>4 DEF Owned, Shapes, Fields
  <1>6. w[x].conn \in Conns
    BY <1>4 DEF Placed, Served, Serving
  <1>7. Sequence(data) /\ Sequence(old)
    BY <1>1, <1>4, <1>6 DEF Answered, Asked, Handled
  <1>8. Sequence(rest)
    <2>1. PICK n \in Nat : n = Len(data)
      BY <1>7, SequenceOK
    <2>2. PICK m \in Nat : m = Len(old)
      BY <1>7, SequenceOK
    <2>3. rest = [i \in 1..(m - (n + 1) + 1) |-> old[n + 1 + i - 1]]
      BY <1>2, <2>1, <2>2, CutIs
    <2>4. PICK k \in Nat : 1..k = 1..(m - (n + 1) + 1)
      <3>1. CASE n < m
        <4>1. m - (n + 1) + 1 \in Nat
          BY <3>1
        <4>2. QED
          BY <4>1
      <3>2. CASE ~(n < m)
        <4>1. 1..0 = 1..(m - (n + 1) + 1)
          BY <3>2
        <4>2. QED
          BY <4>1
      <3>3. QED
        BY <3>1, <3>2
    <2>5. rest = [i \in 1..k |-> rest[i]]
      BY <2>3, <2>4
    <2>6. QED
      BY <2>5, BuiltOK
  <1>9. \A c \in Conns : Unmoved(c)
    BY <1>4 DEF Unmoved
  <1>10. Handled(x)'
    <2>1. Sequence(l.buffer)
      BY <1>5, <1>7, <1>8, JoinedOK
    <2>2. Reading(x, w[x].conn)'
      BY <1>1, <1>4, <1>5, <1>8 DEF Reading
    <2>3. /\ Getting(x, w[x].conn)' /\ Appending(x, w[x].conn)' /\ Writing(x, w[x].conn)'
      BY <1>5 DEF Getting, Appending, Writing
    <2>4. QED
      BY <1>1, <1>4, <1>5, <2>1, <2>2, <2>3 DEF Handled
  <1>11. QED
    BY <1>4, <1>9, <1>10, StepOK

(* A request that came whole is parsed as if it were alone in the buffer.   *)
LEMMA ParseRequestAnswered ==
    ASSUME Owned, Placed, Answered, NEW x \in Workers, ParseRequest(x)
    PROVE  Answered'
  <1>1. PICK do, pc, out, b : ParsedAs(x, do, pc, out, b)
    BY ParseStep
  <1>2. PICK l : l = [w[x] EXCEPT !.pc = pc, !.do = do, !.out = out, !.buffer = b]
    OBVIOUS
  <1>3. w' = [w EXCEPT ![x] = l]
    BY <1>1, <1>2 DEF ParsedAs
  <1>4. conn' = conn /\ buf' = buf /\ w[x].pc = "parse"
    BY DEF ParseRequest, connVars, dictVars
  <1>5. /\ w'[x] = l /\ l.pc = pc /\ l.do = do /\ l.out = out /\ l.buffer = b
        /\ l.conn = w[x].conn
    BY <1>2, <1>3 DEF Owned, Shapes, Fields
  <1>6. PICK c \in Conns : c = w[x].conn
    BY <1>4 DEF Placed, Served, Serving
  <1>7. /\ Sequence(w[x].buffer) /\ conn[c].data # <<>>
        /\ \E rest : Sequence(rest) /\ w[x].buffer = conn[c].data \o rest
    BY <1>4, <1>6 DEF Answered, Handled, InHand, Reading
  <1>8. conn[c].req \in Requests /\ Sequence(conn[c].data)
    BY <1>7 DEF Answered, Asked
  <1>9. PICK n \in Nat : DOMAIN w[x].buffer = 1..n
    BY <1>7, SequenceOK
  <1>10. b = Decode64(w[x].buffer, Len(conn[c].data))
    BY <1>1, <1>6 DEF ParsedAs
  <1>11. Sequence(b)
    <2>1. b = [i \in 1..n |-> b[i]]
      BY <1>9, <1>10 DEF Decode64
    <2>2. QED
      BY <2>1, BuiltOK
  <1>12. ASSUME Whole(c) PROVE do = Meant(conn[c].req)
    <2>1. PICK rest : Sequence(rest) /\ w[x].buffer = conn[c].data \o rest
      BY <1>7
    <2>2. PICK s : s = conn[c].data
      OBVIOUS
    <2>3. s = Rendered(conn[c].req)
      BY <1>12, <2>2 DEF Whole
    <2>4. /\ Sequence(s) /\ s # <<>> /\ SaysWhereItEnds(s)
          /\ Answer(Parse(s, Len(s))) = Meant(conn[c].req)
      BY <1>8, <2>3, RequestIs
    <2>5. Parse(s \o rest, Len(s)) = Parse(s, Len(s))
      BY <2>1, <2>4, ParseAlone
    <2>6. do = Answer(Parse(s \o rest, Len(s)))
      BY <1>1, <1>6, <2>1, <2>2 DEF ParsedAs
    <2>7. QED
      BY <2>4, <2>5, <2>6
  <1>13. \A d \in Conns : Unmoved(d)
    BY <1>4 DEF Unmoved
  <1>14. /\ pc = IF do.body = None THEN "write" ELSE "get"
         /\ out = IF do.body = None THEN do.plain ELSE <<>>
    BY <1>1 DEF ParsedAs
  <1>15. Whole(c)' <=> Whole(c)
    BY <1>4 DEF Whole
  <1>16. Reading(x, c)' /\ Appending(x, c)'
    BY <1>5, <1>14 DEF Reading, Appending
  <1>17. Getting(x, c)'
    BY <1>4, <1>5, <1>12, <1>14, <1>15 DEF Getting
  <1>18. Writing(x, c)'
    BY <1>4, <1>5, <1>12, <1>14, <1>15 DEF Writing, Fit
  <1>19. Handled(x)'
    BY <1>4, <1>5, <1>6, <1>7, <1>11, <1>16, <1>17, <1>18 DEF Handled
  <1>20. QED
    BY <1>3, <1>4, <1>13, <1>19, StepOK

(* What a scrape began in a dictionary of its own is in no reply.           *)
LEMMA GetFirstAnswered ==
    ASSUME Owned, Placed, Answered, NEW x \in Workers, NEW d \in Dictionaries, GetFirst(x, d)
    PROVE  Answered'
  <1>1. PICK do : do = Dictionary(w[x].do.body)
    OBVIOUS
  <1>2. do.body = w[x].do.body
    BY <1>1 DEF Dictionary
  <1>3. PICK l : l = [w[x] EXCEPT !.do = do]
    OBVIOUS
  <1>4. w' = [w EXCEPT ![x] = l] /\ conn' = conn /\ w[x].pc = "get"
    BY <1>1, <1>3 DEF GetFirst, connVars, Owned, Shapes, Fields
  <1>5. /\ w'[x] = l /\ l.pc = "get" /\ l.do = do /\ l.buffer = w[x].buffer
        /\ l.conn = w[x].conn
    BY <1>3, <1>4 DEF Owned, Shapes, Fields
  <1>6. \A y \in Workers : w[y].dict # d
    BY PoolGetOK, NoneAssumption DEF GetFirst
  <1>7. PICK v : buf' = [buf EXCEPT ![d] = v]
    BY DEF GetFirst
  <1>8. \A e \in Dictionaries : (\E y \in Workers : w[y].dict = e) => buf'[e] = buf[e]
    BY <1>6, <1>7 DEF Owned, Shapes
  <1>9. \A c \in Conns : Unmoved(c)
    BY <1>4 DEF Unmoved
  <1>10. PICK c : c = w[x].conn
    OBVIOUS
  <1>11. Sequence(w[x].buffer) /\ conn[c].data # <<>> /\ Getting(x, c)
    BY <1>4, <1>10 DEF Answered, Handled, InHand
  <1>12. Whole(c)' <=> Whole(c)
    BY <1>4 DEF Whole
  <1>13. Getting(x, c)'
    BY <1>2, <1>4, <1>5, <1>11, <1>12 DEF Getting
  <1>14. Reading(x, c)' /\ Appending(x, c)' /\ Writing(x, c)'
    BY <1>5 DEF Reading, Appending, Writing
  <1>15. Handled(x)'
    BY <1>4, <1>5, <1>10, <1>11, <1>13, <1>14 DEF Handled
  <1>16. QED
    BY <1>4, <1>8, <1>9, <1>15, StepOK

(* The dictionary of the pool is empty, so that it has the body alone.      *)
LEMMA GetAnswered ==
    ASSUME Owned, Placed, Answered, NEW x \in Workers, NEW d \in Dictionaries, Get(x, d)
    PROVE  Answered'
  <1>1. PICK l : l = [w[x] EXCEPT !.dict = d, !.pc = "append"]
    OBVIOUS
  <1>2. w' = [w EXCEPT ![x] = l] /\ conn' = conn /\ w[x].pc = "get"
    BY <1>1 DEF Get, connVars, Owned, Shapes
  <1>3. /\ w'[x] = l /\ l.pc = "append" /\ l.dict = d /\ l.buffer = w[x].buffer
        /\ l.conn = w[x].conn
    BY <1>1, <1>2 DEF Owned, Shapes, Fields
  <1>4. \A y \in Workers : w[y].dict # d
    BY PoolGetOK, NoneAssumption DEF Get
  <1>5. buf' = [buf EXCEPT ![d] = <<w[x].do.body>>]
    <2>1. Got(d) = <<>>
      BY DEF Got, Owned, DictionariesHaveOneOwner
    <2>2. buf' = [buf EXCEPT ![d] = Append(Got(d), w[x].do.body)]
      BY DEF Get
    <2>3. Append(<<>>, w[x].do.body) = <<w[x].do.body>>
      OBVIOUS
    <2>4. QED
      BY <2>1, <2>2, <2>3
  <1>6. /\ buf'[d] = <<w[x].do.body>>
        /\ \A e \in Dictionaries : (\E y \in Workers : w[y].dict = e) => buf'[e] = buf[e]
    BY <1>4, <1>5 DEF Owned, Shapes
  <1>7. \A c \in Conns : Unmoved(c)
    BY <1>2 DEF Unmoved
  <1>8. PICK c : c = w[x].conn
    OBVIOUS
  <1>9. Sequence(w[x].buffer) /\ conn[c].data # <<>> /\ Getting(x, c)
    BY <1>2, <1>8 DEF Answered, Handled, InHand
  <1>10. Whole(c)' <=> Whole(c)
    BY <1>2 DEF Whole
  <1>11. Appending(x, c)'
    BY <1>2, <1>3, <1>6, <1>9, <1>10 DEF Getting, Appending
  <1>12. Reading(x, c)' /\ Getting(x, c)' /\ Writing(x, c)'
    BY <1>3 DEF Reading, Getting, Writing
  <1>13. Handled(x)'
    BY <1>2, <1>3, <1>8, <1>9, <1>11, <1>12 DEF Handled
  <1>14. QED
    BY <1>2, <1>6, <1>7, <1>13, StepOK

LEMMA AppendedOK ==
    ASSUME NEW b, NEW e
    PROVE  Append(<<b>>, e) = <<b, e>> /\ Len(Append(<<b>>, e)) = 2
  <1>1. PICK S : S = {b, e}
    OBVIOUS
  <1>2. <<b>> \in Seq(S) /\ Len(<<b>>) = 1 /\ <<b>>[1] = b
    BY <1>1
  <1>3. PICK q, t : q = Append(<<b>>, e) /\ t = <<b, e>>
    OBVIOUS
  <1>4. q \in Seq(S) /\ Len(q) = 2 /\ q[1] = b /\ q[2] = e
    BY <1>1, <1>2, <1>3, AppendProperties
  <1>5. q = [i \in 1..2 |-> q[i]]
    BY <1>4
  <1>6. t = [i \in 1..2 |-> t[i]] /\ t[1] = b /\ t[2] = e
    BY <1>3
  <1>7. \A i \in 1..2 : q[i] = t[i]
    BY <1>4, <1>6
  <1>8. QED
    BY <1>3, <1>4, <1>5, <1>6, <1>7

(* The array under httpSuccessBytes has no room: append makes a new one.    *)
LEMMA AppendBodyAnswered ==
    ASSUME Full, Owned, Placed, Answered, NEW x \in Workers, AppendBody(x)
    PROVE  Answered'
  <1>1. PICK body : body = Append(buf[w[x].dict], End)
    OBVIOUS
  <1>2. PICK out : out = IF HeaderLen + Len(body) <= HeaderCap THEN None ELSE body
    OBVIOUS
  <1>3. PICK l : l = [w[x] EXCEPT !.pc = "write", !.out = out]
    OBVIOUS
  <1>4. /\ w' = [w EXCEPT ![x].pc = "write", ![x].out = out]
        /\ buf' = [buf EXCEPT ![w[x].dict] = body]
        /\ conn' = conn /\ w[x].pc = "append"
    BY <1>1, <1>2 DEF AppendBody, connVars
  <1>5. w' = [w EXCEPT ![x] = l]
    BY <1>3, <1>4 DEF Owned, Shapes
  <1>6. /\ w'[x] = l /\ l.pc = "write" /\ l.out = out /\ l.buffer = w[x].buffer
        /\ l.conn = w[x].conn
    BY <1>3, <1>5 DEF Owned, Shapes, Fields
  <1>7. PICK c \in Conns : c = w[x].conn
    BY <1>4 DEF Placed, Served, Serving
  <1>8. Sequence(w[x].buffer) /\ conn[c].data # <<>> /\ Appending(x, c)
    BY <1>4, <1>7 DEF Answered, Handled, InHand
  <1>9. \A d \in Conns : Unmoved(d)
    BY <1>4 DEF Unmoved
  <1>10. \A d \in Dictionaries : d # w[x].dict => buf'[d] = buf[d]
    BY <1>4 DEF Owned, Shapes
  <1>11. ASSUME Whole(c) PROVE out = Fit(conn[c].req)
    <2>1. PICK b : b = Meant(conn[c].req).body
      OBVIOUS
    <2>2. b # None /\ buf[w[x].dict] = <<b>>
      BY <1>4, <1>8, <1>11, <2>1 DEF Appending
    <2>3. body = <<b, End>> /\ Len(body) = 2
      BY <1>1, <2>2, AppendedOK
    <2>4. HeaderLen \in Nat /\ HeaderCap = HeaderLen
      BY SizesAssumption DEF Full
    <2>5. ~(HeaderLen + Len(body) <= HeaderCap)
      BY <2>3, <2>4
    <2>6. out = <<b, End>>
      BY <1>2, <2>3, <2>5
    <2>7. QED
      BY <2>1, <2>2, <2>6 DEF Fit
  <1>12. Whole(c)' <=> Whole(c)
    BY <1>4 DEF Whole
  <1>13. Writing(x, c)'
    BY <1>4, <1>6, <1>11, <1>12 DEF Writing
  <1>14. Reading(x, c)' /\ Getting(x, c)' /\ Appending(x, c)'
    BY <1>6 DEF Reading, Getting, Appending
  <1>15. Handled(x)'
    BY <1>4, <1>6, <1>7, <1>8, <1>13, <1>14 DEF Handled
  <1>16. QED
    BY <1>5, <1>9, <1>10, <1>15, StepOK

LEMMA WriteAnswered ==
    ASSUME Owned, Placed, Answered, NEW x \in Workers, Write(x)
    PROVE  Answered'
  <1>1. PICK r : r = IF w[x].out = None THEN spare ELSE w[x].out
    OBVIOUS
  <1>2. PICK l : l = [w[x] EXCEPT !.pc = "close"]
    OBVIOUS
  <1>3. /\ w' = [w EXCEPT ![x] = l] /\ buf' = buf /\ w[x].pc = "write"
        /\ conn' = [conn EXCEPT ![w[x].conn].reply = r]
    BY <1>1, <1>2 DEF Write, dictVars, Owned, Shapes
  <1>4. /\ w'[x] = l /\ l.pc = "close" /\ l.buffer = w[x].buffer /\ l.conn = w[x].conn
    BY <1>2, <1>3 DEF Owned, Shapes, Fields
  <1>5. PICK c \in Conns : c = w[x].conn
    BY <1>3 DEF Placed, Served, Serving
  <1>6. /\ conn'[c].data = conn[c].data /\ conn'[c].req = conn[c].req /\ conn'[c].reply = r
        /\ \A d \in Conns \ {c} : Unmoved(d)
    BY <1>3, <1>5 DEF Placed, ConnShapes, ConnFields, Unmoved
  <1>7. Sequence(w[x].buffer) /\ conn[c].data # <<>> /\ Writing(x, c)
    BY <1>3, <1>5 DEF Answered, Handled, InHand
  <1>8. conn[c].req \in Requests /\ Sequence(conn[c].data)
    BY <1>7 DEF Answered, Asked
  <1>9. Whole(c) => r = Fit(conn[c].req)
    <2>1. Fit(conn[c].req) # None
      BY <1>8, RequestIs
    <2>2. Whole(c) => w[x].out = Fit(conn[c].req)
      BY <1>3, <1>7 DEF Writing
    <2>3. QED
      BY <1>1, <2>1, <2>2
  <1>10. Whole(c)' <=> Whole(c)
    BY <1>6 DEF Whole
  <1>11. Asked(c)'
    BY <1>6, <1>7, <1>8, <1>9, <1>10 DEF Asked
  <1>12. \A d \in Conns : Asked(d)'
    BY <1>6, <1>11, AskedStays DEF Answered
  <1>13. Handled(x)'
    <2>1. Reading(x, c)' /\ Getting(x, c)' /\ Appending(x, c)' /\ Writing(x, c)'
      BY <1>4 DEF Reading, Getting, Appending, Writing
    <2>2. QED
      BY <1>4, <1>5, <1>6, <1>7, <2>1 DEF Handled
  <1>14. \A y \in Workers \ {x} : Handled(y)'
    <2>1. \A d \in Conns : d # w[x].conn => Unmoved(d)
      BY <1>5, <1>6
    <2>2. QED
      BY <1>3, <2>1, OthersOK
  <1>15. QED
    BY <1>12, <1>13, <1>14 DEF Answered

LEMMA CloseAnswered ==
    ASSUME Owned, Placed, Answered, NEW x \in Workers, w[x].pc \in Serving, Close(x),
           \A d \in Dictionaries : d # w[x].dict => buf'[d] = buf[d]
    PROVE  Answered'
  <1>1. PICK c \in Conns : c = w[x].conn
    BY DEF Placed, Served
  <1>2. PICK l : l = NoWork(w[x].buffer)
    OBVIOUS
  <1>3. w' = [w EXCEPT ![x] = l] /\ conn' = [conn EXCEPT ![c] = Closed]
    BY <1>1, <1>2 DEF Close
  <1>4. w'[x] = l /\ l.pc = "accept" /\ l.buffer = w[x].buffer
    BY <1>2, <1>3, NoWorkFields DEF Owned, Shapes
  <1>5. conn'[c] = Closed /\ \A d \in Conns \ {c} : Unmoved(d)
    BY <1>3 DEF Placed, ConnShapes, Unmoved
  <1>6. Asked(c)'
    <2>1. conn'[c].data = <<>> /\ conn'[c].reply = None
      BY <1>5, NoConnFields
    <2>2. QED
      BY <2>1 DEF Asked
  <1>7. \A d \in Conns : Asked(d)'
    BY <1>5, <1>6, AskedStays DEF Answered
  <1>8. Handled(x)'
    BY <1>4, IdleOK DEF Answered, Handled, InHand
  <1>9. \A y \in Workers \ {x} : Handled(y)'
    <2>1. \A d \in Conns : d # w[x].conn => Unmoved(d)
      BY <1>1, <1>5
    <2>2. QED
      BY <1>3, <2>1, OthersOK
  <1>10. QED
    BY <1>7, <1>8, <1>9 DEF Answered

LEMMA WorkAnswered ==
    ASSUME Full, Owned, Placed, Answered, NEW x \in Workers, Work(x)
    PROVE  Answered'
  <1>1. CASE ReadFails(x)
    <2>1. w[x].pc \in Serving /\ Close(x) /\ buf' = buf
      BY <1>1 DEF ReadFails, Serving, dictVars
    <2>2. QED
      BY <2>1, CloseAnswered
  <1>2. CASE Finish(x)
    <2>1. w[x].pc \in Serving /\ Close(x)
      BY <1>2 DEF Finish, Serving
    <2>2. \A d \in Dictionaries : d # w[x].dict => buf'[d] = buf[d]
      BY <1>2 DEF Finish
    <2>3. QED
      BY <2>1, <2>2, CloseAnswered
  <1>3. QED
    BY <1>1, <1>2, AcceptAnswered, AcceptFailsAnswered, ReadAnswered, ParseRequestAnswered,
       GetFirstAnswered, GetAnswered, AppendBodyAnswered, WriteAnswered DEF Work

LEMMA NextAnswered == Full /\ Owned /\ Placed /\ Answered /\ [Next]_vars => Answered'
  <1> SUFFICES ASSUME Full, Owned, Placed, Answered, [Next]_vars PROVE Answered'
    OBVIOUS
  <1>1. ASSUME UNCHANGED <<conn, w, buf>> PROVE Answered'
    <2>1. \A c \in Conns : Unmoved(c)
      BY <1>1 DEF Unmoved
    <2>2. QED
      BY <1>1, <2>1, AskedStays, WaitOK DEF Answered
  <1>2. CASE UNCHANGED vars
    BY <1>1, <1>2 DEF vars, connVars, dictVars
  <1>3. CASE PublishLoad \/ PublishStore
    BY <1>1, <1>3 DEF PublishLoad, PublishStore, connVars, dictVars
  <1>4. CASE \E c \in Conns : Dial(c) \/ HangUp(c) \/ \E r \in Requests : Send(c, r)
    BY <1>4, DialAnswered, HangUpAnswered, SendAnswered
  <1>5. CASE CloseListener
    BY <1>5, CloseListenerAnswered
  <1>6. CASE \E x \in Workers : Work(x)
    BY <1>6, WorkAnswered
  <1>7. QED
    BY <1>2, <1>3, <1>4, <1>5, <1>6 DEF Next

(* A request that came whole is answered as it asks, though the worker reads *)
(* it over earlier ones, into a buffer that it looks through to the end, and *)
(* though every other worker writes to dictionaries of the same pool.  The    *)
(* one hypothesis is that the global httpSuccessBytes has no room behind it. *)
THEOREM RepliesFit == HeaderCap = HeaderLen => (Spec => []RepliesFitRequests)
  <1>1. Answered => RepliesFitRequests
    BY DEF Answered, Asked, Whole, RepliesFitRequests
  <1>2. SUFFICES ASSUME Full PROVE Spec => []RepliesFitRequests
    BY DEF Full
  <1>3. Owned /\ Placed /\ Answered /\ [Next]_vars => Answered'
    BY <1>2, NextAnswered
  <1>4. QED
    BY <1>1, <1>3, InitOwned, NextOwned, InitPlaced, NextPlaced, InitAnswered, PTL DEF Spec
=============================================================================
