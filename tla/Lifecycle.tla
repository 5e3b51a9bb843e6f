----------------------------- MODULE Lifecycle -----------------------------
(***************************************************************************)
(* The life of the tracker process: Run starts the trackers step by step   *)
(* while the signal handler already listens, saves go to conn.db, an exit  *)
(* hands a shutdown to each tracker's Serve, and the next process loads    *)
(* what was saved (tracker/tracker.go, tracker/signalhandler.go,           *)
(* tracker/udp/udptracker.go, tracker/udp/conndb.go,                       *)
(* tracker/http/httptracker.go).                                           *)
(*                                                                         *)
(*   enabled  the trackers the configuration turns on                      *)
(*   main     the program counter of Run, "dead" when there is no process  *)
(*   handler  program counter and locals of signalHandler; early and known *)
(*            are history: whether it acts before an enabled tracker can   *)
(*            hear of it, and the connections when it took the signal      *)
(*   serve    where the goroutine of each tracker's Serve is               *)
(*   chan     whether the tracker's shutdown channel is made               *)
(*   pending  the signal channel, of one place                             *)
(*   conns    UDPTracker.conndb: NoDb (nil), or the clients that have an id*)
(*   data     what loadFromFile has read of conn.db                        *)
(*   file     conn.db                                                      *)
(*   kept     history: the clients whose ids a save that ended holds       *)
(*                                                                         *)
(* Ids do not expire here (UdpTracker has that), and the peer database is  *)
(* one step of the handler (Backup has its file).  The handler reads       *)
(* shutdown and conndb without a lock while Init assigns them: a read that *)
(* comes late is the same as one that was made earlier.                    *)
(***************************************************************************)
CONSTANTS Clients, NoDb

ASSUME NoDbAssumption == \A clients \in SUBSET Clients : clients # NoDb

VARIABLES enabled, main, handler, serve, chan, pending, conns, data, file, kept

vars == <<enabled, main, handler, serve, chan, pending, conns, data, file, kept>>

Trackers == {"http", "udp"}

\* What a gob-encoded file decodes to; a file that is absent or cut does not
Whole(clients) == [whole |-> TRUE, clients |-> clients]
Torn == [whole |-> FALSE, clients |-> {}]

NoHandler == [pc |-> "none", exit |-> FALSE, early |-> FALSE, known |-> {}, out |-> {}]

Init ==
    /\ enabled \in SUBSET Trackers
    /\ main = "dead"
    /\ handler = NoHandler
    /\ serve = [t \in Trackers |-> "off"]
    /\ chan = [t \in Trackers |-> FALSE]
    /\ pending = "none"
    /\ conns = NoDb
    /\ data = Torn /\ file = Torn /\ kept = {}

\* The process is gone with all it had in memory
Gone ==
    /\ main' = "dead"
    /\ handler' = NoHandler
    /\ serve' = [t \in Trackers |-> "off"]
    /\ chan' = [t \in Trackers |-> FALSE]
    /\ pending' = "none"
    /\ conns' = NoDb
    /\ data' = Torn

-----------------------------------------------------------------------------
(* Run                                                                     *)

Start ==
    /\ main = "dead"
    /\ main' = "open"
    /\ UNCHANGED <<enabled, handler, serve, chan, pending, conns, data, file, kept>>

\* storage.Open and pools.Initialize, then go signalHandler
RunHandler ==
    /\ main = "open"
    /\ main' = "http"
    /\ handler' = [handler EXCEPT !.pc = "notify"]
    /\ UNCHANGED <<enabled, serve, chan, pending, conns, data, file, kept>>

\* Mutant of RunHTTP: Serve runs without Init
RunHTTPNoInit ==
    /\ main = "http"
    /\ main' = "udp"
    /\ serve' = [serve EXCEPT !["http"] = IF "http" \in enabled THEN "listen" ELSE @]
    /\ UNCHANGED <<enabled, handler, chan, pending, conns, data, file, kept>>

\* HTTPTracker.Init, go Serve
RunHTTP ==
    /\ main = "http"
    /\ main' = "udp"
    /\ IF "http" \in enabled
       THEN /\ chan' = [chan EXCEPT !["http"] = TRUE]
            /\ serve' = [serve EXCEPT !["http"] = "listen"]
       ELSE UNCHANGED <<chan, serve>>
    /\ UNCHANGED <<enabled, handler, pending, conns, data, file, kept>>

\* UDPTracker.Init: newConnectionDatabase
RunUDP ==
    /\ main = "udp"
    /\ IF "udp" \in enabled THEN main' = "chan" /\ conns' = {}
       ELSE main' = "running" /\ conns' = conns
    /\ UNCHANGED <<enabled, handler, serve, chan, pending, data, file, kept>>

RunUDPChan ==
    /\ main = "chan"
    /\ main' = "read"
    /\ chan' = [chan EXCEPT !["udp"] = TRUE]
    /\ UNCHANGED <<enabled, handler, serve, pending, conns, data, file, kept>>

\* os.ReadFile, and gobDecode makes an empty map and starts to fill it
LoadRead ==
    /\ main = "read"
    /\ main' = "decode"
    /\ data' = file
    /\ UNCHANGED <<enabled, handler, serve, chan, pending, conns, file, kept>>

\* gobDecode is done, or failed and Init makes an empty map; go Serve
LoadDecode ==
    /\ main = "decode"
    /\ main' = "running"
    /\ conns' = data.clients
    /\ data' = Torn
    /\ serve' = [serve EXCEPT !["udp"] = "listen"]
    /\ UNCHANGED <<enabled, handler, chan, pending, file, kept>>

Main == RunHandler \/ RunHTTP \/ RunUDP \/ RunUDPChan \/ LoadRead \/ LoadDecode

-----------------------------------------------------------------------------
(* Serve, of either tracker                                                *)

\* The socket is bound and the goroutine at <-shutdown
Listen(t) ==
    /\ serve[t] = "listen"
    /\ serve' = [serve EXCEPT ![t] = "serving"]
    /\ UNCHANGED <<enabled, main, handler, chan, pending, conns, data, file, kept>>

\* The address is taken: Logger.Fatal.  Whatever is being written is cut.
ListenFails(t) ==
    /\ serve[t] = "listen"
    /\ Gone
    /\ UNCHANGED <<enabled, file, kept>>

\* conndb.add for a connect that was received before the socket was closed
Connect(client) ==
    /\ serve["udp"] \in {"serving", "stopped"}
    /\ conns' = conns \cup {client}
    /\ UNCHANGED <<enabled, main, handler, serve, chan, pending, data, file, kept>>

-----------------------------------------------------------------------------
(* signalHandler                                                           *)

At(pc) == handler.pc = pc
Goto(pc) == handler' = [handler EXCEPT !.pc = pc]

\* Before Notify a signal kills the process; after it, a signal that finds
\* the channel full is dropped
Signal(sig) ==
    /\ main # "dead"
    /\ IF handler.pc \in {"none", "notify"} THEN Gone
       ELSE /\ pending' = IF pending = "none" THEN sig ELSE pending
            /\ UNCHANGED <<main, handler, serve, chan, conns, data>>
    /\ UNCHANGED <<enabled, file, kept>>

Notify ==
    /\ At("notify")
    /\ Goto("wait")
    /\ UNCHANGED <<enabled, main, serve, chan, pending, conns, data, file, kept>>

Unserved == {t \in enabled : serve[t] \in {"off", "listen"}}

\* sig := <-signalChannel
Take ==
    /\ At("wait")
    /\ pending # "none"
    /\ pending' = "none"
    /\ handler' = [handler EXCEPT
                     !.pc = IF pending = "exit" THEN "udp" ELSE "db",
                     !.exit = pending = "exit",
                     !.early = pending = "save" /\ Unserved # {},
                     !.known = IF conns = NoDb THEN {} ELSE conns]
    /\ UNCHANGED <<enabled, main, serve, chan, conns, data, file, kept>>

\* Mutants of Shutdown: no test for nil, so that the send blocks for ever;
\* a send that does not wait for Serve
ShutdownNoTest(t, next) ==
    /\ At(t)
    /\ chan[t] /\ serve[t] = "serving"
    /\ serve' = [serve EXCEPT ![t] = "stopped"]
    /\ Goto(next)
    /\ UNCHANGED <<enabled, main, chan, pending, conns, data, file, kept>>

ShutdownNoWait(t, next) ==
    /\ At(t)
    /\ handler' = [handler EXCEPT !.pc = next, !.early = @ \/ (~chan[t] /\ t \in enabled)]
    /\ serve' = [serve EXCEPT ![t] = IF @ = "serving" THEN "stopped" ELSE @]
    /\ UNCHANGED <<enabled, main, chan, pending, conns, data, file, kept>>

\* Shutdown: nothing to do for a nil channel, else the send waits for Serve to
\* receive.  The socket is closed after that, by Serve.
Shutdown(t, next) ==
    /\ At(t)
    /\ IF ~chan[t]
       THEN /\ handler' = [handler EXCEPT !.pc = next, !.early = @ \/ t \in enabled]
            /\ UNCHANGED serve
       ELSE /\ serve[t] = "serving"
            /\ serve' = [serve EXCEPT ![t] = "stopped"]
            /\ Goto(next)
    /\ UNCHANGED <<enabled, main, chan, pending, conns, data, file, kept>>

\* peerdb.Backup().Save()
SaveDatabase ==
    /\ At("db")
    /\ Goto("conns")
    /\ UNCHANGED <<enabled, main, serve, chan, pending, conns, data, file, kept>>

\* gobEncode, in WriteConns.  It has the mutex, which gobDecode does not take:
\* it may meet a map that is being filled, or kill the process.
Encode ==
    /\ At("conns")
    /\ IF conns = NoDb THEN Goto("end") /\ UNCHANGED <<main, serve, chan, pending, conns, data>>
       ELSE \/ /\ \E out \in IF main = "decode" THEN SUBSET data.clients ELSE {conns} :
                     handler' = [handler EXCEPT !.pc = "truncate", !.out = out]
               /\ UNCHANGED <<main, serve, chan, pending, conns, data>>
            \/ main = "decode" /\ Gone
    /\ UNCHANGED <<enabled, file, kept>>

\* os.WriteFile opens the file with O_TRUNC; an early save promises nothing
Truncate ==
    /\ At("truncate")
    /\ Goto("write")
    /\ file' = Torn
    /\ kept' = IF handler.early THEN {} ELSE kept
    /\ UNCHANGED <<enabled, main, serve, chan, pending, conns, data>>

Write ==
    /\ At("write")
    /\ Goto("end")
    /\ file' = Whole(handler.out)
    /\ kept' = IF handler.early THEN {} ELSE kept \cup handler.known
    /\ UNCHANGED <<enabled, main, serve, chan, pending, conns, data>>

\* Mutant of End: the loop goes on after an exit signal
EndGoesOn ==
    /\ At("end")
    /\ handler' = [NoHandler EXCEPT !.pc = "wait"]
    /\ UNCHANGED <<enabled, main, serve, chan, pending, conns, data, file, kept>>

\* os.Exit, or the next turn of the loop
End ==
    /\ At("end")
    /\ IF handler.exit THEN Gone
       ELSE /\ handler' = [NoHandler EXCEPT !.pc = "wait"]
            /\ UNCHANGED <<main, serve, chan, pending, conns, data>>
    /\ UNCHANGED <<enabled, file, kept>>

Handler ==
    \/ Notify \/ Take \/ Shutdown("udp", "http") \/ Shutdown("http", "db")
    \/ SaveDatabase \/ Encode \/ Truncate \/ Write \/ End

-----------------------------------------------------------------------------
\* SIGKILL, or a crash
Kill ==
    /\ main # "dead"
    /\ Gone
    /\ kept' = IF At("write") THEN {} ELSE kept
    /\ UNCHANGED <<enabled, file>>

Next ==
    \/ Start \/ Main \/ Handler \/ Kill
    \/ \E t \in Trackers : Listen(t) \/ ListenFails(t)
    \/ \E client \in Clients : Connect(client)
    \/ \E sig \in {"exit", "save"} : Signal(sig)

Spec == Init /\ [][Next]_vars

(* Each goroutine of the process gets to run. *)
FairSpec ==
    /\ Spec
    /\ WF_vars(Main) /\ WF_vars(Handler)
    /\ \A t \in Trackers : WF_vars(Listen(t) \/ ListenFails(t))

-----------------------------------------------------------------------------
TypeOK ==
    /\ enabled \subseteq Trackers
    /\ main \in {"dead", "open", "http", "udp", "chan", "read", "decode", "running"}
    /\ handler.pc \in {"none", "notify", "wait", "udp", "http", "db", "conns",
                       "truncate", "write", "end"}
    /\ handler \in [pc : {handler.pc}, exit : BOOLEAN, early : BOOLEAN,
                    known : SUBSET Clients, out : SUBSET Clients]
    /\ serve \in [Trackers -> {"off", "listen", "serving", "stopped"}]
    /\ chan \in [Trackers -> BOOLEAN]
    /\ \A t \in Trackers : serve[t] # "off" => t \in enabled /\ chan[t]
    /\ pending \in {"none", "exit", "save"}
    /\ conns = NoDb \/ conns \subseteq Clients
    /\ {data, file} \subseteq [whole : BOOLEAN, clients : SUBSET Clients]
    /\ kept \subseteq Clients

(* A client whose id a save has written is known to every later process:    *)
(* through restarts, kills outside the write of the file, trackers that     *)
(* cannot bind, and saves that come while others are under way.  What makes *)
(* it hold is that Shutdown waits for Serve, so that WriteConns never meets *)
(* a database that is still being loaded.  It is given up for a signal that *)
(* finds an enabled tracker without its channel, or a save before Serve has *)
(* its socket.                                                              *)
SavedConnsSurvive ==
    /\ main = "dead" => kept \subseteq file.clients
    /\ main = "running" /\ "udp" \in enabled => kept \subseteq conns

(* A stop signal that the channel took ends the process, whatever is turned *)
(* on and however far the start is: no Shutdown waits for a tracker that    *)
(* will never hear of it.                                                   *)
StopEndsProcess == pending = "exit" ~> main = "dead"

-----------------------------------------------------------------------------
Phase ==
    IF main = "dead" THEN "dead"
    ELSE IF handler.exit THEN "exiting"
    ELSE IF main = "running" /\ Unserved = {} THEN "serving"
    ELSE "starting"

Process == INSTANCE TrackerProcess
    WITH Processes <- {"tracker"}, phase <- [p \in {"tracker"} |-> Phase]

(* The process is what its controllers take it for: once it exits it does   *)
(* nothing else, and it does end.                                           *)
IsTrackerProcess == Process!Spec
=============================================================================
