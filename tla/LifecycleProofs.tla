--------------------------- MODULE LifecycleProofs ---------------------------
(***************************************************************************)
(* For any clients and any configuration: connection ids that a save has   *)
(* written reach every later process.                                      *)
(***************************************************************************)
EXTENDS Lifecycle, TLAPS

Served == {"serving", "stopped"}

(* Where Run is says what is there of the UDP tracker, and a tracker that   *)
(* serves is never started again.                                           *)
Stages ==
    /\ main = "dead" => handler.pc = "none"
    /\ main \in {"dead", "open", "http"} => serve["http"] = "off"
    /\ main # "running" => serve["udp"] = "off"
    /\ main \in {"chan", "read", "decode"} => "udp" \in enabled /\ conns = {}
    /\ main \in {"read", "decode"} => chan["udp"]
    /\ conns # NoDb <=> "udp" \in enabled /\ main \in {"chan", "read", "decode", "running"}

(* A handler that is not early has waited for every tracker before it saves,*)
(* and what it is about to write has everything that must be kept.          *)
Waited ==
    ~handler.early =>
        /\ At("http") /\ "udp" \in enabled => serve["udp"] \in Served
        /\ handler.pc \in {"db", "conns", "truncate", "write"} =>
              \A t \in enabled : serve[t] \in Served
        /\ handler.pc \in {"truncate", "write"} =>
              "udp" \in enabled /\ kept \cup handler.known \subseteq handler.out

(* The ids to be kept are in the file, in what was read of it, or in memory.*)
Kept ==
    /\ handler.known \subseteq (IF conns = NoDb THEN {} ELSE conns)
    /\ At("write") /\ handler.early => kept = {}
    /\ ~At("write") => kept \subseteq file.clients
    /\ main = "decode" => kept \subseteq data.clients
    /\ main = "running" /\ "udp" \in enabled => kept \subseteq conns

(* SavedConnsSurvive says nothing of the states between a kill and the end  *)
(* of the next load, nor of a save that is under way: Waited and Kept do.   *)
IInv == TypeOK /\ Stages /\ Waited /\ Kept

-----------------------------------------------------------------------------
(* A process that is gone leaves what must be kept in the file, if nothing  *)
(* was cut that counts.                                                     *)
LEMMA GoneOK ==
    ASSUME IInv, Gone, UNCHANGED <<enabled, file>>,
           kept' = {} \/ (kept' = kept /\ kept \subseteq file.clients)
    PROVE  IInv'
  <1> USE DEF IInv, Gone, NoHandler, Torn, Trackers
  <1>1. TypeOK'
    BY DEF TypeOK
  <1>2. Stages' /\ Waited'
    BY DEF Stages, Waited, At
  <1>3. Kept'
    BY DEF Kept, At, TypeOK
  <1>4. QED
    BY <1>1, <1>2, <1>3

(* Outside the write of a save that waited, the file has what must be kept. *)
LEMMA KeptInFile ==
    ASSUME IInv, handler.pc # "write" \/ \E t \in Trackers : serve[t] = "listen"
    PROVE  kept \subseteq file.clients
  BY DEF IInv, TypeOK, Stages, Waited, Kept, At, Served

(* The steps of Run.                                                        *)
LEMMA MainOK == ASSUME IInv, Start \/ Main PROVE IInv'
  <1> USE NoDbAssumption DEF IInv, Stages, Waited, Kept, Served, At, Torn, Trackers
  <1>1. CASE Start
    BY <1>1 DEF Start, TypeOK
  <1>2. CASE RunHandler
    BY <1>2 DEF RunHandler, TypeOK
  <1>3. CASE RunHTTP
    <2>1. CASE "http" \in enabled
      <3>1. /\ chan' = [chan EXCEPT !["http"] = TRUE]
            /\ serve' = [serve EXCEPT !["http"] = "listen"]
            /\ main = "http" /\ main' = "udp"
            /\ UNCHANGED <<enabled, handler, pending, conns, data, file, kept>>
        BY <1>3, <2>1 DEF RunHTTP
      <3>2. /\ chan' \in [Trackers -> BOOLEAN]
            /\ serve' \in [Trackers -> {"off", "listen", "serving", "stopped"}]
            /\ \A t \in Trackers : serve'[t] # "off" => t \in enabled /\ chan'[t]
        BY <3>1, <2>1 DEF TypeOK
      <3>3. TypeOK'
        BY <3>1, <3>2 DEF TypeOK
      <3>4. QED
        BY <3>1, <3>3, <2>1 DEF TypeOK
    <2>2. CASE "http" \notin enabled
      BY <1>3, <2>2 DEF RunHTTP, TypeOK
    <2>3. QED
      BY <2>1, <2>2
  <1>4. CASE RunUDP
    BY <1>4 DEF RunUDP, TypeOK
  <1>5. CASE RunUDPChan
    BY <1>5 DEF RunUDPChan, TypeOK
  <1>6. CASE LoadRead
    BY <1>6 DEF LoadRead, TypeOK
  <1>7. CASE LoadDecode
    BY <1>7 DEF LoadDecode, TypeOK
  <1>8. QED
    BY <1>1, <1>2, <1>3, <1>4, <1>5, <1>6, <1>7 DEF Main

(* The steps of the trackers, and of those who kill the process.            *)
LEMMA TrackersOK ==
    ASSUME IInv,
           \/ \E t \in Trackers : Listen(t) \/ ListenFails(t)
           \/ \E client \in Clients : Connect(client)
           \/ \E sig \in {"exit", "save"} : Signal(sig)
           \/ Kill
    PROVE  IInv'
  <1> USE DEF IInv, Stages, Waited, Kept, Served, At
  <1>1. ASSUME NEW t \in Trackers, Listen(t) PROVE IInv'
    BY <1>1, NoDbAssumption DEF Listen, TypeOK, Trackers
  <1>2. ASSUME NEW t \in Trackers, ListenFails(t) PROVE IInv'
    BY <1>2, GoneOK, KeptInFile DEF ListenFails
  <1>3. ASSUME NEW client \in Clients, Connect(client) PROVE IInv'
    BY <1>3, NoDbAssumption DEF Connect, TypeOK, Trackers
  <1>4. ASSUME NEW sig \in {"exit", "save"}, Signal(sig) PROVE IInv'
    <2>1. CASE handler.pc \in {"none", "notify"}
      BY <1>4, <2>1, GoneOK DEF Signal
    <2>2. CASE handler.pc \notin {"none", "notify"}
      BY <1>4, <2>2 DEF Signal, TypeOK
    <2>3. QED
      BY <2>1, <2>2
  <1>5. CASE Kill
    BY <1>5, GoneOK DEF Kill
  <1>6. QED
    BY <1>1, <1>2, <1>3, <1>4, <1>5

(* The steps of the signal handler: Shutdown and Take are where it waits or *)
(* turns early, Truncate and Write where the file changes.                  *)
LEMMA ShutdownOK ==
    ASSUME IInv, NEW t \in Trackers, NEW next \in {"http", "db"}, Shutdown(t, next),
           t = "udp" <=> next = "http"
    PROVE  IInv'
  <1> USE DEF IInv, Stages, Waited, Kept, Served, At, Goto, Trackers, Shutdown
  <1>1. CASE ~chan[t]
    <2>1. CASE t \in enabled
      <3>1. handler' = [handler EXCEPT !.pc = next, !.early = TRUE]
        BY <1>1, <2>1 DEF TypeOK
      <3>2. QED
        BY <1>1, <2>1, <3>1 DEF TypeOK
    <2>2. CASE t \notin enabled
      <3>1. handler' = [handler EXCEPT !.pc = next]
        BY <1>1, <2>2 DEF TypeOK
      <3>2. QED
        BY <1>1, <2>2, <3>1 DEF TypeOK
    <2>3. QED
      BY <2>1, <2>2
  <1>2. CASE chan[t]
    BY <1>2 DEF TypeOK
  <1>3. QED
    BY <1>1, <1>2

LEMMA EncodeOK == ASSUME IInv, Encode PROVE IInv'
  <1> USE DEF IInv, Stages, Waited, Kept, Served, At, Goto
  <1>1. CASE Gone
    BY <1>1, GoneOK DEF Encode
  <1>2. CASE conns = NoDb /\ ~Gone
    BY <1>2 DEF Encode, TypeOK
  <1>3. CASE conns # NoDb /\ ~Gone
    <2>1. PICK out \in IF main = "decode" THEN SUBSET data.clients ELSE {conns} :
             handler' = [handler EXCEPT !.pc = "truncate", !.out = out]
      BY <1>3 DEF Encode
    <2>2. UNCHANGED <<enabled, main, serve, chan, pending, conns, data, file, kept>>
      BY <1>3 DEF Encode
    <2>3. out \subseteq Clients
      BY <2>1, <1>3 DEF TypeOK
    <2>4. ~handler.early => out = conns /\ kept \cup handler.known \subseteq conns
      BY <2>1, <1>3 DEF Encode, TypeOK
    <2>5. QED
      BY <1>3, <2>1, <2>2, <2>3, <2>4 DEF Encode, TypeOK
  <1>4. QED
    BY <1>1, <1>2, <1>3

LEMMA HandlerOK == ASSUME IInv, Handler PROVE IInv'
  <1> USE NoDbAssumption DEF IInv, Stages, Waited, Kept, Served, At, Goto
  <1>1. CASE Notify
    BY <1>1 DEF Notify, TypeOK
  <1>2. CASE Take
    <2>1. TypeOK' /\ Stages' /\ Kept'
      BY <1>2 DEF Take, TypeOK
    <2>2. CASE pending = "exit"
      BY <1>2, <2>1, <2>2 DEF Take, TypeOK
    <2>3. CASE pending = "save"
      <3>1. handler'.early = (Unserved # {})
        BY <1>2, <2>3 DEF Take, TypeOK
      <3>2. handler'.pc = "db" /\ UNCHANGED <<enabled, serve>>
        BY <1>2, <2>3 DEF Take, TypeOK
      <3>3. Unserved = {} => \A t \in enabled : serve[t] \in Served
        BY DEF Unserved, TypeOK, Trackers
      <3>4. QED
        BY <2>1, <3>1, <3>2, <3>3
    <2>4. QED
      BY <1>2, <2>2, <2>3 DEF Take, TypeOK
  <1>3. CASE Shutdown("udp", "http") \/ Shutdown("http", "db")
    BY <1>3, ShutdownOK DEF Trackers
  <1>4. CASE SaveDatabase
    BY <1>4 DEF SaveDatabase, TypeOK
  <1>5. CASE Encode
    BY <1>5, EncodeOK
  <1>6. CASE Truncate
    BY <1>6 DEF Truncate, TypeOK, Torn
  <1>7. CASE Write
    BY <1>7 DEF Write, TypeOK, Whole
  <1>8. CASE End
    <2>1. CASE handler.exit
      BY <1>8, <2>1, GoneOK DEF End
    <2>2. CASE ~handler.exit
      <3>1. handler' = [pc |-> "wait", exit |-> FALSE, early |-> FALSE,
                        known |-> {}, out |-> {}]
        BY <1>8, <2>2 DEF End, NoHandler
      <3>2. QED
        BY <1>8, <2>2, <3>1 DEF End, TypeOK
    <2>3. QED
      BY <2>1, <2>2
  <1>9. QED
    BY <1>1, <1>2, <1>3, <1>4, <1>5, <1>6, <1>7, <1>8 DEF Handler

-----------------------------------------------------------------------------
LEMMA InitOK == Init => IInv
  BY NoDbAssumption DEF Init, IInv, TypeOK, Stages, Waited, Kept, At, NoHandler, Torn, Trackers

LEMMA NextOK == IInv /\ [Next]_vars => IInv'
  <1> SUFFICES ASSUME IInv, [Next]_vars PROVE IInv'
    OBVIOUS
  <1>1. CASE UNCHANGED vars
    BY <1>1 DEF vars, IInv, TypeOK, Stages, Waited, Kept, At
  <1>2. CASE Next
    BY <1>2, MainOK, TrackersOK, HandlerOK DEF Next
  <1>3. QED
    BY <1>1, <1>2

LEMMA Invariance == Spec => []IInv
  BY InitOK, NextOK, PTL DEF Spec

(* The program counters of Run, the handler and both Serves stay in step    *)
(* with the channels and databases that are made on the way.                *)
THEOREM TypeCorrect == Spec => []TypeOK
  <1>1. IInv => TypeOK
    BY DEF IInv
  <1>2. QED
    BY <1>1, Invariance, PTL

(* What a save has written survives: any clients, any configuration, any    *)
(* number of processes, signals, kills and failed starts.                   *)
THEOREM SavedConnsAreKept == Spec => []SavedConnsSurvive
  <1>1. IInv => SavedConnsSurvive
    BY DEF IInv, Stages, Kept, At, SavedConnsSurvive
  <1>2. QED
    BY <1>1, Invariance, PTL

-----------------------------------------------------------------------------
(* Only a handler that took a stop signal exits, and none does before the   *)
(* handler is started.                                                      *)
Exits ==
    /\ handler.pc \in {"none", "notify", "wait"} => ~handler.exit
    /\ main = "open" => handler.pc = "none"

\* How the phase of a tracker process may change
Follows(from, to) ==
    \/ from = to
    \/ from = "dead" /\ to = "starting"
    \/ from = "starting" /\ to \in {"serving", "exiting", "dead"}
    \/ from = "serving" /\ to \in {"exiting", "dead"}
    \/ from = "exiting" /\ to = "dead"

(* These are the steps of TrackerProcess, for the one process there is.     *)
LEMMA Mapped ==
    ASSUME Follows(Phase, Phase')
    PROVE  [Process!Next]_([p \in {"tracker"} |-> Phase])
  <1> DEFINE phase == [p \in {"tracker"} |-> Phase]
  <1>1. phase' = [phase EXCEPT !["tracker"] = Phase']
    OBVIOUS
  <1>2. phase["tracker"] = Phase
    OBVIOUS
  <1> HIDE DEF phase
  <1>3. CASE Phase = Phase'
    <2>1. phase' = phase
      BY <1>3 DEF phase
    <2>2. QED
      BY <2>1 DEF phase
  <1>4. CASE Phase # Phase'
    <2>1. Process!Next
      BY <1>1, <1>2, <1>4 DEF Follows, Process!Next, Process!Start, Process!Serve,
                              Process!Stop, Process!Exit, Process!Die, Process!Goes, phase
    <2>2. QED
      BY <2>1
  <1>5. QED
    BY <1>3, <1>4

(* Handlers keep the signal they took, and give it up at the end.           *)
LEMMA HandlerExits == ASSUME IInv, Handler PROVE Gone \/ (Exits => Exits')
  <1> USE DEF At, Goto, Exits
  <1>0. /\ handler = [pc |-> handler.pc, exit |-> handler.exit, early |-> handler.early,
                      known |-> handler.known, out |-> handler.out]
    BY DEF IInv, TypeOK
  <1>1. CASE Notify
    BY <1>0, <1>1 DEF Notify
  <1>2. CASE Take
    BY <1>0, <1>2 DEF Take
  <1>3. ASSUME NEW t \in Trackers, NEW next \in {"http", "db"}, Shutdown(t, next)
        PROVE  Exits => Exits'
    BY <1>0, <1>3 DEF Shutdown, Trackers
  <1>4. CASE SaveDatabase
    BY <1>0, <1>4 DEF SaveDatabase
  <1>5. CASE Encode
    <2>1. CASE Gone
      BY <2>1
    <2>2. CASE main' = main /\ (handler'.pc = "end" \/ handler'.pc = "truncate")
      BY <1>5, <2>2 DEF Encode
    <2>3. QED
      BY <1>0, <1>5, <2>1, <2>2 DEF Encode
  <1>6. CASE Truncate
    BY <1>0, <1>6 DEF Truncate
  <1>7. CASE Write
    BY <1>0, <1>7 DEF Write
  <1>8. CASE End
    BY <1>0, <1>8 DEF End, NoHandler
  <1>9. QED
    BY <1>1, <1>2, <1>3, <1>4, <1>5, <1>6, <1>7, <1>8 DEF Handler, Trackers

LEMMA ExitsOK == IInv /\ Exits /\ [Next]_vars => Exits'
  <1> SUFFICES ASSUME IInv, Exits, [Next]_vars PROVE Exits'
    OBVIOUS
  <1>1. CASE Gone
    BY <1>1 DEF Gone, NoHandler, Exits
  <1>2. CASE handler' = handler /\ (main' = "open" => main \in {"dead", "open"})
    BY <1>2 DEF Exits, IInv, Stages
  <1>3. CASE Handler /\ ~Gone
    BY <1>3, HandlerExits
  <1>4. CASE RunHandler
    <2>1. handler'.exit = handler.exit /\ handler'.pc = "notify"
      BY <1>4 DEF RunHandler, IInv, TypeOK
    <2>2. main = "open" /\ main' = "http"
      BY <1>4 DEF RunHandler
    <2>3. QED
      BY <2>1, <2>2 DEF Exits
  <1>5. QED
    BY <1>1, <1>2, <1>3, <1>4
    DEF Next, vars, Start, Main, RunHTTP, RunUDP, RunUDPChan, LoadRead, LoadDecode,
        Kill, Listen, ListenFails, Connect, Signal

(* How far the trackers are only grows, until the process is gone.          *)
LEMMA PhaseOnward ==
    ASSUME IInv, main # "dead", main' # "dead", enabled' = enabled,
           main = "running" => main' = "running", Unserved' \subseteq Unserved,
           handler'.exit = handler.exit \/ ~handler.exit
    PROVE  Follows(Phase, Phase')
  BY DEF Phase, Follows

LEMMA PhaseOK == ASSUME IInv, Exits, [Next]_vars PROVE Follows(Phase, Phase')
  <1>0. TypeOK /\ Stages
    BY DEF IInv
  <1>1. CASE Gone
    BY <1>1 DEF Gone, Phase, Follows
  <1>2. CASE Start
    <2>1. main' = "open" /\ handler' = handler /\ main = "dead" /\ handler.pc = "none"
      BY <1>0, <1>2 DEF Start, Stages
    <2>2. QED
      BY <2>1 DEF Phase, Follows, Exits
  <1>3. CASE UNCHANGED vars
    <2>1. Phase' = Phase
      BY <1>3 DEF vars, Phase, Unserved
    <2>2. QED
      BY <2>1 DEF Follows
  <1>4. CASE Main
    <2>1. Unserved' \subseteq Unserved
      BY <1>0, <1>4 DEF Unserved, Main, RunHandler, RunHTTP, RunUDP, RunUDPChan,
                        LoadRead, LoadDecode, TypeOK, Trackers, Stages
    <2>2. /\ main # "dead" /\ main' # "dead" /\ enabled' = enabled
          /\ main = "running" => main' = "running"
          /\ handler'.exit = handler.exit
      BY <1>0, <1>4 DEF Main, RunHandler, RunHTTP, RunUDP, RunUDPChan,
                        LoadRead, LoadDecode, TypeOK
    <2>3. QED
      BY <2>1, <2>2, PhaseOnward
  <1>5. CASE Handler /\ ~Gone
    <2>1. main # "dead" /\ main' = main /\ enabled' = enabled
      <3>1. main # "dead"
        BY <1>0, <1>5 DEF Stages, Handler, Notify, Take, Shutdown, SaveDatabase, Encode,
                          Truncate, Write, End, At
      <3>2. main' = main /\ enabled' = enabled
        BY <1>5 DEF Handler, Notify, Take, Shutdown, SaveDatabase, Encode,
                    Truncate, Write, End
      <3>3. QED
        BY <3>1, <3>2
    <2>2. Unserved' \subseteq Unserved
      <3>1. serve' = serve \/ \E t \in Trackers : serve' = [serve EXCEPT ![t] = "stopped"]
        BY <1>5 DEF Handler, Notify, Take, Shutdown, SaveDatabase, Encode,
                    Truncate, Write, End, Trackers
      <3>2. QED
        BY <1>0, <2>1, <3>1 DEF Unserved, TypeOK
    <2>3. handler'.exit = handler.exit \/ ~handler.exit
      <3>1. handler = [pc |-> handler.pc, exit |-> handler.exit, early |-> handler.early,
                       known |-> handler.known, out |-> handler.out]
        BY <1>0 DEF TypeOK
      <3>2. CASE At("wait")
        BY <3>2 DEF At, Exits
      <3>3. CASE ~At("wait")
        BY <1>5, <3>1, <3>3 DEF Handler, Notify, Take, Shutdown, SaveDatabase, Encode,
                                Truncate, Write, End, At, Goto
      <3>4. QED
        BY <3>2, <3>3
    <2>4. QED
      BY <2>1, <2>2, <2>3, PhaseOnward
  <1>6. ASSUME NEW t \in Trackers, Listen(t) PROVE Follows(Phase, Phase')
    <2>1. main # "dead"
      BY <1>0, <1>6 DEF Listen, Stages, Trackers
    <2>2. Unserved' \subseteq Unserved
      BY <1>0, <1>6 DEF Listen, Unserved, TypeOK
    <2>3. QED
      BY <1>6, <2>1, <2>2, PhaseOnward DEF Listen
  <1>7. CASE UNCHANGED <<enabled, main, handler, serve>>
    BY <1>7 DEF Phase, Follows, Unserved
  <1>8. QED
    BY <1>1, <1>2, <1>3, <1>4, <1>5, <1>6, <1>7
    DEF Next, Kill, ListenFails, Connect, Signal

(* The process that Run, the signal handler and the two Serves make up only *)
(* ever takes the steps of the process its controllers reckon with: it      *)
(* starts, serves, and once it exits does nothing but end.                  *)
THEOREM ActsAsTrackerProcess == Spec => Process!Safety
  <1>1. Init => Exits /\ Process!Init
    BY DEF Init, NoHandler, Exits, Process!Init, Phase
  <1>2. IInv /\ Exits /\ [Next]_vars =>
           [Process!Next]_([p \in {"tracker"} |-> Phase])
    BY PhaseOK, Mapped
  <1>3. QED
    BY <1>1, <1>2, Invariance, ExitsOK, PTL DEF Spec, Process!Safety
=============================================================================
