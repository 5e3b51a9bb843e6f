-------------------------- MODULE ControllerProofs --------------------------
(***************************************************************************)
(* For one controller at a time, any number of processes and any crashes   *)
(* and deaths: there are never two trackers, and the one there is can be   *)
(* stopped.                                                                *)
(***************************************************************************)
EXTENDS Controller, FiniteSetTheorems, TLAPS

PCs == {"idle", "start", "heartbeat", "answer", "spawn", "truncate", "write",
        "signal", "read", "wait", "clear"}

Locals == [pc : PCs, start : BOOLEAN, restart : BOOLEAN, pid : Procs \cup {Failed},
           asked : Procs \cup {Failed}, waits : 0..MaxWaits + 1]

Types ==
    /\ pidfile \in Procs \cup {Failed}
    /\ proc \in [Procs -> {"none", "starting", "serving", "exiting", "dead"}]
    /\ c \in [Controllers -> Locals]
    /\ orphans \subseteq Procs

\* The trackers that live and were not lost by a controller that died
Own == {p \in Procs \ orphans : Alive(p)}

(* What the controller knows of them at each of its steps.                  *)
Knows(x) ==
    /\ c[x].pc \in {"truncate", "write"} => /\ c[x].pid \in Procs /\ Own \subseteq {c[x].pid}
                                            /\ pidfile = Failed
    /\ c[x].pc \notin {"truncate", "write"} => Own \subseteq {pidfile}
    /\ c[x].pc \in {"heartbeat", "answer", "signal", "wait"} => c[x].pid = pidfile
    /\ c[x].pc \in {"start", "spawn"} => pidfile = Failed
    /\ c[x].pc = "clear" => Own = {}

(* OneTracker alone does not say that a start finds the file empty only     *)
(* when nothing runs, nor that stop clears the file of a process that is    *)
(* gone: Knows does, for the only controller.                               *)
IInv == Types /\ \A x \in Controllers : Knows(x)

-----------------------------------------------------------------------------
(* The ways a command moves on.                                             *)
LEMMA SetOK ==
    ASSUME NEW x \in Controllers, Types, NEW l \in Locals, c' = [c EXCEPT ![x] = l]
    PROVE  c' \in [Controllers -> Locals] /\ c'[x] = l
  BY DEF Types

LEMMA AtOK ==
    ASSUME NEW pc \in PCs, NEW start \in BOOLEAN, NEW restart \in BOOLEAN,
           NEW pid \in Procs \cup {Failed}
    PROVE  /\ At(pc, start, restart, pid) \in Locals
           /\ At(pc, start, restart, pid).pc = pc
           /\ At(pc, start, restart, pid).pid = pid
  BY BoundsAssumption DEF At, Locals

LEMMA IdleOK == Idle \in Locals /\ Idle.pc = "idle"
  BY BoundsAssumption DEF Idle, At, Locals, PCs, Failed

LEMMA RestartOK ==
    At("start", FALSE, FALSE, Failed) \in Locals /\ At("start", FALSE, FALSE, Failed).pc = "start"
  BY BoundsAssumption DEF At, Locals, PCs, Failed

LEMMA GotoOK ==
    ASSUME NEW x \in Controllers, Types, NEW pc \in PCs, Goto(x, pc)
    PROVE  c' \in [Controllers -> Locals] /\ c'[x] = [c[x] EXCEPT !.pc = pc]
  <1>1. [c[x] EXCEPT !.pc = pc] \in Locals
    BY DEF Types, Locals
  <1>2. c' = [c EXCEPT ![x] = [c[x] EXCEPT !.pc = pc]]
    BY DEF Goto
  <1>3. QED
    BY <1>1, <1>2, SetOK

LEMMA ReturnOK ==
    ASSUME NEW x \in Controllers, Types, Return(x)
    PROVE  c' \in [Controllers -> Locals] /\ c'[x] = Idle
  BY IdleOK, SetOK DEF Return

LEMMA BeginOK ==
    ASSUME NEW x \in Controllers, Types, NEW pc \in PCs, NEW start \in BOOLEAN,
           NEW restart \in BOOLEAN, c' = [c EXCEPT ![x] = At(pc, start, restart, pidfile)]
    PROVE  c' \in [Controllers -> Locals] /\ c'[x].pc = pc /\ c'[x].pid = pidfile
  <1>1. At(pc, start, restart, pidfile) \in Locals
    BY AtOK DEF Types
  <1>2. QED
    BY <1>1, AtOK, SetOK DEF Types

LEMMA FoundOK ==
    ASSUME NEW x \in Controllers, Types, NEW heartbeat \in BOOLEAN, Found(x, heartbeat)
    PROVE  /\ c' \in [Controllers -> Locals]
           /\ c'[x].pc = "idle" \/ (c'[x].pc = "spawn" /\ c[x].pid = Failed)
  <1>1. CASE Return(x)
    BY <1>1, ReturnOK, IdleOK
  <1>2. CASE Goto(x, "spawn") /\ c[x].pid = Failed
    <2>1. c' \in [Controllers -> Locals] /\ c'[x] = [c[x] EXCEPT !.pc = "spawn"]
      BY <1>2, GotoOK DEF PCs
    <2>2. c[x] \in Locals
      BY DEF Types
    <2>3. c'[x].pc = "spawn"
      BY <2>1, <2>2 DEF Locals
    <2>4. QED
      BY <1>2, <2>1, <2>3
  <1>3. QED
    BY <1>1, <1>2 DEF Found

(* Nobody but the one controller moves its locals.                          *)
LEMMA OnlyOK ==
    ASSUME NEW x, Controllers = {x}, Types', Knows(x)'
    PROVE  IInv'
  BY DEF IInv

-----------------------------------------------------------------------------
(* Start, and the commands that change nothing.                             *)
LEMMA StartOK ==
    ASSUME NEW x, Controllers = {x}, IInv,
           StartStep(x) \/ \E start \in BOOLEAN : Status(x, start)
    PROVE  IInv'
  <1> USE DEF IInv, Own, Alive
  <1>1. ASSUME NEW start \in BOOLEAN, Status(x, start) PROVE IInv'
    <2>1. c' \in [Controllers -> Locals] /\ c'[x].pc = "heartbeat" /\ c'[x].pid = pidfile
      BY <1>1, BeginOK DEF Status, PCs
    <2>2. QED
      BY <1>1, <2>1 DEF Status, Types, Knows
  <1>2. CASE RestartStatus(x)
    <2>1. c' \in [Controllers -> Locals] /\ c'[x].pc = "heartbeat" /\ c'[x].pid = pidfile
      BY <1>2, BeginOK DEF RestartStatus, PCs
    <2>2. QED
      BY <1>2, <2>1 DEF RestartStatus, Types, Knows
  <1>3. CASE Heartbeat(x)
    <2>1. CASE Found(x, FALSE)
      BY <1>3, <2>1, FoundOK DEF Heartbeat, Types, Knows
    <2>2. ASSUME NEW p \in Serving \cup Closing,
                 c' = [c EXCEPT ![x].pc = "answer", ![x].asked = p]
          PROVE  IInv'
      <3>1. [c[x] EXCEPT !.pc = "answer", !.asked = p] \in Locals
        BY DEF Types, Locals, PCs, Serving, Closing
      <3>2. c' = [c EXCEPT ![x] = [c[x] EXCEPT !.pc = "answer", !.asked = p]]
        BY <2>2 DEF Types
      <3>3. QED
        BY <1>3, <3>1, <3>2, SetOK DEF Heartbeat, Types, Knows, Locals
    <2>3. QED
      BY <1>3, <2>1, <2>2 DEF Heartbeat
  <1>4. CASE Answer(x)
    BY <1>4, FoundOK DEF Answer, Types, Knows
  <1>5. CASE StartSpawn(x)
    <2>1. CASE Unborn = {}
      BY <1>5, <2>1, ReturnOK, IdleOK DEF StartSpawn, Types, Knows
    <2>2. CASE Unborn # {}
      <3> DEFINE p == NextProc
      <3>1. p \in Procs /\ proc[p] = "none"
        BY <2>2 DEF NextProc, Unborn
      <3>2. /\ proc' = [proc EXCEPT ![p] = "starting"]
            /\ c' = [c EXCEPT ![x].pc = "truncate", ![x].pid = p]
            /\ UNCHANGED <<pidfile, orphans>> /\ c[x].pc = "spawn"
        BY <1>5, <2>2 DEF StartSpawn
      <3> HIDE DEF p
      <3>3. [c[x] EXCEPT !.pc = "truncate", !.pid = p] \in Locals
        BY <3>1 DEF Types, Locals, PCs
      <3>4. c' = [c EXCEPT ![x] = [c[x] EXCEPT !.pc = "truncate", !.pid = p]]
        BY <3>2 DEF Types
      <3>5. c' \in [Controllers -> Locals] /\ c'[x].pc = "truncate" /\ c'[x].pid = p
        BY <3>3, <3>4, SetOK DEF Types, Locals
      <3>6. pidfile = Failed /\ Own = {}
        BY <3>2 DEF Knows, Failed, Procs
      <3>7. Own' \subseteq {p}
        BY <3>1, <3>2, <3>6 DEF Types
      <3>8. Knows(x)'
        BY <3>1, <3>2, <3>5, <3>6, <3>7 DEF Knows
      <3>9. QED
        BY <3>1, <3>2, <3>5, <3>8 DEF Types
    <2>3. QED
      BY <2>1, <2>2
  <1>6. CASE StartTruncate(x)
    BY <1>6, GotoOK DEF StartTruncate, Types, Knows, PCs, Locals
  <1>7. CASE StartWrite(x)
    BY <1>7, ReturnOK, IdleOK DEF StartWrite, Types, Knows
  <1>8. QED
    BY <1>1, <1>2, <1>3, <1>4, <1>5, <1>6, <1>7 DEF StartStep

(* Stop, which clears the file when the process in it is gone.              *)
LEMMA StopOK ==
    ASSUME NEW x, Controllers = {x}, IInv, ~Resets,
           StopStep(x) \/ Clear(x) \/ \E restart \in BOOLEAN : StopProcess(x, restart)
    PROVE  IInv'
  <1> USE DEF IInv, Own, Alive
  <1>1. ASSUME NEW restart \in BOOLEAN, StopProcess(x, restart) PROVE IInv'
    <2>1. c' \in [Controllers -> Locals] /\ c'[x].pc = "signal" /\ c'[x].pid = pidfile
      BY <1>1, BeginOK DEF StopProcess, PCs
    <2>2. QED
      BY <1>1, <2>1 DEF StopProcess, Types, Knows
  <1>2. CASE StopSignal(x)
    <2>1. CASE Alive(c[x].pid)
      <3>1. c' \in [Controllers -> Locals] /\ c'[x].pc = "read"
        BY <1>2, <2>1, GotoOK DEF StopSignal, PCs, Types, Locals
      <3>2. PICK next \in {"dead", "exiting"} : proc' = [proc EXCEPT ![c[x].pid] = next]
        BY <1>2, <2>1 DEF StopSignal
      <3>3. QED
        BY <1>2, <2>1, <3>1, <3>2 DEF StopSignal, Types, Knows
    <2>2. CASE ~Alive(c[x].pid)
      BY <1>2, <2>2, ReturnOK, IdleOK DEF StopSignal, Types, Knows
    <2>3. QED
      BY <2>1, <2>2
  <1>3. CASE StopRead(x)
    <2>1. CASE pidfile = Failed
      BY <1>3, <2>1, ReturnOK, IdleOK DEF StopRead, Types, Knows
    <2>2. CASE pidfile # Failed
      <3>1. [c[x] EXCEPT !.pc = "wait", !.pid = pidfile] \in Locals
        BY DEF Types, Locals, PCs
      <3>2. c' = [c EXCEPT ![x] = [c[x] EXCEPT !.pc = "wait", !.pid = pidfile]]
        BY <1>3, <2>2 DEF StopRead, Types
      <3>3. QED
        BY <1>3, <3>1, <3>2, SetOK DEF StopRead, Types, Knows, Locals
    <2>3. QED
      BY <2>1, <2>2
  <1>4. CASE StopWait(x)
    <2> DEFINE i == c[x].waits + 1
               waits == IF c[x].waits > MaxWaits THEN c[x].waits ELSE i
               pc == IF Alive(c[x].pid) \/ i = MaxWaits THEN "wait" ELSE "clear"
    <2>1. waits \in 0..MaxWaits + 1 /\ pc \in PCs
      BY BoundsAssumption DEF Types, Locals, PCs
    <2>2. c' = [c EXCEPT ![x] = [c[x] EXCEPT !.waits = waits, !.pc = pc]]
      BY <1>4 DEF StopWait, Types
    <2>3. pc = "clear" => Own = {}
      BY <1>4 DEF StopWait, Knows
    <2> HIDE DEF waits, pc
    <2>4. [c[x] EXCEPT !.waits = waits, !.pc = pc] \in Locals
      BY <2>1 DEF Types, Locals
    <2>5. c' \in [Controllers -> Locals] /\ c'[x].pc = pc /\ c'[x].pid = c[x].pid
      BY <2>2, <2>4, SetOK DEF Types, Locals
    <2>6. pc \in {"wait", "clear"}
      BY DEF pc
    <2>7. QED
      BY <1>4, <2>3, <2>5, <2>6 DEF StopWait, Types, Knows
  <1>5. CASE StopClear(x)
    <2>1. PICK l \in {At("start", FALSE, FALSE, Failed), Idle} : c' = [c EXCEPT ![x] = l]
      BY <1>5 DEF StopClear, Types
    <2>2. l \in Locals /\ l.pc \in {"start", "idle"}
      BY IdleOK, RestartOK
    <2>3. c' \in [Controllers -> Locals] /\ c'[x] = l
      BY <2>1, <2>2, SetOK
    <2>4. QED
      BY <1>5, <2>2, <2>3 DEF StopClear, Types, Knows
  <1>6. CASE Clear(x)
    BY <1>6 DEF Clear, Types, Knows
  <1>7. QED
    BY <1>1, <1>2, <1>3, <1>4, <1>5, <1>6 DEF StopStep

(* A controller that dies loses the tracker it has not written down.        *)
LEMMA DieOK ==
    ASSUME NEW x, Controllers = {x}, IInv, Die(x)
    PROVE  IInv'
  <1>1. c' \in [Controllers -> Locals] /\ c'[x].pc = "idle"
    BY ReturnOK, IdleOK DEF Die, IInv
  <1>2. CASE c[x].pc \in {"truncate", "write"}
    <2>1. orphans' = orphans \cup {c[x].pid} /\ UNCHANGED <<pidfile, proc>>
      BY <1>2 DEF Die
    <2>2. c[x].pid \in Procs /\ Own' = {}
      BY <1>2, <2>1 DEF IInv, Knows, Own, Alive
    <2>3. QED
      BY <1>1, <2>1, <2>2 DEF IInv, Types, Knows
  <1>3. CASE c[x].pc \notin {"truncate", "write"}
    BY <1>1, <1>3 DEF Die, IInv, Types, Knows, Own, Alive
  <1>4. QED
    BY <1>2, <1>3

(* Processes only ever end without a controller.                            *)
LEMMA ProcsOK ==
    ASSUME NEW x, Controllers = {x}, IInv, NEW p \in Procs, Bind(p) \/ Exit(p) \/ Crash(p)
    PROVE  IInv'
  <1>1. /\ \E next \in {"serving", "dead"} : proc' = [proc EXCEPT ![p] = next]
        /\ Alive(p)
        /\ UNCHANGED <<pidfile, c, orphans>>
    BY DEF Bind, Bound, Exit, Crash, Alive
  <1>2. Own' \subseteq Own
    BY <1>1 DEF Own, Alive, IInv, Types
  <1>3. QED
    BY <1>1, <1>2 DEF IInv, Types, Knows

-----------------------------------------------------------------------------
LEMMA InitOK == ASSUME NEW x, Controllers = {x} PROVE Init => IInv
  BY IdleOK DEF Init, IInv, Types, Knows, Own, Alive

LEMMA NextOK ==
    ASSUME NEW x, Controllers = {x}, ~Resets
    PROVE  IInv /\ [Next]_vars => IInv'
  <1> SUFFICES ASSUME IInv, [Next]_vars PROVE IInv'
    OBVIOUS
  <1>1. CASE UNCHANGED vars
    BY <1>1 DEF vars, IInv, Types, Knows, Own, Alive
  <1>2. CASE Next
    BY <1>2, StartOK, StopOK, DieOK, ProcsOK DEF Next, Command
  <1>3. QED
    BY <1>1, <1>2

(* With one controller, commands one after the other, there is one tracker  *)
(* at most: any processes, crashes, deaths of controllers, waits of stop.   *)
THEOREM NeverTwoTrackers ==
    ASSUME NEW x, Controllers = {x}, ~Resets
    PROVE  Spec => []OneTracker
  <1>1. IInv => OneTracker
    <2> SUFFICES ASSUME IInv PROVE OneTracker
      OBVIOUS
    <2>1. PICK pid : Own \subseteq {pid}
      BY DEF IInv, Knows
    <2>2. IsFiniteSet({pid}) /\ Cardinality({pid}) = 1
      BY FS_Singleton
    <2>3. Cardinality(Own) <= 1
      BY <2>1, <2>2, FS_Subset
    <2>4. QED
      BY <2>3 DEF Own, OneTracker
  <1>2. QED
    BY <1>1, InitOK, NextOK, PTL DEF Spec

(* And it can be stopped: the pid file names it.                            *)
THEOREM TrackersAreNamed ==
    ASSUME NEW x, Controllers = {x}, ~Resets
    PROVE  Spec => []LiveTrackersAreNamed
  <1>1. IInv => LiveTrackersAreNamed
    BY DEF IInv, Knows, Own, LiveTrackersAreNamed, NoCommand
  <1>2. QED
    BY <1>1, InitOK, NextOK, PTL DEF Spec

(* Between the commands the pid file, the processes and the locals of the   *)
(* controller keep their types.                                             *)
THEOREM TypeCorrect ==
    ASSUME NEW x, Controllers = {x}, ~Resets
    PROVE  Spec => []TypeOK
  <1>1. IInv => TypeOK
    BY DEF IInv, Types, Locals, PCs, TypeOK
  <1>2. QED
    BY <1>1, InitOK, NextOK, PTL DEF Spec

-----------------------------------------------------------------------------
(* For any number of controllers, resets or not, the trackers are processes *)
(* of the kind of TrackerProcess.                                           *)

States == {"none", "starting", "serving", "exiting", "dead"}

ProcTypes == proc \in [Procs -> States]

\* How one process may move
Moves(from, to) ==
    \/ from = "none" /\ to = "starting"
    \/ from = "starting" /\ to \in {"serving", "exiting", "dead"}
    \/ from = "serving" /\ to \in {"exiting", "dead"}
    \/ from = "exiting" /\ to \in {"exiting", "dead"}

(* Every step of a controller or of a tracker moves one process at most.    *)
LEMMA OneMoves ==
    ASSUME ProcTypes, [Next]_vars
    PROVE  \/ proc' = proc
           \/ \E p \in Procs, to \in States :
                 Moves(proc[p], to) /\ proc' = [proc EXCEPT ![p] = to]
  <1> DEFINE Moved == \/ proc' = proc
                      \/ \E p \in Procs, to \in States :
                            Moves(proc[p], to) /\ proc' = [proc EXCEPT ![p] = to]
  <1> SUFFICES Moved
    OBVIOUS
  <1>0. \A p \in Procs : proc[p] \in States
    BY DEF ProcTypes
  <1>1. ASSUME NEW x \in Controllers, StartSpawn(x) PROVE Moved
    <2>1. CASE Unborn = {}
      BY <1>1, <2>1 DEF StartSpawn
    <2>2. CASE Unborn # {}
      <3>1. NextProc \in Procs /\ proc[NextProc] = "none"
        BY <2>2 DEF NextProc, Unborn
      <3>2. proc' = [proc EXCEPT ![NextProc] = "starting"]
        BY <1>1, <2>2 DEF StartSpawn
      <3>3. QED
        BY <3>1, <3>2 DEF Moves, States
    <2>3. QED
      BY <2>1, <2>2
  <1>2. ASSUME NEW x \in Controllers, StopSignal(x) PROVE Moved
    <2>1. CASE ~Alive(c[x].pid)
      BY <1>2, <2>1 DEF StopSignal
    <2>2. CASE Alive(c[x].pid)
      <3>1. PICK to \in {"dead", "exiting"} :
               /\ proc[c[x].pid] # "starting" => to = "exiting"
               /\ proc' = [proc EXCEPT ![c[x].pid] = to]
        BY <1>2, <2>2 DEF StopSignal
      <3>2. c[x].pid \in Procs /\ proc[c[x].pid] \in {"starting", "serving", "exiting"}
        BY <1>0, <2>2 DEF Alive, States
      <3>3. QED
        BY <3>1, <3>2 DEF Moves, States
    <2>3. QED
      BY <2>1, <2>2
  <1>3. ASSUME NEW p \in Procs, Bind(p) \/ Exit(p) \/ Crash(p) PROVE Moved
    <2>1. PICK to \in {"serving", "dead"} :
             /\ proc[p] \in {"starting", "serving", "exiting"}
             /\ to = "serving" => proc[p] = "starting"
             /\ proc' = [proc EXCEPT ![p] = to]
      BY <1>0, <1>3 DEF Bind, Bound, Exit, Crash, Alive, States
    <2>2. QED
      BY <2>1 DEF Moves, States
  <1>4. CASE UNCHANGED proc
    BY <1>4
  <1>5. QED
    BY <1>1, <1>2, <1>3, <1>4
    DEF Next, vars, Command, StartStep, StopStep, Clear, Status, StopProcess, RestartStatus,
        Heartbeat, Answer, StartTruncate, StartWrite, StopRead, StopWait, StopClear, Die

\* What TrackerProcess sees of the processes
Phases == [p \in Procs |-> IF proc[p] = "none" THEN "dead" ELSE proc[p]]

LEMMA ProcStep ==
    ASSUME ProcTypes, [Next]_vars
    PROVE  ProcTypes' /\ [Trackers!Next]_Phases
  <1>1. CASE proc' = proc
    <2>1. Phases' = Phases
      BY <1>1 DEF Phases
    <2>2. QED
      BY <1>1, <2>1 DEF ProcTypes
  <1>2. ASSUME NEW p \in Procs, NEW to \in States,
               Moves(proc[p], to), proc' = [proc EXCEPT ![p] = to]
        PROVE  ProcTypes' /\ [Trackers!Next]_Phases
    <2>1. ProcTypes'
      BY <1>2 DEF ProcTypes
    <2>2. /\ Phases[p] = IF proc[p] = "none" THEN "dead" ELSE proc[p]
          /\ Phases' = [Phases EXCEPT ![p] = to]
      BY <1>2 DEF ProcTypes, Phases, Moves
    <2>3. CASE proc[p] = to
      <3>1. proc' = proc
        BY <1>2, <2>3 DEF ProcTypes
      <3>2. QED
        BY <1>1, <3>1
    <2>4. CASE proc[p] # to
      <3>1. Trackers!Next
        BY <1>2, <2>2, <2>4 DEF Moves, Phases, Trackers!Next, Trackers!Start, Trackers!Serve,
                                Trackers!Stop, Trackers!Exit, Trackers!Die, Trackers!Goes
      <3>2. QED
        BY <2>1, <3>1
    <2>5. QED
      BY <2>3, <2>4
  <1>3. QED
    BY <1>1, <1>2, OneMoves

(* No tracker that a controller deals with ever serves after its stop       *)
(* signal or comes back from the dead: TrackersAreProcesses without its     *)
(* fairness.                                                                *)
THEOREM TrackersActAsProcesses == Spec => Trackers!Safety
  <1>1. Init => ProcTypes /\ Trackers!Init
    BY DEF Init, ProcTypes, States, Trackers!Init
  <1>2. ProcTypes /\ [Next]_vars => ProcTypes' /\ [Trackers!Next]_Phases
    BY ProcStep
  <1>3. QED
    BY <1>1, <1>2, PTL DEF Spec, Trackers!Safety, Phases
=============================================================================
