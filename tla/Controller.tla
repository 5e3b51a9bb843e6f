----------------------------- MODULE Controller -----------------------------
(***************************************************************************)
(* The command line controller: status, start, stop, restart and reset     *)
(* over a pid file, signals and heartbeats (controller/, cli_entry.go),    *)
(* and as much of the tracker process as they see of it (TrackerProcess).  *)
(*                                                                         *)
(*   pidfile  what Read finds: a process id, or Failed when the file is    *)
(*            absent or empty                                              *)
(*   proc     the life of each process: "none" yet, "starting" up to the   *)
(*            sockets, "serving", "exiting" once it has the stop signal,   *)
(*            "dead"                                                       *)
(*   c        program counter and locals of each controller                *)
(*   orphans  history: the trackers whose controller did not get to write  *)
(*            their pid                                                    *)
(*                                                                         *)
(* Process ids are not reused.                                             *)
(***************************************************************************)
EXTENDS Integers, FiniteSets

CONSTANTS Controllers,
          MaxProcs,   \* bound on the processes
          MaxWaits,   \* the 100 of Stop's loop
          Udp,        \* the heartbeat is a datagram, not an HTTP request
          Deaths,     \* controllers may be killed
          Crashes,    \* trackers may die on their own
          Hangs,      \* trackers may take for ever to exit
          Resets      \* the operator uses reset on a tracker that is alive, too

ASSUME BoundsAssumption == MaxProcs \in Nat \ {0} /\ MaxWaits \in Nat \ {0}
ASSUME FlagsAssumption == {Udp, Deaths, Crashes, Hangs, Resets} \subseteq BOOLEAN

VARIABLES pidfile, proc, c, orphans

vars == <<pidfile, proc, c, orphans>>

-----------------------------------------------------------------------------
Failed == -1  \* ProcessIDFailed

Procs == 1..MaxProcs
Alive(p) == p \in Procs /\ proc[p] \notin {"none", "dead"}
Serving == {p \in Procs : proc[p] = "serving"}
\* A tracker that exits has its sockets for a while
Closing == {p \in Procs : proc[p] = "exiting"}

\* A controller that gets to pc
At(pc, start, restart, pid) ==
    [pc |-> pc, start |-> start, restart |-> restart, pid |-> pid,
     asked |-> Failed, waits |-> 0]

Idle == At("idle", FALSE, FALSE, Failed)

Init ==
    /\ pidfile = Failed
    /\ proc = [p \in Procs |-> "none"]
    /\ c = [x \in Controllers |-> Idle]
    /\ orphans = {}

Goto(x, pc) == c' = [c EXCEPT ![x].pc = pc]
Return(x) == c' = [c EXCEPT ![x] = Idle]

-----------------------------------------------------------------------------
(* Controller.Status, and Controller.Start, which begins with it           *)

\* The command status, or start: the pid file is read.  Whether the process
\* is alive is only printed.
Status(x, start) ==
    /\ c[x].pc = "idle"
    /\ c' = [c EXCEPT ![x] = At("heartbeat", start, FALSE, pidfile)]
    /\ UNCHANGED <<pidfile, proc, orphans>>

RestartStatus(x) ==
    /\ c[x].pc = "start"
    /\ c' = [c EXCEPT ![x] = At("heartbeat", TRUE, FALSE, pidfile)]
    /\ UNCHANGED <<pidfile, proc, orphans>>

\* What Status found decides: a pid alone counts as running
Found(x, heartbeat) ==
    IF c[x].start /\ c[x].pid = Failed /\ ~heartbeat THEN Goto(x, "spawn") ELSE Return(x)

\* Mutant of Heartbeat: the pid file is not looked at
HeartbeatOnly(x) ==
    /\ c[x].pc = "heartbeat"
    /\ \/ \E p \in Serving \cup Closing : c' = [c EXCEPT ![x].pc = "answer", ![x].asked = p]
       \/ Serving = {} /\ IF c[x].start THEN Goto(x, "spawn") ELSE Return(x)
    /\ UNCHANGED <<pidfile, proc, orphans>>

\* The heartbeat is sent.  Where nobody has the socket an error comes back.
Heartbeat(x) ==
    /\ c[x].pc = "heartbeat"
    /\ \/ \E p \in Serving \cup Closing : c' = [c EXCEPT ![x].pc = "answer", ![x].asked = p]
       \/ Serving = {} /\ Found(x, FALSE)
    /\ UNCHANGED <<pidfile, proc, orphans>>

\* The tracker answers; one that went down in between makes the HTTP request
\* fail, but a Read of the UDP socket has no deadline and waits
Answer(x) ==
    /\ c[x].pc = "answer"
    /\ Alive(c[x].asked) \/ ~Udp
    /\ Found(x, Alive(c[x].asked))
    /\ UNCHANGED <<pidfile, proc, orphans>>

Unborn == {p \in Procs : proc[p] = "none"}
NextProc == CHOOSE p \in Unborn : TRUE

\* exec.Command(os.Args[0], "execute").Start(), which fails at the bound
StartSpawn(x) ==
    /\ c[x].pc = "spawn"
    /\ IF Unborn = {} THEN proc' = proc /\ Return(x)
       ELSE /\ proc' = [proc EXCEPT ![NextProc] = "starting"]
            /\ c' = [c EXCEPT ![x].pc = "truncate", ![x].pid = NextProc]
    /\ UNCHANGED <<pidfile, orphans>>

\* ProcessIDFile.Write is os.WriteFile: truncate, then write
StartTruncate(x) ==
    /\ c[x].pc = "truncate"
    /\ pidfile' = Failed
    /\ Goto(x, "write")
    /\ UNCHANGED <<proc, orphans>>

\* Mutants of StartWrite: the pid written is the controller's; the file is
\* left as the truncation made it
StartWriteOwn(x) ==
    /\ c[x].pc = "write"
    /\ pidfile' = 0
    /\ Return(x)
    /\ UNCHANGED <<proc, orphans>>

StartWriteNothing(x) ==
    /\ c[x].pc = "write"
    /\ Return(x)
    /\ UNCHANGED <<pidfile, proc, orphans>>

StartWrite(x) ==
    /\ c[x].pc = "write"
    /\ pidfile' = c[x].pid
    /\ Return(x)
    /\ UNCHANGED <<proc, orphans>>

-----------------------------------------------------------------------------
(* Controller.Stop; restart goes on to Start                               *)

\* ProcessIDFile.Process, which always finds a process
StopProcess(x, restart) ==
    /\ c[x].pc = "idle"
    /\ pidfile # Failed
    /\ c' = [c EXCEPT ![x] = At("signal", FALSE, restart, pidfile)]
    /\ UNCHANGED <<pidfile, proc, orphans>>

\* A process that has not called signal.Notify dies of the signal at once; one
\* that has takes it, even if it does not serve yet
StopSignal(x) ==
    /\ c[x].pc = "signal"
    /\ IF Alive(c[x].pid)
       THEN /\ \E next \in IF proc[c[x].pid] = "starting" THEN {"dead", "exiting"}
                            ELSE {"exiting"} :
                  proc' = [proc EXCEPT ![c[x].pid] = next]
            /\ Goto(x, "read")
       ELSE proc' = proc /\ Return(x)
    /\ UNCHANGED <<pidfile, orphans>>

\* The pid file is read again
StopRead(x) ==
    /\ c[x].pc = "read"
    /\ IF pidfile = Failed THEN Return(x)
       ELSE c' = [c EXCEPT ![x].pc = "wait", ![x].pid = pidfile]
    /\ UNCHANGED <<pidfile, proc, orphans>>

\* Mutants of StopWait: the process is not waited for; the loop has no end
StopWaitNot(x) ==
    /\ c[x].pc = "wait"
    /\ Goto(x, "clear")
    /\ UNCHANGED <<pidfile, proc, orphans>>

StopWaitForever(x) ==
    /\ c[x].pc = "wait"
    /\ c' = [c EXCEPT ![x].waits = IF @ > MaxWaits THEN @ ELSE @ + 1]
    /\ UNCHANGED <<pidfile, proc, orphans>>

\* The loop: for ; err == nil || i == 100; err = kill(pid, 0).  Waits are
\* counted up to the first that could not be told from a later one.
StopWait(x) ==
    LET i == c[x].waits + 1
    IN  /\ c[x].pc = "wait"
        /\ c' = [c EXCEPT ![x].waits = IF @ > MaxWaits THEN @ ELSE i,
                          ![x].pc = IF Alive(c[x].pid) \/ i = MaxWaits
                                    THEN "wait" ELSE "clear"]
        /\ UNCHANGED <<pidfile, proc, orphans>>

\* err is "no such process" here, i is never 100
StopClear(x) ==
    /\ c[x].pc = "clear"
    /\ pidfile' = Failed
    /\ c' = [c EXCEPT ![x] = IF @.restart THEN At("start", FALSE, FALSE, Failed) ELSE Idle]
    /\ UNCHANGED <<proc, orphans>>

\* Controller.Clear, the command reset
Clear(x) ==
    /\ Resets \/ \A p \in Procs : ~Alive(p)
    /\ c[x].pc = "idle"
    /\ pidfile' = Failed
    /\ UNCHANGED <<proc, c, orphans>>

-----------------------------------------------------------------------------
(* Controllers and trackers end                                            *)

\* The controller is killed, or it cannot write the pid file and gives up
Die(x) ==
    /\ Deaths
    /\ c[x].pc # "idle"
    /\ Return(x)
    /\ orphans' = orphans \cup (IF c[x].pc \in {"truncate", "write"} THEN {c[x].pid} ELSE {})
    /\ UNCHANGED <<pidfile, proc>>

\* The sockets are bound, or logger.Fatal because they are taken
Bound(p) ==
    \/ Serving = {} /\ proc' = [proc EXCEPT ![p] = "serving"]
    \/ Serving \cup Closing # {} /\ proc' = [proc EXCEPT ![p] = "dead"]

\* Mutant of Bind: the start goes on after the stop signal
BindLate(p) ==
    /\ proc[p] \in {"starting", "exiting"}
    /\ Bound(p)
    /\ UNCHANGED <<pidfile, c, orphans>>

Bind(p) ==
    /\ proc[p] = "starting"
    /\ Bound(p)
    /\ UNCHANGED <<pidfile, c, orphans>>

Exit(p) ==
    /\ proc[p] = "exiting"
    /\ proc' = [proc EXCEPT ![p] = "dead"]
    /\ UNCHANGED <<pidfile, c, orphans>>

Crash(p) ==
    /\ Crashes
    /\ Alive(p)
    /\ proc' = [proc EXCEPT ![p] = "dead"]
    /\ UNCHANGED <<pidfile, c, orphans>>

StartStep(x) ==
    \/ RestartStatus(x) \/ Heartbeat(x) \/ Answer(x)
    \/ StartSpawn(x) \/ StartTruncate(x) \/ StartWrite(x)

StopStep(x) == StopSignal(x) \/ StopRead(x) \/ StopWait(x) \/ StopClear(x)

Command(x) ==
    \/ Clear(x)
    \/ \E start \in BOOLEAN : Status(x, start)
    \/ \E restart \in BOOLEAN : StopProcess(x, restart)

Next ==
    \/ \E x \in Controllers : Command(x) \/ StartStep(x) \/ StopStep(x) \/ Die(x)
    \/ \E p \in Procs : Bind(p) \/ Exit(p) \/ Crash(p)

Spec == Init /\ [][Next]_vars

(* Commands that were given run, and the tracker's signal handler exits     *)
(* unless its saves hang.                                                   *)
FairSpec ==
    /\ Spec
    /\ \A x \in Controllers : WF_vars(StartStep(x) \/ StopStep(x))
    /\ ~Hangs => \A p \in Procs : WF_vars(Exit(p))

-----------------------------------------------------------------------------
TypeOK ==
    /\ pidfile \in Procs \cup {Failed}
    /\ proc \in [Procs -> {"none", "starting", "serving", "exiting", "dead"}]
    /\ \A x \in Controllers :
          /\ c[x].pc \in {"idle", "start", "heartbeat", "answer", "spawn", "truncate",
                          "write", "signal", "read", "wait", "clear"}
          /\ c[x].start \in BOOLEAN /\ c[x].restart \in BOOLEAN
          /\ {c[x].pid, c[x].asked} \subseteq Procs \cup {Failed}
          /\ c[x].waits \in 0..MaxWaits + 1
    /\ orphans \subseteq Procs

NoCommand == \A x \in Controllers : c[x].pc = "idle"

(* When the operator lets each command finish before the next and does not  *)
(* reset the pid file of a live tracker, a tracker that runs can be         *)
(* stopped: the pid file has its id, through crashes, failed stops,         *)
(* restarts and controllers that are killed.  The exception is the window   *)
(* of Start between the spawn and the end of the write.                     *)
LiveTrackersAreNamed ==
    NoCommand => \A p \in Procs \ orphans : Alive(p) => pidfile = p

(* And there is one at most: Start never runs a second tracker next to one  *)
(* that is starting or exiting, when no heartbeat would tell.               *)
OneTracker == Cardinality({p \in Procs \ orphans : Alive(p)}) <= 1

\* A datagram that the tracker took with it
Unanswered(x) == Udp /\ c[x].pc = "answer" /\ ~Alive(c[x].asked)

(* A command that was given ends, if the process exits in the end: stop and *)
(* restart do not wait for a process that is gone, or for no process, and   *)
(* status and start wait only for a tracker that went down with their       *)
(* heartbeat.  The bound of 100 waits does not end the loop of Stop         *)
(* (i == 100 continues it), so a process that hangs makes stop hang, and    *)
(* Hangs must be FALSE here.                                                *)
CommandsReturn ==
    \A x \in Controllers : c[x].pc # "idle" ~> c[x].pc = "idle" \/ Unanswered(x)

-----------------------------------------------------------------------------
Trackers == INSTANCE TrackerProcess
    WITH Processes <- Procs,
         phase <- [p \in Procs |-> IF proc[p] = "none" THEN "dead" ELSE proc[p]]

(* The processes that the controller deals with live as Lifecycle's do:     *)
(* none serves again after the stop signal, and each that got it ends.      *)
TrackersAreProcesses == Trackers!Spec
=============================================================================
