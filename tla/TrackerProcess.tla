--------------------------- MODULE TrackerProcess ---------------------------
(***************************************************************************)
(* What a tracker process is to those who start and stop it: it starts,    *)
(* serves, and once it is stopping it only ever ends, and does end.        *)
(* Lifecycle implements this for one process with the steps of Run, the    *)
(* signal handler and the trackers' goroutines; Controller uses processes  *)
(* of this kind.                                                           *)
(***************************************************************************)
CONSTANT Processes
VARIABLE phase

Init == phase = [p \in Processes |-> "dead"]

Goes(p, from, to) == phase[p] \in from /\ phase' = [phase EXCEPT ![p] = to]

Start(p) == Goes(p, {"dead"}, "starting")
Serve(p) == Goes(p, {"starting"}, "serving")
Stop(p) == Goes(p, {"starting", "serving"}, "exiting")
Exit(p) == Goes(p, {"exiting"}, "dead")
Die(p) == Goes(p, {"starting", "serving"}, "dead")

Next == \E p \in Processes : Start(p) \/ Serve(p) \/ Stop(p) \/ Exit(p) \/ Die(p)

Safety == Init /\ [][Next]_phase

Spec == Safety /\ \A p \in Processes : WF_phase(Exit(p))
=============================================================================
