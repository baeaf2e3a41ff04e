---------------------------- MODULE RunExecution ----------------------------
(***************************************************************************)
(* What JobMaster.Execute promises to the JobManager that submitted a run: *)
(* it first tries to mark the run RUNNING, later either tries once to      *)
(* store a terminal status or leaves the run as it is stored, and then     *)
(* never touches it again.  JobManager.tla uses these three steps for each *)
(* goroutine it starts; JobMaster.tla implements them.                     *)
(***************************************************************************)
VARIABLES
  phase,    \* start, running or returned
  stored,   \* the status of the run, as far as this execution writes it
  outcome   \* why the execution returned

vars == <<phase, stored, outcome>>

Init ==
  /\ phase = "start"
  /\ stored = "PENDING"
  /\ outcome = "none"

\* The write of RUNNING may be lost: its error is ignored.
Begin ==
  /\ phase = "start"
  /\ phase' = "running"
  /\ stored' \in {stored, "RUNNING"}
  /\ UNCHANGED outcome

\* One attempt to store the terminal status.
End(status) ==
  /\ phase = "running"
  /\ phase' = "returned"
  /\ \/ outcome' = status /\ stored' = status
     \/ outcome' = "storeError" /\ stored' \in {stored, status}

\* The context is done, or no node is ready.
Leave ==
  /\ phase = "running"
  /\ phase' = "returned"
  /\ outcome' \in {"cancelled", "stuck"}
  /\ UNCHANGED stored

Next == Begin \/ Leave \/ \E status \in {"COMPLETED", "FAILED"} : End(status)

Spec == Init /\ [][Next]_vars
=============================================================================
