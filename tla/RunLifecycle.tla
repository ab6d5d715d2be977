---------------------------- MODULE RunLifecycle ----------------------------
(***************************************************************************)
(* What users of the run queue rely on (README.md, pipeline/runner.py,     *)
(* worker.py): a run that was submitted is taken once, ends once, and its  *)
(* project shows how it ended.                                             *)
(***************************************************************************)
CONSTANTS RunIds, NoRun

VARIABLES
  status,  \* run -> status
  shown    \* the last run a project shows, and its status

vars == <<status, shown>>

Outcomes == {"passed", "failed", "error"}

Init ==
  /\ status = [r \in RunIds |-> "absent"]
  /\ shown = [id |-> NoRun, status |-> "absent"]

Moves(r, from, to) == status[r] \in from /\ status' = [status EXCEPT ![r] = to] /\ UNCHANGED shown

Submit(r) == Moves(r, {"absent"}, "queued")

Take(r) == Moves(r, {"queued"}, "running")

End(r) == \E outcome \in Outcomes : Moves(r, {"running"}, outcome)

Show(r) ==
  /\ status[r] \in Outcomes
  /\ shown' = [id |-> r, status |-> status[r]]
  /\ UNCHANGED status

Next == \E r \in RunIds : Submit(r) \/ Take(r) \/ End(r) \/ Show(r)

\* What may happen to a run ...
Safety == Init /\ [][Next]_vars

\* ... and what must: every queued run is taken, and every run that was taken ends: a run
\* moves on for as long as it can.
Fairness == \A r \in RunIds : WF_vars(Take(r) \/ End(r))

Spec == Safety /\ Fairness
=============================================================================
