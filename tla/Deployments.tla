----------------------------- MODULE Deployments -----------------------------
(***************************************************************************)
(* Verified deploys of one project with automatic rollback                 *)
(* (backend/pipeline/deploy.py): call the deploy hook, wait until the site *)
(* answers with the new version, run the smoke tests, and roll back when   *)
(* one of them fails.  A deployment is executed by the process that        *)
(* started it: the API for a user's request, a worker after a clean run    *)
(* (_deploy_if_green in backend/pipeline/runner.py).                       *)
(*                                                                         *)
(* A step of a deployment is what runs between two awaits, a step of a     *)
(* request is one database access; while a process handles a request its   *)
(* own deployments do not move.  The host that builds and serves the site  *)
(* and the repository are outside the program: any version may be served   *)
(* and any commit be the tip at any time, whatever the hooks were told.    *)
(***************************************************************************)
EXTENDS Naturals, FiniteSets

CONSTANTS
  API,              \* the API process (executor None)
  Workers,          \* the worker processes
  MaxDeps,          \* bound: deployments ever started
  Commits, NoCommit,\* the commits of the repository, and "unknown"
  MaxVersion,       \* bound: versions the host serves, 1..MaxVersion
  Dynamic,          \* the versions whose page differs on every request
  DEPLOY_HEALTHY_CHECKS,
  Rollbacks,        \* what rollback the project may have: see Kinds
  Faults,           \* which of FaultKinds happen
  MaxFaults         \* bound: how many of them

FaultKinds == {"race",      \* two processes look for an active deployment at the same time
               "die",       \* a process dies and is started again
               "cancel",    \* a process stops and cancels its deployments
               "crash",     \* an exception while deploying
               "outage",    \* the database is unavailable while deploying
               "slow"}      \* a smoke test outlasts DEPLOY_STALE_SECONDS

(* A rollback hook, a Render deploy hook that takes a commit, or neither. *)
Kinds == {"hook", "redeploy", "none"}

ASSUME DeploymentsAssumption ==
  /\ {MaxDeps, MaxVersion, MaxFaults} \subseteq Nat /\ MaxVersion > 0
  /\ DEPLOY_HEALTHY_CHECKS \in Nat \ {0}
  /\ API \notin Workers /\ NoCommit \notin Commits
  /\ Dynamic \subseteq 1..MaxVersion
  /\ Rollbacks \subseteq Kinds
  /\ Faults \subseteq FaultKinds

Procs == Workers \union {API}
DepIds == 1..MaxDeps
Versions == 1..MaxVersion
NoVersion == 0

ACTIVE == <<"queued", "deploying", "verifying", "rolling_back">>
Active == {ACTIVE[i] : i \in DOMAIN ACTIVE}
Ended == {"verified", "failed", "rolled_back", "rollback_failed", "error"}
StepKeys == {"deploy", "health", "smoke", "rollback"}

(* What a probe of the health URL hashes: the page of a version (a dynamic   *)
(* one never twice the same in a row), an error page, or nothing.            *)
Hashes == (Versions \X {"page", "first", "odd", "even"}) \union {<<NoVersion, "error">>, <<NoVersion, "none">>}
NoHash == <<NoVersion, "none">>
ErrorPage == <<NoVersion, "error">>

VARIABLES
  deps,             \* deployment documents
  tasks,            \* the local variables of execute_deployment, by deployment
  req,              \* per process: the request for a deployment it handles
  last,             \* the project's last_deploy_id and last_deploy_status
  rollback,         \* which of Kinds the project has
  site,             \* the version the host serves
  faults            \* faults so far

vars == <<deps, tasks, req, last, rollback, site, faults>>

outside == <<site, rollback>>

-----------------------------------------------------------------------------
NoDep == [status |-> "none", steps |-> [k \in StepKeys |-> "pending"], executor |-> API,
          stale |-> FALSE, commit |-> NoCommit, rollback_to |-> NoCommit]

NoTask == [pc |-> "none", before |-> NoHash, previous |-> NoHash, changed |-> FALSE,
           streak |-> 0, clock |-> "early"]

NoReq == [pc |-> "idle", at |-> 1, row |-> 0]

Init ==
  /\ deps = [d \in DepIds |-> NoDep]
  /\ tasks = [d \in DepIds |-> NoTask]
  /\ req = [p \in Procs |-> NoReq]
  /\ last = [id |-> 0, status |-> "none"]
  /\ rollback \in Rollbacks
  /\ site \in Versions
  /\ faults = 0

Fault(kind) ==
  /\ kind \in Faults
  /\ faults < MaxFaults
  /\ faults' = faults + 1

(* _State.save and _State.step: the changes and a heartbeat are written. *)
Set(steps, changes) == [k \in StepKeys |-> IF k \in DOMAIN changes THEN changes[k] ELSE steps[k]]

Saved(dep, status, changes) ==
  [dep EXCEPT !.status = status, !.steps = Set(dep.steps, changes), !.stale = FALSE]

save(d, status, changes) == deps' = [deps EXCEPT ![d] = Saved(@, status, changes)]

NoChanges == [k \in {} |-> "pending"]

-----------------------------------------------------------------------------
(* A request: deploy_project of the API, _deploy_if_green after a run. *)

Running(d) == tasks[d].pc \notin {"none", "done", "lost"}
Idle(p) == req[p].pc = "idle"
Handling(p, pc) == req[p].pc = pc

Free(d) == deps[d].status = "none" /\ \A e \in DepIds : e < d => deps[e].status # "none"

(* Bound: no more requests once there are MaxDeps deployments, unless one of *)
(* them is to be ended.                                                      *)
Useful == \E d \in DepIds : Free(d) \/ (deps[d].status \in Active /\ deps[d].stale)

(* A worker takes its next run only when its deployments are over. *)
wait_for_deployments(p) == \A d \in DepIds : deps[d].executor = p => ~Running(d)

(* A user asks the API, or a run of a process ends clean. *)
deploy_project(p) == p = API
_deploy_if_green(p) == p \in Workers /\ wait_for_deployments(p)

Ask(p) ==
  /\ Idle(p) /\ Useful
  /\ deploy_project(p) \/ _deploy_if_green(p)
  /\ req' = [req EXCEPT ![p] = [NoReq EXCEPT !.pc = "find"]]
  /\ \/ (\A q \in Procs : Idle(q)) /\ UNCHANGED faults
     \/ (\E q \in Procs : ~Idle(q)) /\ Fault("race")
  /\ UNCHANGED <<deps, tasks, last, outside>>

(* active_deployment looks for one status after the other, oldest row first. *)
Rows(i) == {d \in DepIds : deps[d].status = ACTIVE[i]}

FindNone(p) ==
  /\ Handling(p, "find")
  /\ Rows(req[p].at) = {}
  /\ req' = IF req[p].at < 4 THEN [req EXCEPT ![p].at = @ + 1] ELSE [req EXCEPT ![p].pc = "create"]
  /\ UNCHANGED <<deps, tasks, last, outside, faults>>

\* mutant: a deployment that was never marked started is not looked at
IsStaleOnceStarted(d) == deps[d].stale /\ deps[d].status # "queued"

(* The heartbeat is older than DEPLOY_STALE_SECONDS. *)
IsStale(d) == deps[d].stale

(* The first row decides: stale, it is to be ended; otherwise it is in the   *)
(* way, and the request is refused (the API) or dropped (the worker).        *)
FindRow(p) ==
  /\ Handling(p, "find")
  /\ \E d \in Rows(req[p].at) :
       /\ \A e \in Rows(req[p].at) : d <= e
       /\ req' = [req EXCEPT ![p] = IF IsStale(d) THEN [@ EXCEPT !.pc = "end", !.row = d] ELSE NoReq]
  /\ UNCHANGED <<deps, tasks, last, outside, faults>>

(* _end_if_stale: unless its status changed since it was found. *)
EndStale(p) ==
  /\ Handling(p, "end")
  /\ LET d == req[p].row
         still == deps[d].status = ACTIVE[req[p].at]
     IN /\ deps' = IF still THEN [deps EXCEPT ![d].status = "error"] ELSE deps
        /\ req' = [req EXCEPT ![p] = IF still THEN [@ EXCEPT !.pc = "find"] ELSE NoReq]
  /\ UNCHANGED <<tasks, last, outside, faults>>

(* start_deployment: the document and the task that executes it. *)
Create(p) ==
  /\ Handling(p, "create")
  /\ \/ \E d \in DepIds :
          /\ Free(d)
          /\ deps' = [deps EXCEPT ![d] = [NoDep EXCEPT !.status = "queued", !.executor = p]]
          /\ tasks' = [tasks EXCEPT ![d].pc = "start"]
     \/ ~(\E d \in DepIds : Free(d)) /\ UNCHANGED <<deps, tasks>>
  /\ req' = [req EXCEPT ![p] = NoReq]
  /\ UNCHANGED <<last, outside, faults>>

-----------------------------------------------------------------------------
(* Executing a deployment: execute_deployment and _deploy. *)

At(d, pc) == tasks[d].pc = pc /\ Idle(deps[d].executor)
Goes(d, pc) == tasks' = [tasks EXCEPT ![d].pc = pc]

(* The local variables of wait_healthy are gone when it returns. *)
Leaves(d, pc) == tasks' = [tasks EXCEPT ![d] = [NoTask EXCEPT !.pc = pc]]

(* No hook, no health URL, or one that may not be called; or the project was *)
(* deleted, and nothing is left to show the result.                          *)
Refuse(d) ==
  /\ At(d, "start")
  /\ save(d, "error", NoChanges)
  /\ Leaves(d, "finish") \/ Leaves(d, "done")
  /\ UNCHANGED <<req, last, outside, faults>>

Start(d) ==
  /\ At(d, "start")
  /\ save(d, "deploying", NoChanges)
  /\ Goes(d, "probe")
  /\ UNCHANGED <<req, last, outside, faults>>

(* The page of version v when the request before last saw h. *)
PageOf(v, h, fresh) == <<v, IF v \notin Dynamic THEN "page"
                            ELSE IF fresh THEN "first" ELSE IF h[2] = "odd" THEN "even" ELSE "odd">>

(* _probe: a healthy answer, an error page, or no answer. *)
Answers(h, fresh) ==
  {[ok |-> TRUE, hash |-> PageOf(site, h, fresh)],
   [ok |-> FALSE, hash |-> ErrorPage], [ok |-> FALSE, hash |-> NoHash]}

(* The page before the hook is called: what wait_healthy compares with.  A   *)
(* site that gave no answer counts as changed from the start.                *)
ProbeBefore(d, pc) ==
  \E a \in Answers(NoHash, TRUE) :
    tasks' = [tasks EXCEPT ![d] = [NoTask EXCEPT !.pc = pc, !.before = a.hash, !.changed = a.hash = NoHash]]

Probe(d) ==
  /\ At(d, "probe")
  /\ ProbeBefore(d, "head")
  /\ UNCHANGED <<deps, req, last, outside, faults>>

\* mutant: whatever happened to the earlier deployments
last_verified_any(d, c) ==
  \/ \E e \in DepIds : e < d /\ deps[e].status # "none" /\ c = deps[e].commit
  \/ c = NoCommit

(* last_verified: the commit of the newest earlier deployment that verified. *)
last_verified(d, c) ==
  LET before == {e \in DepIds : e < d /\ deps[e].status = "verified"}
  IN \/ before = {} /\ c = NoCommit
     \/ \E e \in before : (\A f \in before : f <= e) /\ c = deps[e].commit

(* remote_head answered (or not): the commit to ship and the one to go back  *)
(* to are noted.                                                             *)
NoteCommit(d) ==
  /\ At(d, "head")
  /\ \E commit, target \in Commits \union {NoCommit} :
       /\ last_verified(d, target)
       /\ deps' = [deps EXCEPT ![d] = [Saved(@, @.status, [deploy |-> "running"])
                                         EXCEPT !.commit = commit, !.rollback_to = target]]
  /\ Goes(d, "hook")
  /\ UNCHANGED <<req, last, outside, faults>>

(* _call_hook: accepted, or refused, or no answer in time. *)
HookAccepted(d) ==
  /\ At(d, "hook")
  /\ save(d, "verifying", [deploy |-> "done", health |-> "running"])
  /\ Goes(d, "health")
  /\ UNCHANGED <<req, last, outside, faults>>

HookFailed(d) ==
  /\ At(d, "hook")
  /\ save(d, "failed", [deploy |-> "failed", health |-> "skipped", smoke |-> "skipped", rollback |-> "skipped"])
  /\ Leaves(d, "finish")
  /\ UNCHANGED <<req, last, outside, faults>>

-----------------------------------------------------------------------------
(* wait_healthy. *)

\* mutant: one page that differs from the one before is enough
SawNewVersionOnce(t, a) == t.changed \/ (a.ok /\ a.hash # t.before)

(* Two healthy probes in a row agree on a page other than the one before. *)
SawNewVersion(t, a) == t.changed \/ (a.ok /\ a.hash # t.before /\ a.hash = t.previous)

Probed(t, a) ==
  LET changed == SawNewVersion(t, a)
      live == changed \/ t.clock = "settled"
  IN [t EXCEPT !.changed = changed, !.previous = IF a.ok THEN a.hash ELSE NoHash,
               !.streak = IF a.ok /\ live THEN @ + 1 ELSE 0]

(* The outcomes of the next turn of the loop. *)
Heard(d) == {Probed(tasks[d], a) : a \in Answers(tasks[d].previous, FALSE)}
Waits(d, pc) == At(d, pc) /\ tasks[d].clock # "expired"

Poll(d) ==
  /\ Waits(d, "health") \/ Waits(d, "rollback_health")
  /\ \E t \in Heard(d) : t.streak < DEPLOY_HEALTHY_CHECKS /\ tasks' = [tasks EXCEPT ![d] = t]
  /\ save(d, deps[d].status, NoChanges)
  /\ UNCHANGED <<req, last, outside, faults>>

(* The settle time passes, then the deadline. *)
Clock(d) ==
  /\ tasks[d].pc \in {"health", "rollback_health"}
  /\ \/ tasks[d].clock = "early" /\ tasks' = [tasks EXCEPT ![d].clock = "settled"]
     \/ tasks[d].clock = "settled" /\ tasks' = [tasks EXCEPT ![d].clock = "expired"]
  /\ UNCHANGED <<deps, req, last, outside, faults>>

(* Healthy often enough in a row: the smoke tests start, or the rollback is  *)
(* done.                                                                     *)
Healthy(d, pc) ==
  \E t \in Heard(d) : t.streak = DEPLOY_HEALTHY_CHECKS /\ Leaves(d, pc)

HealthPassed(d) ==
  /\ Waits(d, "health")
  /\ Healthy(d, "smoke")
  /\ save(d, deps[d].status, [health |-> "done", smoke |-> "running"])
  /\ UNCHANGED <<req, last, outside, faults>>

RolledBack(d) ==
  /\ Waits(d, "rollback_health")
  /\ Healthy(d, "finish")
  /\ save(d, "rolled_back", [rollback |-> "done"])
  /\ UNCHANGED <<req, last, outside, faults>>

(* _rollback: there is a way back, or the deployment has failed for good. *)
CanRollBack(d) == rollback = "hook" \/ (rollback = "redeploy" /\ deps[d].rollback_to # NoCommit)

_rollback(d, steps) ==
  \/ /\ CanRollBack(d)
     /\ save(d, "rolling_back", steps)
     /\ Leaves(d, "bad_probe")
  \/ /\ ~CanRollBack(d)
     /\ save(d, "failed", [steps EXCEPT !.rollback = "skipped"])
     /\ Leaves(d, "finish")

NotHealthy(d) ==
  /\ At(d, "health")
  /\ tasks[d].clock = "expired"
  /\ _rollback(d, [health |-> "failed", smoke |-> "skipped", rollback |-> "running"])
  /\ UNCHANGED <<req, last, outside, faults>>

\* mutant: smoke tests that failed are noted on their step only
SmokeFailedNoted(d) ==
  /\ At(d, "smoke")
  /\ save(d, "verified", [smoke |-> "failed", rollback |-> "skipped"])
  /\ Leaves(d, "finish")
  /\ UNCHANGED <<req, last, outside, faults>>

(* _smoke: some test failed. *)
SmokeFailed(d) ==
  /\ At(d, "smoke")
  /\ _rollback(d, [smoke |-> "failed", rollback |-> "running"])
  /\ UNCHANGED <<req, last, outside, faults>>

(* All passed, or the project has none. *)
SmokePassed(d) ==
  /\ At(d, "smoke")
  /\ \E result \in {"done", "skipped"} : save(d, "verified", [smoke |-> result, rollback |-> "skipped"])
  /\ Leaves(d, "finish")
  /\ UNCHANGED <<req, last, outside, faults>>

(* What the bad version serves, then the rollback hook or the deploy hook    *)
(* with the commit to go back to.                                            *)
BadProbe(d) ==
  /\ At(d, "bad_probe")
  /\ ProbeBefore(d, "rollback_hook")
  /\ UNCHANGED <<deps, req, last, outside, faults>>

RollbackAccepted(d) ==
  /\ At(d, "rollback_hook")
  /\ Goes(d, "rollback_health")
  /\ UNCHANGED <<deps, req, last, outside, faults>>

RollbackFailed(d) ==
  /\ \/ At(d, "rollback_hook")
     \/ At(d, "rollback_health") /\ tasks[d].clock = "expired"
  /\ save(d, "rollback_failed", [rollback |-> "failed"])
  /\ Leaves(d, "finish")
  /\ UNCHANGED <<req, last, outside, faults>>

(* The end of execute_deployment: the project shows this deployment. *)
Finish(d) ==
  /\ At(d, "finish")
  /\ last' = [id |-> d, status |-> deps[d].status]
  /\ Leaves(d, "done")
  /\ UNCHANGED <<deps, req, outside, faults>>

-----------------------------------------------------------------------------
(* Failures. *)

Crash(d) ==
  /\ Running(d) /\ tasks[d].pc # "finish" /\ Idle(deps[d].executor)
  /\ Fault("crash")
  /\ save(d, "error", NoChanges)
  /\ Leaves(d, "finish")
  /\ UNCHANGED <<req, last, outside>>

(* A save failed and so did the one that would have said so: the task goes   *)
(* on to its end, or the final read fails too and nothing catches that.      *)
Outage(d) ==
  /\ Running(d) /\ Idle(deps[d].executor)
  /\ Fault("outage")
  /\ Leaves(d, "finish") \/ Leaves(d, "lost")
  /\ UNCHANGED <<deps, req, last, outside>>

(* CancelledError: the deployment is ended before the task stops.  It may    *)
(* arrive at "finish", while the HTTP clients are being closed, too.         *)
Cancel(d) ==
  /\ Running(d) /\ Idle(deps[d].executor)
  /\ Fault("cancel")
  /\ save(d, "error", NoChanges)
  /\ Leaves(d, "lost")
  /\ UNCHANGED <<req, last, outside>>

\* mutant: the API ends every active deployment when it starts
RecoveredAll(dep) == IF dep.status \in Active THEN [dep EXCEPT !.status = "error"] ELSE dep

(* recover_interrupted, when the API starts: its own deployments, and a      *)
(* worker's once they are stale.                                             *)
Recovered(dep) ==
  IF dep.status \in Active /\ (dep.executor = API \/ dep.stale)
  THEN [dep EXCEPT !.status = "error"]
  ELSE dep

(* A process dies and is started again; a worker comes back under another id *)
(* and recovers nothing.                                                     *)
Die(p) ==
  /\ Fault("die")
  /\ tasks' = [d \in DepIds |-> IF Running(d) /\ deps[d].executor = p
                                THEN [NoTask EXCEPT !.pc = "lost"] ELSE tasks[d]]
  /\ deps' = [d \in DepIds |-> IF p = API THEN Recovered(deps[d]) ELSE deps[d]]
  /\ req' = [req EXCEPT ![p] = NoReq]
  /\ UNCHANGED <<last, outside>>

(* No heartbeat for DEPLOY_STALE_SECONDS: nobody executes the deployment any *)
(* more, or one of its smoke tests takes that long.                          *)
GoStale(d) ==
  /\ deps[d].status \in Active /\ ~deps[d].stale
  /\ \/ tasks[d].pc \in {"done", "lost"} /\ UNCHANGED faults
     \/ tasks[d].pc = "smoke" /\ Fault("slow")
  /\ deps' = [deps EXCEPT ![d].stale = TRUE]
  /\ UNCHANGED <<tasks, req, last, outside>>

-----------------------------------------------------------------------------
(* The host. *)

Switch ==
  /\ site' \in Versions \ {site}
  /\ UNCHANGED <<deps, tasks, req, last, rollback, faults>>

-----------------------------------------------------------------------------
Handle(p) == FindNone(p) \/ FindRow(p) \/ EndStale(p) \/ Create(p)

Execute(d) ==
  \/ Refuse(d) \/ Start(d) \/ Probe(d) \/ NoteCommit(d) \/ HookAccepted(d) \/ HookFailed(d)
  \/ Poll(d) \/ HealthPassed(d) \/ NotHealthy(d) \/ SmokeFailed(d) \/ SmokePassed(d)
  \/ BadProbe(d) \/ RollbackAccepted(d) \/ RollbackFailed(d) \/ RolledBack(d) \/ Finish(d)

Next ==
  \/ \E p \in Procs : Ask(p) \/ Handle(p) \/ Die(p)
  \/ \E d \in DepIds : Execute(d) \/ Clock(d) \/ Crash(d) \/ Outage(d) \/ Cancel(d) \/ GoStale(d)
  \/ Switch

Spec == Init /\ [][Next]_vars

(* Time passes, somebody asks the API again, and the event loop of a process *)
(* gives each task its turn however many requests come in between.           *)
FairSpec ==
  /\ Spec
  /\ SF_vars(Ask(API))
  /\ \A p \in Procs : WF_vars(Handle(p))
  /\ \A d \in DepIds : SF_vars(Execute(d)) /\ WF_vars(Clock(d)) /\ WF_vars(GoStale(d))

-----------------------------------------------------------------------------
(* Properties. *)

(* What the variables hold. *)
Results == {"pending", "running", "done", "failed", "skipped"}
Steps == [StepKeys -> Results]
Statuses == {"none"} \union Active \union Ended
PCs == {"none", "start", "probe", "head", "hook", "health", "smoke", "bad_probe",
        "rollback_hook", "rollback_health", "finish", "done", "lost"}

Docs == [status : Statuses, steps : Steps, executor : Procs, stale : BOOLEAN,
         commit : Commits \union {NoCommit}, rollback_to : Commits \union {NoCommit}]
Tasks == [pc : PCs, before : Hashes, previous : Hashes, changed : BOOLEAN,
          streak : 0..DEPLOY_HEALTHY_CHECKS, clock : {"early", "settled", "expired"}]
Reqs == [pc : {"idle", "find", "end", "create"}, at : 1..4, row : DepIds \union {0}]

(* The type invariant. *)
TypeOK ==
  /\ deps \in [DepIds -> Docs]
  /\ tasks \in [DepIds -> Tasks]
  /\ req \in [Procs -> Reqs]
  /\ last \in [id : DepIds \union {0}, status : Statuses]
  /\ rollback \in Rollbacks
  /\ site \in Versions
  /\ faults \in 0..MaxFaults

PassedAll(s) ==
  /\ s.deploy = "done" /\ s.health = "done" /\ s.smoke \in {"done", "skipped"}
  /\ s.rollback = "skipped"

(* The result says what the steps show: a verified deployment passed every   *)
(* check, a rolled back one failed a check and its rollback was healthy, and *)
(* one that just failed had no way back.                                     *)
ResultFitsSteps ==
  \A d \in DepIds :
    LET s == deps[d].steps
    IN /\ deps[d].status = "verified" => PassedAll(s)
       /\ deps[d].status \in {"rolled_back", "rollback_failed"} =>
            /\ "failed" \in {s.health, s.smoke}
            /\ s.rollback = IF deps[d].status = "rolled_back" THEN "done" ELSE "failed"
       /\ deps[d].status = "failed" => /\ "failed" \in {s.deploy, s.health, s.smoke}
                                       /\ s.rollback = "skipped"

(* A result is final: neither the recovery of a restarted API, nor a request *)
(* that takes a deployment for abandoned, nor the deployment itself changes  *)
(* it afterwards.  Excepted is a task cancelled while it closes its HTTP     *)
(* clients: it says "interrupted" in place of the result it has just saved.  *)
EndedIsFinal ==
  [][\A d \in DepIds :
       deps[d].status \in Ended =>
         \/ deps'[d].status = deps[d].status
         \/ tasks[d].pc = "finish" /\ tasks'[d].pc = "lost" /\ deps'[d].status = "error"]_vars

(* "a page that differs on every request proves nothing": when the site      *)
(* answered healthily before the hook was called, wait_healthy takes a new   *)
(* version for live only while the site serves another version than then.    *)
ChangeIsReal ==
  [][\A d \in DepIds :
       LET was == tasks[d].before[1]
       IN (/\ tasks[d].pc \in {"health", "rollback_health"} /\ was # NoVersion
           /\ tasks'[d].changed /\ ~tasks[d].changed)
          => site # was]_vars

(* A rollback goes back to a commit that passed every check of an earlier    *)
(* deployment.                                                               *)
RollbackIsVerified ==
  \A d \in DepIds : deps[d].rollback_to # NoCommit =>
    \E e \in DepIds : e < d /\ PassedAll(deps[e].steps) /\ deps[e].commit = deps[d].rollback_to

(* "never leave the deployment active (that would block every later deploy   *)
(* of the project)": it ends, or is ended once its process is gone.          *)
DeploymentEnds ==
  \A d \in DepIds : deps[d].status \in Active ~> deps[d].status \notin Active
=============================================================================
