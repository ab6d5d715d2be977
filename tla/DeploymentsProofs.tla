-------------------------- MODULE DeploymentsProofs --------------------------
(***************************************************************************)
(* Proofs about Deployments, for any number of processes, deployments,     *)
(* commits, versions, probes and faults.                                   *)
(***************************************************************************)
EXTENDS Deployments, TLAPS

----------------------------------------------------------------------------
(* Type correctness *)

\* The active statuses are the four active_deployment looks for.
LEMMA ActiveValues == Active = {"queued", "deploying", "verifying", "rolling_back"}
<1>1. DOMAIN ACTIVE = 1..4
  BY DEF ACTIVE
<1>2. 1..4 = {1, 2, 3, 4}
  OBVIOUS
<1>3. Active = {ACTIVE[i] : i \in {1, 2, 3, 4}}
  BY <1>1, <1>2 DEF Active
<1>4. Active = {ACTIVE[1], ACTIVE[2], ACTIVE[3], ACTIVE[4]}
  BY <1>3
<1> QED BY <1>4 DEF ACTIVE

\* Writing results over some of the steps leaves steps.
LEMMA SetType ==
  ASSUME NEW s \in Steps, NEW c, \A k \in DOMAIN c : c[k] \in Results
  PROVE  Set(s, c) \in Steps
BY DEF Set, Steps

\* _State.save leaves a document.
LEMMA SavedType ==
  ASSUME NEW dep \in Docs, NEW st \in Statuses, NEW c, \A k \in DOMAIN c : c[k] \in Results
  PROVE  Saved(dep, st, c) \in Docs
<1>1. Set(dep.steps, c) \in Steps
  BY SetType DEF Docs
<1> QED BY <1>1 DEF Saved, Docs

LEMMA NoDepType == NoDep \in Docs
BY DEF NoDep, Docs, Steps, Results, Statuses, Procs

\* A task that starts its next phase with nothing in its locals.
LEMMA NoTaskType ==
  ASSUME NEW pc \in PCs
  PROVE  [NoTask EXCEPT !.pc = pc] \in Tasks
<1>1. NoHash \in Hashes
  BY DEF NoHash, Hashes
<1>2. 0 \in 0..DEPLOY_HEALTHY_CHECKS
  BY DeploymentsAssumption
<1> QED BY <1>1, <1>2 DEF NoTask, Tasks

LEMMA NoReqType ==
  ASSUME NEW pc \in {"idle", "find", "end", "create"}
  PROVE  NoReq \in Reqs /\ [NoReq EXCEPT !.pc = pc] \in Reqs
BY DEF NoReq, Reqs

\* A healthy probe hears the page of the version the site serves.
LEMMA AnswersHear ==
  ASSUME NEW h, NEW fresh, NEW a \in Answers(h, fresh)
  PROVE  /\ a.hash \in {PageOf(site, h, fresh), ErrorPage, NoHash}
         /\ a.ok => a.hash = PageOf(site, h, fresh)
<1>1. a.hash \in {PageOf(site, h, fresh), ErrorPage, NoHash}
  BY DEF Answers
<1>2. ASSUME a.ok PROVE a.hash = PageOf(site, h, fresh)
  <2>1. CASE a = [ok |-> FALSE, hash |-> ErrorPage]
    BY <1>2, <2>1
  <2>2. CASE a = [ok |-> FALSE, hash |-> NoHash]
    BY <1>2, <2>2
  <2>3. CASE a = [ok |-> TRUE, hash |-> PageOf(site, h, fresh)]
    BY <2>3
  <2> QED BY <2>1, <2>2, <2>3, Zenon DEF Answers
<1> QED BY <1>1, <1>2

\* What a probe hears is a hash.
LEMMA AnswersType ==
  ASSUME site \in Versions, NEW h, NEW fresh, NEW a \in Answers(h, fresh)
  PROVE  a.hash \in Hashes
<1>1. PageOf(site, h, fresh) \in Hashes
  BY DEF PageOf, Hashes
<1>2. NoHash \in Hashes /\ ErrorPage \in Hashes
  BY DEF NoHash, ErrorPage, Hashes
<1> QED BY <1>1, <1>2, AnswersHear

\* One turn of wait_healthy counts at most one probe.
LEMMA HeardType ==
  ASSUME site \in Versions, tasks \in [DepIds -> Tasks], NEW d \in DepIds, NEW t \in Heard(d),
         t.streak < DEPLOY_HEALTHY_CHECKS
  PROVE  t \in Tasks /\ t.pc = tasks[d].pc /\ t.before = tasks[d].before
<1>1. PICK a \in Answers(tasks[d].previous, FALSE) : t = Probed(tasks[d], a)
  BY DEF Heard
<1>2. a.hash \in Hashes
  BY <1>1, AnswersType
<1>3. tasks[d] \in Tasks
  OBVIOUS
<1>4. SawNewVersion(tasks[d], a) \in BOOLEAN
  BY <1>2, <1>3 DEF SawNewVersion, Tasks
<1>5. NoHash \in Hashes
  BY DEF NoHash, Hashes
<1> DEFINE previous == IF a.ok THEN a.hash ELSE NoHash
           live == SawNewVersion(tasks[d], a) \/ tasks[d].clock = "settled"
           streak == IF a.ok /\ live THEN tasks[d].streak + 1 ELSE 0
<1>6. t = [tasks[d] EXCEPT !.changed = SawNewVersion(tasks[d], a), !.previous = previous, !.streak = streak]
  BY <1>1 DEF Probed
<1>7. previous \in Hashes /\ streak \in Nat
  BY <1>2, <1>3, <1>5, DeploymentsAssumption DEF Tasks
<1> HIDE DEF previous, live, streak
<1>8. t.streak = streak
  BY <1>3, <1>6 DEF Tasks
<1>9. streak \in 0..DEPLOY_HEALTHY_CHECKS
  BY <1>7, <1>8, DeploymentsAssumption
<1> QED BY <1>3, <1>4, <1>6, <1>7, <1>9 DEF Tasks

LEMMA InitType == ASSUME Init PROVE TypeOK
<1>1. NoHash \in Hashes /\ 0 \in 0..DEPLOY_HEALTHY_CHECKS
  BY DeploymentsAssumption DEF NoHash, Hashes
<1>2. NoTask \in Tasks
  BY <1>1 DEF NoTask, Tasks, PCs
<1>3. faults \in 0..MaxFaults
  BY DeploymentsAssumption DEF Init
<1>4. last \in [id : DepIds \union {0}, status : Statuses]
  BY DEF Init, Statuses
<1> QED BY <1>2, <1>3, <1>4, NoDepType, NoReqType DEF TypeOK, Init

LEMMA FaultType ==
  ASSUME faults \in 0..MaxFaults, NEW kind, Fault(kind)
  PROVE  faults' \in 0..MaxFaults
BY DeploymentsAssumption DEF Fault

LEMMA SaveType ==
  ASSUME deps \in [DepIds -> Docs], NEW d \in DepIds, NEW st \in Statuses, NEW c,
         \A k \in DOMAIN c : c[k] \in Results, save(d, st, c)
  PROVE  deps' \in [DepIds -> Docs]
BY SavedType DEF save

LEMMA LeavesType ==
  ASSUME tasks \in [DepIds -> Tasks], NEW d \in DepIds, NEW pc \in PCs, Leaves(d, pc) \/ Goes(d, pc)
  PROVE  tasks' \in [DepIds -> Tasks]
<1>1. CASE Leaves(d, pc)
  BY <1>1, NoTaskType DEF Leaves
<1>2. CASE Goes(d, pc)
  BY <1>2 DEF Goes, Tasks
<1> QED BY <1>1, <1>2

LEMMA ProbeBeforeType ==
  ASSUME tasks \in [DepIds -> Tasks], site \in Versions,
         NEW d \in DepIds, NEW pc \in PCs, ProbeBefore(d, pc)
  PROVE  tasks' \in [DepIds -> Tasks]
<1>1. PICK a \in Answers(NoHash, TRUE) :
        tasks' = [tasks EXCEPT ![d] = [NoTask EXCEPT !.pc = pc, !.before = a.hash, !.changed = a.hash = NoHash]]
  BY DEF ProbeBefore
<1>2. a.hash \in Hashes
  BY AnswersType
<1>3. [NoTask EXCEPT !.pc = pc] \in Tasks
  BY NoTaskType
<1>4. [NoTask EXCEPT !.pc = pc, !.before = a.hash, !.changed = a.hash = NoHash] \in Tasks
  BY <1>2, <1>3 DEF Tasks, NoTask
<1> QED BY <1>1, <1>4

LEMMA RequestType ==
  ASSUME TypeOK, NEW p \in Procs, Ask(p) \/ Handle(p)
  PROVE  TypeOK'
<1> USE DEF TypeOK, outside
<1>1. CASE Ask(p)
  <2>1. faults' \in 0..MaxFaults
    BY <1>1, FaultType DEF Ask
  <2>2. req' \in [Procs -> Reqs]
    BY <1>1, NoReqType DEF Ask
  <2> QED BY <1>1, <2>1, <2>2 DEF Ask
<1>2. CASE FindNone(p)
  <2>1. req' \in [Procs -> Reqs]
    <3>1. req[p].at < 4 => req[p].at + 1 \in 1..4
      BY DEF Reqs
    <3> QED BY <1>2, <3>1 DEF FindNone, Reqs
  <2> QED BY <1>2, <2>1 DEF FindNone
<1>3. CASE FindRow(p)
  <2>1. req' \in [Procs -> Reqs]
    <3>1. PICK d \in DepIds :
            req' = [req EXCEPT ![p] = IF IsStale(d) THEN [req[p] EXCEPT !.pc = "end", !.row = d] ELSE NoReq]
      BY <1>3 DEF FindRow, Rows
    <3>2. [req[p] EXCEPT !.pc = "end", !.row = d] \in Reqs
      BY DEF Reqs
    <3> QED BY <3>1, <3>2, NoReqType
  <2> QED BY <1>3, <2>1 DEF FindRow
<1>4. CASE EndStale(p)
  <2>1. req' \in [Procs -> Reqs]
    BY <1>4, NoReqType DEF EndStale, Reqs
  <2>2. deps' \in [DepIds -> Docs]
    <3>1. \A d \in DepIds : [deps[d] EXCEPT !.status = "error"] \in Docs
      BY DEF Docs, Statuses, Ended
    <3>2. deps' = deps \/ deps' = [deps EXCEPT ![req[p].row].status = "error"]
      BY <1>4 DEF EndStale
    <3> QED BY <3>1, <3>2
  <2> QED BY <1>4, <2>1, <2>2 DEF EndStale
<1>5. CASE Create(p)
  <2>1. req' \in [Procs -> Reqs]
    BY <1>5, NoReqType DEF Create
  <2>2. [NoDep EXCEPT !.status = "queued", !.executor = p] \in Docs
    BY NoDepType, ActiveValues DEF Docs, Statuses
  <2>3. deps' \in [DepIds -> Docs]
    BY <1>5, <2>2 DEF Create
  <2>4. tasks' \in [DepIds -> Tasks]
    BY <1>5 DEF Create, Tasks, PCs
  <2> QED BY <1>5, <2>1, <2>3, <2>4 DEF Create
<1> QED BY <1>1, <1>2, <1>3, <1>4, <1>5 DEF Handle

LEMMA RollbackType ==
  ASSUME TypeOK, NEW d \in DepIds, NEW c, "rollback" \in DOMAIN c,
         \A k \in DOMAIN c : c[k] \in Results, _rollback(d, c)
  PROVE  deps' \in [DepIds -> Docs] /\ tasks' \in [DepIds -> Tasks]
<1>1. "rolling_back" \in Statuses /\ "failed" \in Statuses /\ "bad_probe" \in PCs /\ "finish" \in PCs
  BY ActiveValues DEF Statuses, Ended, PCs
<1>2. CASE save(d, "rolling_back", c) /\ Leaves(d, "bad_probe")
  BY <1>1, <1>2, SaveType, LeavesType DEF TypeOK
<1>3. CASE save(d, "failed", [c EXCEPT !.rollback = "skipped"]) /\ Leaves(d, "finish")
  <2>1. \A k \in DOMAIN [c EXCEPT !.rollback = "skipped"] : [c EXCEPT !.rollback = "skipped"][k] \in Results
    BY DEF Results
  <2> QED BY <1>1, <1>3, <2>1, SaveType, LeavesType DEF TypeOK
<1> QED BY <1>2, <1>3 DEF _rollback

\* The changes each step of a deployment writes are results.
LEMMA ExecuteType ==
  ASSUME TypeOK, NEW d \in DepIds, Execute(d)
  PROVE  TypeOK'
<1>0. /\ {"error", "deploying", "failed", "verifying", "verified", "rollback_failed", "rolled_back"} \subseteq Statuses
      /\ {"finish", "done", "probe", "head", "hook", "health", "smoke",
          "rollback_hook", "rollback_health"} \subseteq PCs
      /\ deps[d].status \in Statuses
  BY ActiveValues DEF TypeOK, Statuses, Ended, PCs, Docs
<1>1. UNCHANGED <<req, outside, faults>>
  BY DEF Execute, Refuse, Start, Probe, NoteCommit, HookAccepted, HookFailed, Poll, HealthPassed, NotHealthy,
         SmokeFailed, SmokePassed, BadProbe, RollbackAccepted, RollbackFailed, RolledBack, Finish
<1>2. last' \in [id : DepIds \union {0}, status : Statuses]
  <2>1. last' = last \/ last' = [id |-> d, status |-> deps[d].status]
    BY DEF Execute, Refuse, Start, Probe, NoteCommit, HookAccepted, HookFailed, Poll, HealthPassed, NotHealthy,
           SmokeFailed, SmokePassed, BadProbe, RollbackAccepted, RollbackFailed, RolledBack, Finish
  <2> QED BY <1>0, <2>1 DEF TypeOK
<1> SUFFICES deps' \in [DepIds -> Docs] /\ tasks' \in [DepIds -> Tasks]
  BY <1>1, <1>2 DEF TypeOK, outside
<1> USE <1>0 DEF TypeOK
<1>3. CASE Refuse(d) \/ Start(d)
  <2>1. \A k \in DOMAIN NoChanges : NoChanges[k] \in Results
    BY DEF NoChanges
  <2> QED BY <1>3, <2>1, SaveType, LeavesType DEF Refuse, Start
<1>4. CASE Probe(d)
  BY <1>4, ProbeBeforeType DEF Probe
<1>5. CASE NoteCommit(d)
  <2>1. PICK commit, target \in Commits \union {NoCommit} :
          deps' = [deps EXCEPT ![d] = [Saved(deps[d], deps[d].status, [deploy |-> "running"])
                                         EXCEPT !.commit = commit, !.rollback_to = target]]
    BY <1>5 DEF NoteCommit
  <2>2. Saved(deps[d], deps[d].status, [deploy |-> "running"]) \in Docs
    BY SavedType DEF Results
  <2>3. deps' \in [DepIds -> Docs]
    BY <2>1, <2>2 DEF Docs
  <2> QED BY <1>5, <2>3, LeavesType DEF NoteCommit
<1>6. CASE HookAccepted(d)
  <2> DEFINE c == [deploy |-> "done", health |-> "running"]
  <2>1. \A k \in DOMAIN c : c[k] \in Results
    BY DEF Results
  <2>2. save(d, "verifying", c) /\ Goes(d, "health")
    BY <1>6 DEF HookAccepted
  <2> QED BY <2>1, <2>2, SaveType, LeavesType
<1>7. CASE HookFailed(d)
  <2> DEFINE c == [deploy |-> "failed", health |-> "skipped", smoke |-> "skipped", rollback |-> "skipped"]
  <2>1. \A k \in DOMAIN c : c[k] \in Results
    BY DEF Results
  <2>2. save(d, "failed", c) /\ Leaves(d, "finish")
    BY <1>7 DEF HookFailed
  <2> QED BY <2>1, <2>2, SaveType, LeavesType
<1>8. CASE Poll(d)
  <2>1. \A k \in DOMAIN NoChanges : NoChanges[k] \in Results
    BY DEF NoChanges
  <2> QED BY <1>8, <2>1, SaveType, HeardType DEF Poll
<1>9. CASE HealthPassed(d)
  <2> DEFINE c == [health |-> "done", smoke |-> "running"]
  <2>1. \A k \in DOMAIN c : c[k] \in Results
    BY DEF Results
  <2>2. save(d, deps[d].status, c) /\ Leaves(d, "smoke")
    BY <1>9 DEF HealthPassed, Healthy
  <2> QED BY <2>1, <2>2, SaveType, LeavesType
<1>10. CASE NotHealthy(d)
  <2> DEFINE c == [health |-> "failed", smoke |-> "skipped", rollback |-> "running"]
  <2>1. "rollback" \in DOMAIN c /\ \A k \in DOMAIN c : c[k] \in Results
    BY DEF Results
  <2>2. _rollback(d, c)
    BY <1>10 DEF NotHealthy
  <2> QED BY <2>1, <2>2, RollbackType
<1>11. CASE SmokeFailed(d)
  <2> DEFINE c == [smoke |-> "failed", rollback |-> "running"]
  <2>1. "rollback" \in DOMAIN c /\ \A k \in DOMAIN c : c[k] \in Results
    BY DEF Results
  <2>2. _rollback(d, c)
    BY <1>11 DEF SmokeFailed
  <2> QED BY <2>1, <2>2, RollbackType
<1>12. CASE SmokePassed(d)
  <2>1. PICK result \in {"done", "skipped"} : save(d, "verified", [smoke |-> result, rollback |-> "skipped"])
    BY <1>12 DEF SmokePassed
  <2>2. \A k \in DOMAIN [smoke |-> result, rollback |-> "skipped"] :
          [smoke |-> result, rollback |-> "skipped"][k] \in Results
    BY DEF Results
  <2> QED BY <1>12, <2>1, <2>2, SaveType, LeavesType DEF SmokePassed
<1>13. CASE BadProbe(d)
  BY <1>13, ProbeBeforeType DEF BadProbe
<1>14. CASE RollbackAccepted(d)
  BY <1>14, LeavesType DEF RollbackAccepted
<1>15. CASE RollbackFailed(d)
  <2>1. \A k \in DOMAIN [rollback |-> "failed"] : [rollback |-> "failed"][k] \in Results
    BY DEF Results
  <2> QED BY <1>15, <2>1, SaveType, LeavesType DEF RollbackFailed
<1>16. CASE RolledBack(d)
  <2>1. \A k \in DOMAIN [rollback |-> "done"] : [rollback |-> "done"][k] \in Results
    BY DEF Results
  <2> QED BY <1>16, <2>1, SaveType, LeavesType DEF RolledBack, Healthy
<1>17. CASE Finish(d)
  BY <1>17, LeavesType DEF Finish
<1> QED BY <1>3, <1>4, <1>5, <1>6, <1>7, <1>8, <1>9, <1>10, <1>11, <1>12, <1>13, <1>14, <1>15, <1>16, <1>17
        DEF Execute

LEMMA FailureType ==
  ASSUME TypeOK, NEW d \in DepIds, Clock(d) \/ Crash(d) \/ Outage(d) \/ Cancel(d) \/ GoStale(d)
  PROVE  TypeOK'
<1> USE DEF TypeOK, outside
<1>0. "error" \in Statuses /\ "finish" \in PCs /\ "lost" \in PCs
  BY DEF Statuses, Ended, PCs
<1>1. \A k \in DOMAIN NoChanges : NoChanges[k] \in Results
  BY DEF NoChanges
<1>2. CASE Clock(d)
  <2>1. tasks' \in [DepIds -> Tasks]
    BY <1>2 DEF Clock, Tasks
  <2> QED BY <1>2, <2>1 DEF Clock
<1>3. CASE Crash(d) \/ Outage(d) \/ Cancel(d)
  <2>1. faults' \in 0..MaxFaults
    BY <1>3, FaultType DEF Crash, Outage, Cancel
  <2>2. tasks' \in [DepIds -> Tasks]
    BY <1>0, <1>3, LeavesType DEF Crash, Outage, Cancel
  <2>3. deps' \in [DepIds -> Docs]
    BY <1>0, <1>1, <1>3, SaveType DEF Crash, Outage, Cancel
  <2> QED BY <1>3, <2>1, <2>2, <2>3 DEF Crash, Outage, Cancel
<1>4. CASE GoStale(d)
  <2>1. [deps[d] EXCEPT !.stale = TRUE] \in Docs
    BY DEF Docs
  <2>2. deps' \in [DepIds -> Docs]
    BY <1>4, <2>1 DEF GoStale
  <2> QED BY <1>4, <2>2, FaultType DEF GoStale
<1> QED BY <1>2, <1>3, <1>4

LEMMA DieType ==
  ASSUME TypeOK, NEW p \in Procs, Die(p)
  PROVE  TypeOK'
<1> USE DEF TypeOK, outside
<1>1. tasks' \in [DepIds -> Tasks]
  BY NoTaskType DEF Die, PCs
<1>2. \A d \in DepIds : Recovered(deps[d]) \in Docs
  BY DEF Recovered, Docs, Statuses, Ended
<1>3. deps' \in [DepIds -> Docs]
  BY <1>2 DEF Die
<1> QED BY <1>1, <1>3, NoReqType, FaultType DEF Die

LEMMA NextType == ASSUME TypeOK, [Next]_vars PROVE TypeOK'
<1>1. CASE \E p \in Procs : Ask(p) \/ Handle(p) \/ Die(p)
  BY <1>1, RequestType, DieType
<1>2. CASE \E d \in DepIds : Execute(d) \/ Clock(d) \/ Crash(d) \/ Outage(d) \/ Cancel(d) \/ GoStale(d)
  BY <1>2, ExecuteType, FailureType
<1>3. CASE Switch
  BY <1>3 DEF Switch, TypeOK
<1>4. CASE UNCHANGED vars
  BY <1>4 DEF vars, outside, TypeOK
<1> QED BY <1>1, <1>2, <1>3, <1>4 DEF Next

\* Every variable keeps its type.
THEOREM TypeCorrect == Spec => []TypeOK
BY InitType, NextType, PTL DEF Spec

----------------------------------------------------------------------------
(* The result of a deployment and its steps *)

Working == {"start", "probe", "head", "hook", "health", "smoke", "bad_probe", "rollback_hook", "rollback_health"}
Over == {"finish", "done", "lost"}

\* What the place of a task says of its document: while it works the status
\* has not been decided (or was ended by somebody else), and the steps tell
\* which checks are behind it.  With ResultFitsSteps this is inductive.
Fits(dep, pc) ==
  LET s == dep.steps
  IN /\ pc = "none" <=> dep.status = "none"
     /\ pc \in Working => dep.status \in Active \union {"error"}
     /\ pc \in {"health", "smoke"} => s.deploy = "done"
     /\ pc = "smoke" => s.health = "done"
     /\ pc \in {"bad_probe", "rollback_hook", "rollback_health"} => "failed" \in {s.health, s.smoke}
     /\ dep.status = "verified" => PassedAll(s)
     /\ dep.status \in {"rolled_back", "rollback_failed"} =>
          /\ "failed" \in {s.health, s.smoke}
          /\ s.rollback = IF dep.status = "rolled_back" THEN "done" ELSE "failed"
     /\ dep.status = "failed" => /\ "failed" \in {s.deploy, s.health, s.smoke}
                                 /\ s.rollback = "skipped"

PhasesFit == \A d \in DepIds : Fits(deps[d], tasks[d].pc)

Own(d) == Execute(d) \/ Clock(d) \/ Crash(d) \/ Outage(d) \/ Cancel(d) \/ GoStale(d)

\* A step of one deployment leaves the others, and every request, alone.
LEMMA OwnFrame ==
  ASSUME TypeOK, NEW d \in DepIds, Own(d)
  PROVE  /\ \A e \in DepIds \ {d} : deps'[e] = deps[e] /\ tasks'[e] = tasks[e]
         /\ req' = req
<1> USE DEF TypeOK, save, Leaves, Goes, ProbeBefore
<1>1. CASE Execute(d)
  <2>1. CASE Refuse(d) \/ Start(d) \/ Probe(d) \/ NoteCommit(d) \/ HookAccepted(d) \/ HookFailed(d)
    BY <2>1 DEF Refuse, Start, Probe, NoteCommit, HookAccepted, HookFailed
  <2>2. CASE Poll(d) \/ HealthPassed(d)
    BY <2>2 DEF Poll, HealthPassed, Healthy
  <2>3. CASE NotHealthy(d) \/ SmokeFailed(d)
    BY <2>3 DEF NotHealthy, SmokeFailed, _rollback
  <2>4. CASE SmokePassed(d) \/ BadProbe(d) \/ RollbackAccepted(d) \/ RollbackFailed(d) \/ RolledBack(d) \/ Finish(d)
    BY <2>4 DEF SmokePassed, BadProbe, RollbackAccepted, RollbackFailed, RolledBack, Healthy, Finish
  <2> QED BY <1>1, <2>1, <2>2, <2>3, <2>4 DEF Execute
<1>2. CASE Clock(d) \/ Crash(d) \/ Outage(d) \/ Cancel(d) \/ GoStale(d)
  BY <1>2 DEF Clock, Crash, Outage, Cancel, GoStale
<1> QED BY <1>1, <1>2 DEF Own

\* What a save leaves in the document: the status, and each step it names.
LEMMA SaveEffect ==
  ASSUME TypeOK, NEW d \in DepIds, NEW st, NEW c, save(d, st, c)
  PROVE  /\ deps'[d].status = st
         /\ \A k \in StepKeys : deps'[d].steps[k] = IF k \in DOMAIN c THEN c[k] ELSE deps[d].steps[k]
         /\ deps'[d].executor = deps[d].executor /\ ~deps'[d].stale
         /\ deps'[d].commit = deps[d].commit /\ deps'[d].rollback_to = deps[d].rollback_to
BY DEF TypeOK, Docs, save, Saved, Set

LEMMA LeavesEffect ==
  ASSUME TypeOK, NEW d \in DepIds, NEW pc, Leaves(d, pc) \/ Goes(d, pc) \/ ProbeBefore(d, pc)
  PROVE  tasks'[d].pc = pc
<1>1. CASE Leaves(d, pc)
  BY <1>1 DEF TypeOK, Leaves, NoTask
<1>2. CASE Goes(d, pc)
  BY <1>2 DEF TypeOK, Tasks, Goes
<1>3. CASE ProbeBefore(d, pc)
  BY <1>3 DEF TypeOK, ProbeBefore, NoTask
<1> QED BY <1>1, <1>2, <1>3

\* Each step of a deployment leaves its document and its place fitting.
LEMMA ExecuteFits ==
  ASSUME TypeOK, NEW d \in DepIds, Fits(deps[d], tasks[d].pc), Execute(d)
  PROVE  Fits(deps'[d], tasks'[d].pc)
<1> USE ActiveValues, SaveEffect, LeavesEffect DEF Fits, PassedAll, Working, At, StepKeys
<1>1. DOMAIN NoChanges = {}
  BY DEF NoChanges
<1>2. CASE Refuse(d)
  BY <1>1, <1>2 DEF Refuse
<1>3. CASE Start(d)
  BY <1>1, <1>3 DEF Start
<1>4. CASE Probe(d)
  BY <1>4 DEF Probe
<1>5. CASE NoteCommit(d)
  <2>1. /\ deps'[d].status = deps[d].status
        /\ tasks'[d].pc = "hook"
    BY <1>5 DEF NoteCommit, TypeOK, Docs, Saved
  <2> QED BY <1>5, <2>1 DEF NoteCommit
<1>6. CASE HookAccepted(d)
  BY <1>6 DEF HookAccepted
<1>7. CASE HookFailed(d)
  BY <1>7 DEF HookFailed
<1>8. CASE Poll(d)
  <2>1. tasks'[d].pc = tasks[d].pc
    BY <1>8, HeardType DEF Poll, TypeOK
  <2>2. deps'[d].status = deps[d].status /\ \A k \in StepKeys : deps'[d].steps[k] = deps[d].steps[k]
    BY <1>1, <1>8 DEF Poll
  <2> QED BY <2>1, <2>2
<1>9. CASE HealthPassed(d)
  <2>1. Leaves(d, "smoke")
    BY <1>9 DEF HealthPassed, Healthy
  <2> QED BY <1>9, <2>1 DEF HealthPassed, Waits
<1>10. CASE NotHealthy(d)
  BY <1>10 DEF NotHealthy, _rollback
<1>11. CASE SmokeFailed(d)
  BY <1>11 DEF SmokeFailed, _rollback
<1>12. CASE SmokePassed(d)
  BY <1>12 DEF SmokePassed
<1>13. CASE BadProbe(d)
  BY <1>13 DEF BadProbe
<1>14. CASE RollbackAccepted(d)
  BY <1>14 DEF RollbackAccepted
<1>15. CASE RollbackFailed(d)
  BY <1>15 DEF RollbackFailed
<1>16. CASE RolledBack(d)
  <2>1. Leaves(d, "finish")
    BY <1>16 DEF RolledBack, Healthy
  <2> QED BY <1>16, <2>1 DEF RolledBack, Waits
<1>17. CASE Finish(d)
  BY <1>17 DEF Finish
<1> QED BY <1>2, <1>3, <1>4, <1>5, <1>6, <1>7, <1>8, <1>9, <1>10, <1>11, <1>12, <1>13, <1>14, <1>15, <1>16, <1>17
        DEF Execute

\* So does each failure.
LEMMA FailureFits ==
  ASSUME TypeOK, NEW d \in DepIds, Fits(deps[d], tasks[d].pc),
         Clock(d) \/ Crash(d) \/ Outage(d) \/ Cancel(d) \/ GoStale(d)
  PROVE  Fits(deps'[d], tasks'[d].pc)
<1> USE ActiveValues, SaveEffect, LeavesEffect DEF Fits, PassedAll, Working, Running, StepKeys
<1>1. DOMAIN NoChanges = {}
  BY DEF NoChanges
<1>2. CASE Clock(d)
  <2>1. tasks'[d].pc = tasks[d].pc /\ deps' = deps
    BY <1>2 DEF Clock, TypeOK, Tasks
  <2> QED BY <2>1
<1>3. CASE Crash(d)
  BY <1>1, <1>3 DEF Crash
<1>4. CASE Outage(d)
  BY <1>4 DEF Outage, TypeOK, Docs
<1>5. CASE Cancel(d)
  BY <1>1, <1>5 DEF Cancel
<1>6. CASE GoStale(d)
  <2>1. deps'[d].status = deps[d].status /\ deps'[d].steps = deps[d].steps /\ tasks' = tasks
    BY <1>6 DEF GoStale, TypeOK, Docs
  <2> QED BY <2>1
<1> QED BY <1>2, <1>3, <1>4, <1>5, <1>6

LEMMA OwnFits ==
  ASSUME TypeOK, PhasesFit, NEW d \in DepIds, Own(d)
  PROVE  PhasesFit'
<1>1. Fits(deps'[d], tasks'[d].pc)
  BY ExecuteFits, FailureFits DEF Own, PhasesFit
<1>2. \A e \in DepIds \ {d} : Fits(deps'[e], tasks'[e].pc)
  BY OwnFrame DEF PhasesFit
<1> QED BY <1>1, <1>2 DEF PhasesFit

\* A document that is ended by somebody else says "error", which fits any
\* place of its task but the one that has not begun.
LEMMA EndedFits ==
  ASSUME NEW dep \in Docs, NEW pc, Fits(dep, pc), dep.status \in Active
  PROVE  Fits([dep EXCEPT !.status = "error"], pc)
BY ActiveValues DEF Fits, Docs, PassedAll

LEMMA RequestFits ==
  ASSUME TypeOK, PhasesFit, NEW p \in Procs, Ask(p) \/ Handle(p)
  PROVE  PhasesFit'
<1>1. CASE Ask(p) \/ FindNone(p) \/ FindRow(p)
  BY <1>1 DEF Ask, FindNone, FindRow, PhasesFit
<1>2. CASE EndStale(p)
  <2> DEFINE r == req[p].row
  <2>1. req[p].at \in 1..4
    BY DEF TypeOK, Reqs
  <2>2. ACTIVE[req[p].at] \in Active
    BY <2>1 DEF Active, ACTIVE
  <2>3. \A d \in DepIds : deps'[d] = deps[d] \/ (d = r /\ deps[d].status \in Active
                                                /\ deps'[d] = [deps[d] EXCEPT !.status = "error"])
    BY <1>2, <2>2 DEF EndStale, TypeOK
  <2> QED BY <1>2, <2>3, EndedFits DEF EndStale, PhasesFit, TypeOK
<1>3. CASE Create(p)
  <2>1. \A d \in DepIds : \/ deps'[d] = deps[d] /\ tasks'[d].pc = tasks[d].pc
                          \/ deps'[d] = [NoDep EXCEPT !.status = "queued", !.executor = p] /\ tasks'[d].pc = "start"
    BY <1>3 DEF Create, TypeOK, Tasks
  <2>2. Fits([NoDep EXCEPT !.status = "queued", !.executor = p], "start")
    BY ActiveValues DEF Fits, NoDep, Working
  <2> QED BY <2>1, <2>2 DEF PhasesFit
<1> QED BY <1>1, <1>2, <1>3 DEF Handle

LEMMA DieFits ==
  ASSUME TypeOK, PhasesFit, NEW p \in Procs, Die(p)
  PROVE  PhasesFit'
<1> SUFFICES ASSUME NEW d \in DepIds PROVE Fits(deps'[d], tasks'[d].pc)
  BY DEF PhasesFit
<1>1. Fits(Recovered(deps[d]), tasks[d].pc)
  BY EndedFits DEF Recovered, PhasesFit, TypeOK
<1>2. Fits(deps'[d], tasks[d].pc)
  BY <1>1 DEF Die, PhasesFit
<1>3. tasks'[d].pc = tasks[d].pc \/ (tasks[d].pc # "none" /\ tasks'[d].pc = "lost")
  BY DEF Die, Running, NoTask
<1> QED BY <1>2, <1>3 DEF Fits, Working

LEMMA NextFits == ASSUME TypeOK, PhasesFit, [Next]_vars PROVE PhasesFit'
<1>1. CASE \E p \in Procs : Ask(p) \/ Handle(p) \/ Die(p)
  BY <1>1, RequestFits, DieFits
<1>2. CASE \E d \in DepIds : Own(d)
  BY <1>2, OwnFits
<1>3. CASE Switch \/ UNCHANGED vars
  BY <1>3 DEF Switch, vars, PhasesFit
<1> QED BY <1>1, <1>2, <1>3 DEF Next, Own

LEMMA InitFits == ASSUME Init PROVE PhasesFit
<1> SUFFICES ASSUME NEW d \in DepIds PROVE Fits(deps[d], tasks[d].pc)
  BY DEF PhasesFit
<1>1. deps[d].status = "none" /\ tasks[d].pc = "none"
  BY DEF Init, NoDep, NoTask
<1> QED BY <1>1 DEF Fits, Working

LEMMA PhasesAlwaysFit == Spec => [](TypeOK /\ PhasesFit)
<1>1. Init => TypeOK /\ PhasesFit
  BY InitType, InitFits
<1>2. TypeOK /\ PhasesFit /\ [Next]_vars => (TypeOK /\ PhasesFit)'
  BY NextType, NextFits
<1> QED BY <1>1, <1>2, PTL DEF Spec

\* The result a deployment shows is what its steps show.
THEOREM ResultsFit == Spec => []ResultFitsSteps
<1>1. PhasesFit => ResultFitsSteps
  BY DEF PhasesFit, Fits, ResultFitsSteps
<1> QED BY <1>1, PhasesAlwaysFit, PTL

----------------------------------------------------------------------------
(* Where a rollback goes *)

\* The commit a deployment may go back to is the one of an earlier deployment
\* that is over, so that nothing will be written to its steps any more.
Justified(d, e) ==
  /\ e < d /\ tasks[e].pc \in Over
  /\ PassedAll(deps[e].steps)
  /\ deps[e].commit = deps[d].rollback_to

RollbackJustified == \A d \in DepIds : deps[d].rollback_to # NoCommit => \E e \in DepIds : Justified(d, e)

\* Once its task is over, only the status of a deployment changes.
LEMMA OverIsQuiet ==
  ASSUME TypeOK, PhasesFit, [Next]_vars, NEW e \in DepIds, tasks[e].pc \in Over
  PROVE  /\ tasks'[e].pc \in Over
         /\ PassedAll(deps[e].steps) => PassedAll(deps'[e].steps)
         /\ deps'[e].commit = deps[e].commit
<1> DEFINE Quiet == /\ tasks'[e].pc \in Over
                    /\ \A k \in StepKeys : deps'[e].steps[k] = deps[e].steps[k]
                    /\ deps'[e].commit = deps[e].commit
<1> SUFFICES Quiet
  BY DEF PassedAll, StepKeys
<1>1. CASE \E p \in Procs : Ask(p) \/ FindNone(p) \/ FindRow(p)
  BY <1>1 DEF Ask, FindNone, FindRow
<1>2. CASE \E p \in Procs : EndStale(p)
  BY <1>2 DEF EndStale, TypeOK, Docs
<1>3. CASE \E p \in Procs : Create(p)
  BY <1>3 DEF Create, Free, TypeOK, PhasesFit, Fits, Over
<1>4. CASE \E p \in Procs : Die(p)
  BY <1>4 DEF Die, Recovered, NoTask, TypeOK, Docs, Over
<1>5. CASE \E d \in DepIds : d # e /\ Own(d)
  BY <1>5, OwnFrame
<1>6. CASE Own(e)
  <2>0. DOMAIN NoChanges = {}
    BY DEF NoChanges
  <2>1. CASE Execute(e)
    <3>1. Finish(e)
      BY <2>1 DEF Execute, Refuse, Start, Probe, NoteCommit, HookAccepted, HookFailed, Poll, HealthPassed, NotHealthy,
                  SmokeFailed, SmokePassed, BadProbe, RollbackAccepted, RollbackFailed, RolledBack, At, Waits, Over
    <3> QED BY <3>1, LeavesEffect DEF Finish, Over
  <2>2. CASE Clock(e)
    BY <2>2 DEF Clock, Over
  <2>3. CASE Crash(e)
    BY <2>3 DEF Crash, Running, Over
  <2>4. CASE Outage(e)
    BY <2>4, LeavesEffect DEF Outage, Over
  <2>5. CASE Cancel(e)
    BY <2>0, <2>5, LeavesEffect, SaveEffect DEF Cancel, Over
  <2>6. CASE GoStale(e)
    BY <2>6 DEF GoStale, TypeOK, Docs
  <2> QED BY <1>6, <2>1, <2>2, <2>3, <2>4, <2>5, <2>6 DEF Own
<1>7. CASE Switch \/ UNCHANGED vars
  BY <1>7 DEF Switch, vars
<1> QED BY <1>1, <1>2, <1>3, <1>4, <1>5, <1>6, <1>7 DEF Next, Handle, Own

\* Only NoteCommit names a commit to go back to.
LEMMA RollbackToNoted ==
  ASSUME TypeOK, [Next]_vars, NEW d \in DepIds, ~NoteCommit(d)
  PROVE  deps'[d].rollback_to \in {deps[d].rollback_to, NoCommit}
<1>1. CASE \E p \in Procs : Ask(p) \/ FindNone(p) \/ FindRow(p)
  BY <1>1 DEF Ask, FindNone, FindRow
<1>2. CASE \E p \in Procs : EndStale(p)
  BY <1>2 DEF EndStale, TypeOK, Docs
<1>3. CASE \E p \in Procs : Create(p)
  <2>1. PICK p \in Procs : deps'[d] \in {deps[d], [NoDep EXCEPT !.status = "queued", !.executor = p]}
    BY <1>3 DEF Create, TypeOK
  <2> QED BY <2>1 DEF NoDep
<1>4. CASE \E p \in Procs : Die(p)
  BY <1>4 DEF Die, Recovered, TypeOK, Docs
<1>5. CASE \E e \in DepIds : d # e /\ Own(e)
  BY <1>5, OwnFrame
<1>6. CASE Own(d)
  <2>1. CASE Refuse(d) \/ Start(d) \/ HookAccepted(d) \/ HookFailed(d) \/ Poll(d) \/ HealthPassed(d)
    BY <2>1, SaveEffect DEF Refuse, Start, HookAccepted, HookFailed, Poll, HealthPassed
  <2>2. CASE NotHealthy(d) \/ SmokeFailed(d)
    BY <2>2, SaveEffect DEF NotHealthy, SmokeFailed, _rollback
  <2>3. CASE SmokePassed(d) \/ RollbackFailed(d) \/ RolledBack(d) \/ Crash(d) \/ Cancel(d)
    BY <2>3, SaveEffect DEF SmokePassed, RollbackFailed, RolledBack, Crash, Cancel
  <2>4. CASE Probe(d) \/ BadProbe(d) \/ RollbackAccepted(d) \/ Finish(d) \/ Clock(d) \/ Outage(d)
    BY <2>4 DEF Probe, BadProbe, RollbackAccepted, Finish, Clock, Outage
  <2>5. CASE GoStale(d)
    BY <2>5 DEF GoStale, TypeOK, Docs
  <2> QED BY <1>6, <2>1, <2>2, <2>3, <2>4, <2>5 DEF Own, Execute
<1>7. CASE Switch \/ UNCHANGED vars
  BY <1>7 DEF Switch, vars
<1> QED BY <1>1, <1>2, <1>3, <1>4, <1>5, <1>6, <1>7 DEF Next, Handle, Own

\* A deployment that verified is over.
LEMMA VerifiedIsOver ==
  ASSUME TypeOK, PhasesFit, NEW e \in DepIds, deps[e].status = "verified"
  PROVE  tasks[e].pc \in Over /\ PassedAll(deps[e].steps)
<1>1. tasks[e].pc \in PCs \ (Working \union {"none"})
  BY ActiveValues DEF PhasesFit, Fits, TypeOK, Tasks
<1> QED BY <1>1 DEF PCs, Working, Over, PhasesFit, Fits

LEMMA RollbackStep ==
  ASSUME TypeOK, PhasesFit, RollbackJustified, [Next]_vars
  PROVE  RollbackJustified'
<1> SUFFICES ASSUME NEW d \in DepIds, deps'[d].rollback_to # NoCommit
             PROVE  \E e \in DepIds : Justified(d, e)'
  BY DEF RollbackJustified
<1>1. CASE NoteCommit(d)
  <2>1. PICK commit, target \in Commits \union {NoCommit} :
          /\ last_verified(d, target)
          /\ deps' = [deps EXCEPT ![d] = [Saved(deps[d], deps[d].status, [deploy |-> "running"])
                                            EXCEPT !.commit = commit, !.rollback_to = target]]
    BY <1>1 DEF NoteCommit
  <2>2. deps'[d].rollback_to = target
    BY <2>1 DEF TypeOK, Docs, Saved
  <2>3. PICK e \in DepIds : e < d /\ deps[e].status = "verified" /\ target = deps[e].commit
    BY <2>1, <2>2 DEF last_verified
  <2>4. tasks[e].pc \in Over /\ PassedAll(deps[e].steps)
    BY <2>3, VerifiedIsOver
  <2> QED BY <2>2, <2>3, <2>4, OverIsQuiet DEF Justified
<1>2. CASE ~NoteCommit(d)
  <2>1. deps[d].rollback_to # NoCommit /\ deps'[d].rollback_to = deps[d].rollback_to
    BY <1>2, RollbackToNoted
  <2>2. PICK e \in DepIds : Justified(d, e)
    BY <2>1 DEF RollbackJustified
  <2> QED BY <2>1, <2>2, OverIsQuiet DEF Justified
<1> QED BY <1>1, <1>2

\* A rollback goes back to a commit that passed every check.
THEOREM RollbacksAreVerified == Spec => []RollbackIsVerified
<1>1. Init => RollbackJustified
  BY DEF Init, NoDep, RollbackJustified
<1>2. TypeOK /\ PhasesFit /\ RollbackJustified /\ [Next]_vars => RollbackJustified'
  BY RollbackStep
<1>3. RollbackJustified => RollbackIsVerified
  BY DEF RollbackJustified, Justified, RollbackIsVerified
<1> QED BY <1>1, <1>2, <1>3, PhasesAlwaysFit, PTL DEF Spec

----------------------------------------------------------------------------
(* A result is final *)

Gone == {"done", "lost"}

\* Where no smoke test outlasts the stale limit, only deployments that nobody
\* executes any more are stale, or found to be; so a working task still has
\* the active status it gave itself.
NobodyElseEnds ==
  /\ \A d \in DepIds : /\ tasks[d].pc \in Working => deps[d].status \in Active
                       /\ deps[d].stale => tasks[d].pc \in Gone
  /\ \A p \in Procs : req[p].pc = "end" => req[p].row \in DepIds /\ tasks[req[p].row].pc \in Gone

\* A task that is gone stays gone.
LEMMA GoneStaysGone ==
  ASSUME TypeOK, PhasesFit, [Next]_vars, NEW e \in DepIds, tasks[e].pc \in Gone
  PROVE  tasks'[e].pc \in Gone
<1>1. CASE \E p \in Procs : Ask(p) \/ FindNone(p) \/ FindRow(p) \/ EndStale(p)
  BY <1>1 DEF Ask, FindNone, FindRow, EndStale
<1>2. CASE \E p \in Procs : Create(p)
  BY <1>2 DEF Create, Free, TypeOK, PhasesFit, Fits, Gone
<1>3. CASE \E p \in Procs : Die(p)
  BY <1>3 DEF Die, NoTask, Gone
<1>4. CASE \E d \in DepIds : d # e /\ Own(d)
  BY <1>4, OwnFrame
<1>5. CASE Own(e)
  <2>1. ~Execute(e)
    BY DEF Execute, Refuse, Start, Probe, NoteCommit, HookAccepted, HookFailed, Poll, HealthPassed, NotHealthy,
           SmokeFailed, SmokePassed, BadProbe, RollbackAccepted, RollbackFailed, RolledBack, Finish, At, Waits, Gone
  <2>2. GoStale(e)
    BY <1>5, <2>1 DEF Own, Clock, Crash, Outage, Cancel, Running, Gone
  <2> QED BY <2>2 DEF GoStale
<1>6. CASE Switch \/ UNCHANGED vars
  BY <1>6 DEF Switch, vars
<1> QED BY <1>1, <1>2, <1>3, <1>4, <1>5, <1>6 DEF Next, Handle, Own

\* The status a deployment gives itself while it works is an active one.
LEMMA OwnStatus ==
  ASSUME TypeOK, NEW d \in DepIds, Own(d), tasks[d].pc \in Working => deps[d].status \in Active
  PROVE  tasks'[d].pc \in Working => deps'[d].status \in Active
<1> USE ActiveValues, SaveEffect, LeavesEffect
<1>1. CASE Execute(d)
  <2>1. CASE Refuse(d) \/ HookFailed(d) \/ SmokePassed(d) \/ RollbackFailed(d) \/ Finish(d)
    BY <2>1 DEF Refuse, HookFailed, SmokePassed, RollbackFailed, Finish, Working
  <2>2. CASE Start(d) \/ HookAccepted(d)
    BY <2>2 DEF Start, HookAccepted
  <2>3. CASE Probe(d) \/ BadProbe(d) \/ RollbackAccepted(d)
    BY <2>3 DEF Probe, BadProbe, RollbackAccepted, At, Working
  <2>4. CASE NoteCommit(d)
    <3>1. deps'[d].status = deps[d].status
      BY <2>4 DEF NoteCommit, TypeOK, Docs, Saved
    <3> QED BY <2>4, <3>1 DEF NoteCommit, At, Working
  <2>5. CASE Poll(d)
    <3>1. deps'[d].status = deps[d].status
      BY <2>5 DEF Poll
    <3> QED BY <2>5, <3>1 DEF Poll, Waits, At, Working
  <2>6. CASE HealthPassed(d) \/ RolledBack(d)
    BY <2>6 DEF HealthPassed, RolledBack, Healthy, Waits, At, Working
  <2>7. CASE NotHealthy(d) \/ SmokeFailed(d)
    BY <2>7 DEF NotHealthy, SmokeFailed, _rollback, Working
  <2> QED BY <1>1, <2>1, <2>2, <2>3, <2>4, <2>5, <2>6, <2>7 DEF Execute
<1>2. CASE Clock(d)
  BY <1>2 DEF Clock, Working
<1>3. CASE Crash(d) \/ Outage(d) \/ Cancel(d)
  BY <1>3 DEF Crash, Outage, Cancel, Working
<1>4. CASE GoStale(d)
  BY <1>4 DEF GoStale, TypeOK, Docs
<1> QED BY <1>1, <1>2, <1>3, <1>4 DEF Own

\* A deployment that is executed is not taken for abandoned by its own steps.
LEMMA OwnStale ==
  ASSUME TypeOK, "slow" \notin Faults, NEW d \in DepIds, Own(d), deps'[d].stale
  PROVE  deps[d].stale \/ tasks'[d].pc \in Gone
<1> SUFFICES ASSUME ~deps[d].stale PROVE tasks'[d].pc \in Gone
  OBVIOUS
<1>1. GoStale(d)
  <2>1. CASE Refuse(d) \/ Start(d) \/ HookAccepted(d) \/ HookFailed(d) \/ Poll(d) \/ HealthPassed(d)
    BY <2>1, SaveEffect DEF Refuse, Start, HookAccepted, HookFailed, Poll, HealthPassed
  <2>2. CASE NotHealthy(d) \/ SmokeFailed(d)
    BY <2>2, SaveEffect DEF NotHealthy, SmokeFailed, _rollback
  <2>3. CASE SmokePassed(d) \/ RollbackFailed(d) \/ RolledBack(d) \/ Crash(d) \/ Cancel(d)
    BY <2>3, SaveEffect DEF SmokePassed, RollbackFailed, RolledBack, Crash, Cancel
  <2>4. CASE Probe(d) \/ BadProbe(d) \/ RollbackAccepted(d) \/ Finish(d) \/ Clock(d) \/ Outage(d)
    BY <2>4 DEF Probe, BadProbe, RollbackAccepted, Finish, Clock, Outage
  <2>5. CASE NoteCommit(d)
    BY <2>5 DEF NoteCommit, Saved, TypeOK, Docs
  <2> QED BY <2>1, <2>2, <2>3, <2>4, <2>5 DEF Own, Execute
<1> QED BY <1>1 DEF GoStale, Fault, Gone

LEMMA OwnNobodyElse ==
  ASSUME TypeOK, PhasesFit, NobodyElseEnds, "slow" \notin Faults, NEW d \in DepIds, Own(d)
  PROVE  NobodyElseEnds'
<1>1. /\ tasks'[d].pc \in Working => deps'[d].status \in Active
      /\ deps'[d].stale => tasks'[d].pc \in Gone
  <2>0. [Next]_vars
    BY DEF Next, Own
  <2> QED BY <2>0, OwnStatus, OwnStale, GoneStaysGone DEF NobodyElseEnds
<1>2. \A e \in DepIds \ {d} : deps'[e] = deps[e] /\ tasks'[e] = tasks[e]
  BY OwnFrame
<1>3. \A p \in Procs : req[p].pc = "end" => tasks'[req[p].row].pc \in Gone
  <2>0. [Next]_vars
    BY DEF Next, Own
  <2> QED BY <2>0, GoneStaysGone DEF NobodyElseEnds
<1> QED BY <1>1, <1>2, <1>3, OwnFrame DEF NobodyElseEnds

LEMMA RequestNobodyElse ==
  ASSUME TypeOK, PhasesFit, NobodyElseEnds, NEW p \in Procs, Ask(p) \/ Handle(p)
  PROVE  NobodyElseEnds'
<1>0. \A q \in Procs : req[q].pc = "end" => tasks'[req[q].row].pc \in Gone
  <2>0. [Next]_vars
    BY DEF Next
  <2> QED BY <2>0, GoneStaysGone DEF NobodyElseEnds
<1>1. CASE Ask(p)
  BY <1>1 DEF Ask, NobodyElseEnds, TypeOK, NoReq
<1>2. CASE FindNone(p)
  BY <1>2 DEF FindNone, NobodyElseEnds, TypeOK, Reqs, Handling
<1>3. CASE FindRow(p)
  <2>1. \A q \in Procs : req'[q].pc = "end" =>
          req'[q] = req[q] \/ (req'[q].row \in DepIds /\ deps[req'[q].row].stale)
    BY <1>3 DEF FindRow, TypeOK, Reqs, NoReq, Rows, IsStale
  <2> QED BY <1>3, <2>1 DEF FindRow, NobodyElseEnds
<1>4. CASE EndStale(p)
  <2>1. tasks[req[p].row].pc \notin Working
    BY <1>4 DEF EndStale, Handling, NobodyElseEnds, Gone, Working
  <2>2. \A d \in DepIds : /\ deps'[d].stale = deps[d].stale
                          /\ deps'[d].status = deps[d].status \/ d = req[p].row
    BY <1>4 DEF EndStale, TypeOK, Docs
  <2>3. \A q \in Procs : req'[q].pc = "end" => req'[q] = req[q]
    BY <1>4 DEF EndStale, TypeOK, Reqs, NoReq
  <2>4. \A d \in DepIds : /\ tasks'[d].pc \in Working => deps'[d].status \in Active
                          /\ deps'[d].stale => tasks'[d].pc \in Gone
    BY <1>4, <2>1, <2>2 DEF EndStale, NobodyElseEnds
  <2>5. \A q \in Procs : req'[q].pc = "end" => req'[q].row \in DepIds /\ tasks'[req'[q].row].pc \in Gone
    BY <1>0, <2>3 DEF NobodyElseEnds
  <2> QED BY <2>4, <2>5 DEF NobodyElseEnds
<1>5. CASE Create(p)
  <2>1. \A d \in DepIds : \/ deps'[d] = deps[d] /\ tasks'[d] = tasks[d]
                          \/ deps'[d] = [NoDep EXCEPT !.status = "queued", !.executor = p]
    BY <1>5 DEF Create, TypeOK
  <2>2. \A q \in Procs : req'[q].pc = "end" => req'[q] = req[q]
    BY <1>5 DEF Create, TypeOK, NoReq
  <2>3. \A d \in DepIds : /\ tasks'[d].pc \in Working => deps'[d].status \in Active
                          /\ deps'[d].stale => tasks'[d].pc \in Gone
    BY <2>1, ActiveValues DEF NobodyElseEnds, NoDep
  <2>4. \A q \in Procs : req'[q].pc = "end" => req'[q].row \in DepIds /\ tasks'[req'[q].row].pc \in Gone
    BY <1>0, <2>2 DEF NobodyElseEnds
  <2> QED BY <2>3, <2>4 DEF NobodyElseEnds
<1> QED BY <1>1, <1>2, <1>3, <1>4, <1>5 DEF Handle

LEMMA DieNobodyElse ==
  ASSUME TypeOK, PhasesFit, NobodyElseEnds, NEW p \in Procs, Die(p)
  PROVE  NobodyElseEnds'
<1>1. \A q \in Procs : req[q].pc = "end" => tasks'[req[q].row].pc \in Gone
  <2>0. [Next]_vars
    BY DEF Next
  <2> QED BY <2>0, GoneStaysGone DEF NobodyElseEnds
<1>2. \A q \in Procs : req'[q].pc = "end" => req'[q] = req[q]
  BY DEF Die, TypeOK, NoReq
<1>3. ASSUME NEW d \in DepIds
      PROVE  /\ tasks'[d].pc \in Working => deps'[d].status \in Active
             /\ deps'[d].stale => tasks'[d].pc \in Gone
  <2>1. /\ tasks'[d] = tasks[d] \/ tasks'[d].pc = "lost"
        /\ tasks'[d] = tasks[d] => ~(Running(d) /\ deps[d].executor = p) \/ tasks[d].pc = "lost"
    BY <1>3 DEF Die, NoTask, TypeOK
  <2>2. deps'[d].stale = deps[d].stale
    BY <1>3 DEF Die, Recovered, TypeOK, Docs
  <2>3. deps'[d].status # deps[d].status => p = API /\ (deps[d].executor = API \/ deps[d].stale)
    BY <1>3 DEF Die, Recovered, TypeOK, Docs
  <2> QED BY <1>3, <2>1, <2>2, <2>3 DEF NobodyElseEnds, Running, Working, Gone
<1> QED BY <1>1, <1>2, <1>3 DEF NobodyElseEnds

LEMMA NextNobodyElse ==
  ASSUME TypeOK, PhasesFit, NobodyElseEnds, "slow" \notin Faults, [Next]_vars
  PROVE  NobodyElseEnds'
<1>1. CASE \E p \in Procs : Ask(p) \/ Handle(p) \/ Die(p)
  BY <1>1, RequestNobodyElse, DieNobodyElse
<1>2. CASE \E d \in DepIds : Own(d)
  BY <1>2, OwnNobodyElse
<1>3. CASE Switch \/ UNCHANGED vars
  BY <1>3 DEF Switch, vars, NobodyElseEnds
<1> QED BY <1>1, <1>2, <1>3 DEF Next, Own

\* What may happen to the result of a deployment: nothing, or a cancellation
\* while its task closes its clients.
FinalFor(d) ==
  deps[d].status \in Ended =>
    \/ deps'[d].status = deps[d].status
    \/ tasks[d].pc = "finish" /\ tasks'[d].pc = "lost" /\ deps'[d].status = "error"

LEMMA FinalStep ==
  ASSUME TypeOK, PhasesFit, NobodyElseEnds, [Next]_vars, NEW d \in DepIds
  PROVE  FinalFor(d)
<1> SUFFICES ASSUME deps[d].status \in Ended
             PROVE  \/ deps'[d].status = deps[d].status
                    \/ tasks[d].pc = "finish" /\ tasks'[d].pc = "lost" /\ deps'[d].status = "error"
  BY DEF FinalFor
<1>1. deps[d].status \notin Active /\ tasks[d].pc \notin Working
  BY ActiveValues DEF Ended, NobodyElseEnds
<1>2. CASE \E p \in Procs : Ask(p) \/ FindNone(p) \/ FindRow(p)
  BY <1>2 DEF Ask, FindNone, FindRow
<1>3. CASE \E p \in Procs : EndStale(p)
  <2>1. PICK p \in Procs : EndStale(p)
    BY <1>3
  <2>2. ACTIVE[req[p].at] \in Active
    BY DEF TypeOK, Reqs, Active, ACTIVE
  <2> QED BY <1>1, <2>1, <2>2 DEF EndStale, TypeOK
<1>4. CASE \E p \in Procs : Create(p)
  BY <1>4 DEF Create, Free, Ended, TypeOK
<1>5. CASE \E p \in Procs : Die(p)
  BY <1>1, <1>5 DEF Die, Recovered
<1>6. CASE \E e \in DepIds : d # e /\ Own(e)
  BY <1>6, OwnFrame
<1>7. CASE Own(d)
  <2>1. CASE Execute(d)
    <3>1. Finish(d)
      BY <1>1, <2>1 DEF Execute, Refuse, Start, Probe, NoteCommit, HookAccepted, HookFailed, Poll, HealthPassed,
                        NotHealthy, SmokeFailed, SmokePassed, BadProbe, RollbackAccepted, RollbackFailed,
                        RolledBack, At, Waits, Working
    <3> QED BY <3>1 DEF Finish
  <2>2. CASE Clock(d) \/ Outage(d)
    BY <2>2 DEF Clock, Outage
  <2>3. CASE Cancel(d)
    BY <1>1, <2>3, SaveEffect, LeavesEffect
       DEF Cancel, Running, Working, PhasesFit, Fits, Ended, TypeOK, Tasks, PCs
  <2>4. CASE Crash(d)
    BY <1>1, <2>4 DEF Crash, Running, Working, TypeOK, Tasks, PCs
  <2>5. CASE GoStale(d)
    BY <1>1, <2>5 DEF GoStale
  <2> QED BY <1>7, <2>1, <2>2, <2>3, <2>4, <2>5 DEF Own
<1>8. CASE Switch \/ UNCHANGED vars
  BY <1>8 DEF Switch, vars
<1> QED BY <1>2, <1>3, <1>4, <1>5, <1>6, <1>7, <1>8 DEF Next, Handle, Own

\* A result is final, in every deployment whose smoke tests keep its heartbeat
\* younger than the stale limit.
THEOREM ResultsAreFinal ==
  ASSUME "slow" \notin Faults
  PROVE  Spec => EndedIsFinal
<1>1. Init => NobodyElseEnds
  BY DEF Init, NobodyElseEnds, NoDep, NoTask, NoReq, Working
<1>2. TypeOK /\ PhasesFit /\ NobodyElseEnds /\ [Next]_vars => NobodyElseEnds'
  BY NextNobodyElse
<1>3. TypeOK /\ PhasesFit /\ NobodyElseEnds /\ [Next]_vars => \A d \in DepIds : FinalFor(d)
  BY FinalStep
<1>4. (\A d \in DepIds : FinalFor(d)) =>
        \A d \in DepIds : deps[d].status \in Ended =>
           \/ deps'[d].status = deps[d].status
           \/ tasks[d].pc = "finish" /\ tasks'[d].pc = "lost" /\ deps'[d].status = "error"
  BY DEF FinalFor
<1> QED BY <1>1, <1>2, <1>3, <1>4, PhasesAlwaysFit, PTL DEF Spec, EndedIsFinal

----------------------------------------------------------------------------
(* A change that wait_healthy believes in *)

\* What a task remembers of the site before the hook is the first page of some
\* version, an error page or nothing.
BeforeIsFirst ==
  \A d \in DepIds :
    LET was == tasks[d].before[1]
    IN was # NoVersion => tasks[d].before = PageOf(was, NoHash, TRUE)

\* The place and the page before of a task, and what it takes for a change.
LEMMA TaskStep ==
  ASSUME TypeOK, [Next]_vars, NEW d \in DepIds
  PROVE  \/ tasks'[d].before = tasks[d].before /\ (tasks'[d].changed => tasks[d].changed)
         \/ tasks'[d].before \in {NoHash, ErrorPage, PageOf(site, NoHash, TRUE)} /\ tasks[d].pc \in {"probe", "bad_probe"}
         \/ tasks'[d].before = NoHash /\ ~tasks'[d].changed
         \/ tasks'[d].before = tasks[d].before /\ Poll(d)
<1> DEFINE Same == tasks'[d].before = tasks[d].before /\ (tasks'[d].changed => tasks[d].changed)
           Probes == tasks'[d].before \in {NoHash, ErrorPage, PageOf(site, NoHash, TRUE)} /\ tasks[d].pc \in {"probe", "bad_probe"}
           Reset == tasks'[d].before = NoHash /\ ~tasks'[d].changed
<1> SUFFICES Same \/ Probes \/ Reset \/ (tasks'[d].before = tasks[d].before /\ Poll(d))
  OBVIOUS
<1>0. tasks \in [DepIds -> Tasks]
  BY DEF TypeOK
<1>1. \A pc : Leaves(d, pc) => Reset
  BY <1>0 DEF Leaves, NoTask
<1>2. \A pc : Goes(d, pc) => Same
  BY <1>0 DEF Goes, Tasks
<1>3. CASE \E p \in Procs : Ask(p) \/ FindNone(p) \/ FindRow(p) \/ EndStale(p)
  <2>1. tasks' = tasks
    BY <1>3 DEF Ask, FindNone, FindRow, EndStale
  <2> QED BY <2>1
<1>4. CASE \E p \in Procs : Create(p)
  <2>1. Same
    BY <1>0, <1>4 DEF Create, Tasks
  <2> QED BY <2>1
<1>5. CASE \E p \in Procs : Die(p)
  <2>1. Same \/ Reset
    BY <1>0, <1>5 DEF Die, NoTask
  <2> QED BY <2>1
<1>6. CASE \E e \in DepIds : d # e /\ Own(e)
  BY <1>6, OwnFrame
<1>7. CASE Own(d)
  <2>1. CASE Refuse(d) \/ HookFailed(d) \/ HealthPassed(d) \/ RolledBack(d) \/ RollbackFailed(d) \/ Finish(d)
             \/ SmokePassed(d) \/ Crash(d) \/ Outage(d) \/ Cancel(d)
    BY <1>1, <2>1 DEF Refuse, HookFailed, HealthPassed, RolledBack, RollbackFailed, Finish, SmokePassed, Healthy,
                      Crash, Outage, Cancel
  <2>2. CASE NotHealthy(d) \/ SmokeFailed(d)
    BY <1>1, <2>2 DEF NotHealthy, SmokeFailed, _rollback
  <2>3. CASE Start(d) \/ NoteCommit(d) \/ HookAccepted(d) \/ RollbackAccepted(d)
    BY <1>2, <2>3 DEF Start, NoteCommit, HookAccepted, RollbackAccepted
  <2>4. CASE Probe(d) \/ BadProbe(d)
    <3>1. PICK pc : ProbeBefore(d, pc) /\ tasks[d].pc \in {"probe", "bad_probe"}
      BY <2>4 DEF Probe, BadProbe, At
    <3>2. PICK a \in Answers(NoHash, TRUE) : tasks'[d].before = a.hash
      BY <1>0, <3>1 DEF ProbeBefore, NoTask
    <3>3. a.hash \in {NoHash, ErrorPage, PageOf(site, NoHash, TRUE)}
      BY AnswersHear
    <3> QED BY <3>1, <3>2, <3>3
  <2>5. CASE Poll(d)
    <3>1. PICK t \in Heard(d) : t.streak < DEPLOY_HEALTHY_CHECKS /\ tasks' = [tasks EXCEPT ![d] = t]
      BY <2>5 DEF Poll
    <3>2. t.before = tasks[d].before
      BY <3>1, HeardType DEF TypeOK
    <3> QED BY <1>0, <2>5, <3>1, <3>2
  <2>6. CASE Clock(d)
    BY <1>0, <2>6 DEF Clock, Tasks
  <2>7. CASE GoStale(d)
    BY <2>7 DEF GoStale
  <2> QED BY <1>7, <2>1, <2>2, <2>3, <2>4, <2>5, <2>6, <2>7 DEF Own, Execute
<1>8. CASE Switch \/ UNCHANGED vars
  BY <1>8 DEF Switch, vars
<1> QED BY <1>3, <1>4, <1>5, <1>6, <1>7, <1>8 DEF Next, Handle, Own

LEMMA BeforeStep ==
  ASSUME TypeOK, BeforeIsFirst, [Next]_vars
  PROVE  BeforeIsFirst'
<1> SUFFICES ASSUME NEW d \in DepIds, tasks'[d].before[1] # NoVersion
             PROVE  tasks'[d].before = PageOf(tasks'[d].before[1], NoHash, TRUE)
  BY DEF BeforeIsFirst
<1>1. NoHash[1] = NoVersion /\ ErrorPage[1] = NoVersion /\ PageOf(site, NoHash, TRUE)[1] = site
  BY DEF NoHash, ErrorPage, PageOf
<1>2. tasks'[d].before = tasks[d].before \/ tasks'[d].before \in {NoHash, ErrorPage, PageOf(site, NoHash, TRUE)}
  BY TaskStep
<1> QED BY <1>1, <1>2 DEF BeforeIsFirst

\* The two probes a change is read from agree, so they are not two answers of a
\* dynamic page; and a page that is always the same differs from the one before
\* only when the site serves another version.
LEMMA AgreeingProbes ==
  ASSUME NEW h, NEW a \in Answers(h, FALSE), a.ok, a.hash = h
  PROVE  a.hash = PageOf(site, NoHash, TRUE)
<1>3. h = PageOf(site, h, FALSE)
  BY AnswersHear
<1>4. site \in Dynamic => h[2] # PageOf(site, h, FALSE)[2]
  BY DEF PageOf
<1>5. site \notin Dynamic
  BY <1>3, <1>4
<1> QED BY <1>3, <1>5 DEF PageOf

LEMMA ChangeStep ==
  ASSUME TypeOK, BeforeIsFirst, [Next]_vars, NEW d \in DepIds,
         tasks[d].pc \in {"health", "rollback_health"}, tasks[d].before[1] # NoVersion,
         tasks'[d].changed, ~tasks[d].changed
  PROVE  site # tasks[d].before[1]
<1>1. Poll(d)
  BY TaskStep
<1>2. PICK t \in Heard(d) : tasks' = [tasks EXCEPT ![d] = t]
  BY <1>1 DEF Poll
<1>3. PICK a \in Answers(tasks[d].previous, FALSE) : t = Probed(tasks[d], a)
  BY DEF Heard
<1>4. t.changed
  BY <1>2 DEF TypeOK
<1>5. a.ok /\ a.hash # tasks[d].before /\ a.hash = tasks[d].previous
  BY <1>3, <1>4 DEF Probed, SawNewVersion, TypeOK, Tasks
<1>6. a.hash = PageOf(site, NoHash, TRUE)
  BY <1>5, AgreeingProbes
<1> QED BY <1>5, <1>6 DEF BeforeIsFirst

\* "a page that differs on every request proves nothing", whatever the host
\* serves and whichever versions have such a page.
THEOREM ChangesAreReal == Spec => ChangeIsReal
<1>1. Init => BeforeIsFirst
  BY DEF Init, NoTask, NoHash, BeforeIsFirst
<1>2. TypeOK /\ BeforeIsFirst /\ [Next]_vars => BeforeIsFirst'
  BY BeforeStep
<1>3. TypeOK /\ BeforeIsFirst /\ [Next]_vars =>
        \A d \in DepIds :
          LET was == tasks[d].before[1]
          IN (/\ tasks[d].pc \in {"health", "rollback_health"} /\ was # NoVersion
              /\ tasks'[d].changed /\ ~tasks[d].changed)
             => site # was
  BY ChangeStep
<1> QED BY <1>1, <1>2, <1>3, PhasesAlwaysFit, PTL DEF Spec, ChangeIsReal
=============================================================================
