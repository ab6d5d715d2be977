---------------------------- MODULE PipelineRuns ----------------------------
(***************************************************************************)
(* Pipeline runs in worker mode (PIPELINE_EXECUTION=worker): the API       *)
(* inserts, cancels and deletes run documents in Firestore, and several    *)
(* worker processes (backend/worker.py) claim, execute                     *)
(* (backend/pipeline/runner.py, execute_run), heartbeat and reap them.     *)
(*                                                                         *)
(* Every store call is one atomic step, because processes interleave       *)
(* between any two of them.  What a process read earlier stays in its own  *)
(* variables (rows, copy, cancel) and may be stale when it is written back.*)
(*                                                                         *)
(* The seven stages are numbered, and a stage's outcome (done, failed or   *)
(* skipped) is abstracted to "closed".  Time is the age of a heartbeat,    *)
(* counted up to Stale (WORKER_STALE_SECONDS).                             *)
(***************************************************************************)
EXTENDS Integers, FiniteSets

CONSTANTS
  Workers,        \* worker processes
  MaxRuns,        \* bound: runs ever created
  NStages,        \* pipeline stages (seven in the code)
  MaxBeats,       \* bound: heartbeats written to one run
  HeartbeatEvery, \* ticks between two heartbeats of a punctual worker
  Stale,          \* heartbeat age at which a run is taken for abandoned
  MaxFaults,      \* bound: process deaths and store outages
  Faults          \* which disturbances happen in this instance

FaultKinds == {"kill", "outage", "late", "cancel", "delete"}

ASSUME PipelineRunsAssumption ==
  /\ MaxRuns \in Nat \ {0} /\ NStages \in Nat \ {0}
  /\ MaxBeats \in Nat \ {0} /\ MaxFaults \in Nat
  /\ HeartbeatEvery \in Nat \ {0} /\ Stale \in Nat /\ HeartbeatEvery < Stale
  /\ Faults \subseteq FaultKinds
  /\ 0 \notin Workers

RunIds == 1..MaxRuns
NoRun == 0
NoWorker == 0
StageKeys == 1..NStages

Ended == {"passed", "failed", "error", "cancelled"}
ACTIVE == {"queued", "running"}
Statuses == {"absent", "deleted"} \cup ACTIVE \cup Ended
Stages == [StageKeys -> {"pending", "running", "closed"}]
Docs == [status: Statuses, worker: Workers \cup {NoWorker},
         heartbeat_at: 0..MaxBeats, stages: Stages]

\* What a find returns: documents by id.
Rows == UNION {[ids -> Docs] : ids \in SUBSET RunIds}

NoDoc == [status |-> "absent", worker |-> NoWorker, heartbeat_at |-> 0,
          stages |-> [s \in StageKeys |-> "pending"]]

\* Where a worker process is.  The first line is the claim loop of work(),
\* the second execute_run; "raised": an exception escaped execute_run and
\* ended the work task while the process stays up; "down": no process.
PCs == {"loop", "reap", "reapEnd", "reapFinish", "poll", "claim",
        "begin", "save", "stages", "finish", "endFinish", "post",
        "raised", "down"}
Executing == {"begin", "save", "stages", "finish", "endFinish", "post"}

VARIABLES
  nextId,     \* ids handed out by the counter document
  inserting,  \* ids handed out whose document is not written yet
  runs,       \* the run documents
  age,        \* ticks since each run's heartbeat_at was written (it stops
              \* counting once the run is over and nobody works on it)
  pc, job,    \* per worker: where it is, and the run it claimed
  rows,       \* per worker: the documents its last find returned, not yet used
  copy,       \* per worker: _RunState.doc, the in-memory copy it writes back
  reapDue,    \* per worker: REAP_SECONDS have passed since its last reap
  cancel,     \* the API thread serving a cancel request
  project,    \* "live", "deleting" or "gone"
  doomed,     \* run documents delete_project has found and not yet deleted
  lastRun,    \* the project's last_run_id and last_run_status
  faults,     \* deaths and outages so far
  starts      \* history: how often execute_run began each run

vars == <<nextId, inserting, runs, age, pc, job, rows, copy, reapDue, cancel,
          project, doomed, lastRun, faults, starts>>

store == <<nextId, inserting, runs, age, project, lastRun>>
api == <<cancel, doomed>>

NoRows == [r \in {} |-> NoDoc]
NoCopy == [status |-> "queued", stages |-> NoDoc.stages]
NoCancel == [pc |-> "idle", id |-> NoRun, stages |-> NoDoc.stages]

----------------------------------------------------------------------------
(* The store *)

Exists(r) == runs[r].status \notin {"absent", "deleted"}

\* Store.find on status: ids and documents as they are now.
Find(status) == [r \in {q \in RunIds : runs[q].status = status} |-> runs[r]]

\* Store.update of a run: nothing happens when the document is gone.
Update(r, doc) == runs' = IF Exists(r) THEN [runs EXCEPT ![r] = doc] ELSE runs

FinishProjectEarly(r, status) == lastRun' = [id |-> r, status |-> "running"]

\* _finish_project: the project shows run r as its last.
FinishProject(r, status) ==
  lastRun' = IF project = "gone" THEN lastRun ELSE [id |-> r, status |-> status]

CloseRunning(stages) ==
  [s \in StageKeys |-> IF stages[s] = "running" THEN "closed" ELSE stages[s]]

\* _RunState.end: the running stage failed, the pending ones are skipped.
CloseAll(stages) == [s \in StageKeys |-> "closed"]

Open(stages) == {s \in StageKeys : stages[s] # "closed"}

----------------------------------------------------------------------------
(* The API: create, cancel, delete *)

\* create_run, first half: Firestore hands out the id in a transaction ...
AllocateId ==
  /\ project = "live" /\ nextId < MaxRuns
  /\ nextId' = nextId + 1
  /\ inserting' = inserting \cup {nextId + 1}
  /\ UNCHANGED <<runs, age, pc, job, rows, copy, reapDue, cancel, project,
                 doomed, lastRun, faults, starts>>

\* ... second half: the document is written, and only then can be found.
CreateRun(r) ==
  /\ r \in inserting
  /\ inserting' = inserting \ {r}
  /\ runs' = [runs EXCEPT ![r] = [NoDoc EXCEPT !.status = "queued"]]
  /\ UNCHANGED <<nextId, age, pc, job, rows, copy, reapDue, api, project,
                 lastRun, faults, starts>>

\* cancel_pipeline_run reads the run and refuses unless it is queued or running.
CancelRead(r) ==
  /\ "cancel" \in Faults /\ cancel.pc = "idle"
  /\ runs[r].status \in ACTIVE
  /\ cancel' = [pc |-> "end", id |-> r, stages |-> runs[r].stages]
  /\ UNCHANGED <<store, pc, job, rows, copy, reapDue, doomed, faults, starts>>

\* cancel_run: state.end writes the run as an error ...
CancelEnd ==
  /\ cancel.pc = "end"
  /\ Update(cancel.id, [runs[cancel.id] EXCEPT !.status = "error",
                                               !.stages = CloseAll(cancel.stages)])
  /\ cancel' = [cancel EXCEPT !.pc = "finish"]
  /\ UNCHANGED <<nextId, inserting, age, project, lastRun, pc, job, rows, copy,
                 reapDue, doomed, faults, starts>>

\* ... shows it as the project's last run ...
CancelFinish ==
  /\ cancel.pc = "finish"
  /\ FinishProject(cancel.id, "error")
  /\ cancel' = [cancel EXCEPT !.pc = "mark"]
  /\ UNCHANGED <<nextId, inserting, runs, age, project, pc, job, rows, copy,
                 reapDue, doomed, faults, starts>>

\* ... and marks it cancelled.  The asyncio task it would also cancel lives in
\* the worker process, so _run_tasks has no entry for it here.
CancelMark ==
  /\ cancel.pc = "mark"
  /\ Update(cancel.id, [runs[cancel.id] EXCEPT !.status = "cancelled"])
  /\ cancel' = NoCancel
  /\ UNCHANGED <<nextId, inserting, age, project, lastRun, pc, job, rows, copy,
                 reapDue, doomed, faults, starts>>

\* delete_project: delete_where finds the project's runs ...
DeleteFind ==
  /\ "delete" \in Faults /\ project = "live"
  /\ project' = "deleting"
  /\ doomed' = {r \in RunIds : Exists(r)}
  /\ UNCHANGED <<nextId, inserting, runs, age, lastRun, pc, job, rows, copy,
                 reapDue, cancel, faults, starts>>

\* ... deletes them one by one ...
DeleteRun(r) ==
  /\ r \in doomed
  /\ doomed' = doomed \ {r}
  /\ runs' = [runs EXCEPT ![r].status = "deleted"]
  /\ UNCHANGED <<nextId, inserting, age, project, lastRun, pc, job, rows, copy,
                 reapDue, cancel, faults, starts>>

\* ... and then the project itself.
DeleteProject ==
  /\ project = "deleting" /\ doomed = {}
  /\ project' = "gone"
  /\ UNCHANGED <<nextId, inserting, runs, age, lastRun, pc, job, rows, copy,
                 reapDue, api, faults, starts>>

----------------------------------------------------------------------------
(* A worker between runs: reap_stale, then claim_next *)

IsStaleNever(r) == age[r] > Stale

\* find returns rows in id order, and both loops take them one by one.
IsOldest(w, r) == r \in DOMAIN rows[w] /\ \A q \in DOMAIN rows[w] : r <= q

RowsWithout(w, r) == [q \in DOMAIN rows[w] \ {r} |-> rows[w][q]]

\* The heartbeat is older than WORKER_STALE_SECONDS.
IsStale(r) == age[r] >= Stale

\* The top of work(): look for stale runs when REAP_SECONDS have passed.
ReapFind(w) ==
  /\ pc[w] = "loop" /\ reapDue[w]
  /\ reapDue' = [reapDue EXCEPT ![w] = FALSE]
  /\ rows' = [rows EXCEPT ![w] = [r \in {q \in DOMAIN Find("running") : IsStale(q)}
                                    |-> runs[r]]]
  /\ pc' = [pc EXCEPT ![w] = "reap"]
  /\ UNCHANGED <<store, api, job, copy, faults, starts>>

\* The condition of reap_stale's update_if: no heartbeat since the find.
StillSilent(w, r) == Exists(r) /\ runs[r].heartbeat_at = rows[w][r].heartbeat_at

\* The oldest row first; a run that beat since the find is left alone.
ReapMark(w, r) ==
  /\ pc[w] = "reap" /\ IsOldest(w, r)
  /\ IF StillSilent(w, r)
     THEN /\ runs' = [runs EXCEPT ![r].status = "error"]
          /\ job' = [job EXCEPT ![w] = r]
          /\ pc' = [pc EXCEPT ![w] = "reapEnd"]
          /\ UNCHANGED rows
     ELSE /\ rows' = [rows EXCEPT ![w] = RowsWithout(w, r)]
          /\ UNCHANGED <<runs, job, pc>>
  /\ UNCHANGED <<nextId, inserting, age, project, lastRun, api, copy, reapDue, faults, starts>>

\* end_interrupted writes the stages of the row the find returned.
ReapEnd(w) ==
  /\ pc[w] = "reapEnd"
  /\ LET r == job[w] IN
       Update(r, [runs[r] EXCEPT !.status = "error", !.stages = CloseAll(rows[w][r].stages)])
  /\ pc' = [pc EXCEPT ![w] = "reapFinish"]
  /\ UNCHANGED <<nextId, inserting, age, project, lastRun, api, job, rows, copy,
                 reapDue, faults, starts>>

ReapFinish(w) ==
  /\ pc[w] = "reapFinish"
  /\ FinishProject(job[w], "error")
  /\ rows' = [rows EXCEPT ![w] = RowsWithout(w, job[w])]
  /\ job' = [job EXCEPT ![w] = NoRun]
  /\ pc' = [pc EXCEPT ![w] = "reap"]
  /\ UNCHANGED <<nextId, inserting, runs, age, project, api, copy, reapDue, faults, starts>>

ReapDone(w) ==
  /\ pc[w] = "reap" /\ DOMAIN rows[w] = {}
  /\ pc' = [pc EXCEPT ![w] = "poll"]
  /\ UNCHANGED <<store, api, job, rows, copy, reapDue, faults, starts>>

\* claim_next finds the queued runs ...
ClaimFind(w) ==
  /\ pc[w] = "poll" \/ (pc[w] = "loop" /\ ~reapDue[w])
  /\ rows' = [rows EXCEPT ![w] = Find("queued")]
  /\ pc' = [pc EXCEPT ![w] = "claim"]
  /\ UNCHANGED <<store, api, job, copy, reapDue, faults, starts>>

StillQueuedUnchecked(r) == TRUE

\* The condition of claim_next's update_if.
StillQueued(r) == runs[r].status = "queued"

\* ... and takes the oldest that is still queued.
Claim(w, r) ==
  /\ pc[w] = "claim" /\ IsOldest(w, r)
  /\ IF StillQueued(r)
     THEN /\ runs' = [runs EXCEPT ![r].status = "running", ![r].worker = w,
                                  ![r].heartbeat_at = 1]
          /\ age' = [age EXCEPT ![r] = 0]
          /\ job' = [job EXCEPT ![w] = r]
          /\ rows' = [rows EXCEPT ![w] = NoRows]
          /\ pc' = [pc EXCEPT ![w] = "begin"]
     ELSE /\ rows' = [rows EXCEPT ![w] = RowsWithout(w, r)]
          /\ UNCHANGED <<runs, age, job, pc>>
  /\ UNCHANGED <<nextId, inserting, project, lastRun, api, copy, reapDue, faults, starts>>

\* The queue is empty: wait, then look again.
ClaimNone(w) ==
  /\ pc[w] = "claim" /\ DOMAIN rows[w] = {}
  /\ pc' = [pc EXCEPT ![w] = "loop"]
  /\ UNCHANGED <<store, api, job, rows, copy, reapDue, faults, starts>>

----------------------------------------------------------------------------
(* A worker executing a run: run_one and execute_run *)

\* Back at the top of work(), with nothing claimed.
Release(w, at) ==
  /\ pc' = [pc EXCEPT ![w] = at]
  /\ job' = [job EXCEPT ![w] = NoRun]
  /\ rows' = [rows EXCEPT ![w] = NoRows]
  /\ copy' = [copy EXCEPT ![w] = NoCopy]

\* execute_run reads the run: gone or cancelled, there is nothing to do.
ExecuteRead(w) ==
  /\ pc[w] = "begin"
  /\ LET r == job[w] IN
     IF ~Exists(r) \/ runs[r].status = "cancelled"
     THEN Release(w, "loop") /\ UNCHANGED starts
     ELSE /\ copy' = [copy EXCEPT ![w] = [status |-> runs[r].status, stages |-> runs[r].stages]]
          /\ pc' = [pc EXCEPT ![w] = "save"]
          /\ starts' = [starts EXCEPT ![r] = @ + 1]
          /\ UNCHANGED <<job, rows>>
  /\ UNCHANGED <<store, api, reapDue, faults>>

\* The project was deleted: the run ends without touching its stages.
ExecuteOrphan(w) ==
  /\ pc[w] = "save" /\ project = "gone"
  /\ Update(job[w], [runs[job[w]] EXCEPT !.status = "error"])
  /\ Release(w, "loop")
  /\ UNCHANGED <<nextId, inserting, age, project, lastRun, api, reapDue, faults, starts>>

\* state.save(status="running") from the document read before.
ExecuteBegin(w) ==
  /\ pc[w] = "save" /\ project # "gone"
  /\ Update(job[w], [runs[job[w]] EXCEPT !.status = "running"])
  /\ copy' = [copy EXCEPT ![w].status = "running"]
  /\ pc' = [pc EXCEPT ![w] = "stages"]
  /\ UNCHANGED <<nextId, inserting, age, project, lastRun, api, job, rows,
                 reapDue, faults, starts>>

\* _RunState.stage: the next stage starts or closes; all stages are written.
StageSave(w) ==
  /\ pc[w] = "stages"
  /\ \E s \in Open(copy[w].stages), to \in {"running", "closed"} :
       /\ \A t \in Open(copy[w].stages) : s <= t
       /\ to # copy[w].stages[s]
       /\ copy' = [copy EXCEPT ![w].stages = [@ EXCEPT ![s] = to]]
  /\ Update(job[w], [runs[job[w]] EXCEPT !.stages = copy'[w].stages])
  /\ UNCHANGED <<nextId, inserting, age, project, lastRun, api, pc, job, rows,
                 reapDue, faults, starts>>

\* The last save of _execute: _report's passed or failed, or the error of a
\* target that did not load or of a project without an app URL (the remaining
\* stages skipped just before; the latter does not update the project).
Report(w) ==
  /\ pc[w] = "stages" /\ Open(copy[w].stages) = {}
  /\ \E status \in {"passed", "failed", "error"}, at \in {"finish", "post"} :
       /\ at = "post" => status = "error"
       /\ Update(job[w], [runs[job[w]] EXCEPT !.status = status])
       /\ copy' = [copy EXCEPT ![w].status = status]
       /\ pc' = [pc EXCEPT ![w] = at]
  /\ UNCHANGED <<nextId, inserting, age, project, lastRun, api, job, rows,
                 reapDue, faults, starts>>

\* state.end in an except branch of execute_run: _execute raised.
EndError(w) ==
  /\ pc[w] = "stages"
  /\ copy' = [copy EXCEPT ![w] = [status |-> "error", stages |-> CloseAll(copy[w].stages)]]
  /\ Update(job[w], [runs[job[w]] EXCEPT !.status = "error", !.stages = copy'[w].stages])
  /\ pc' = [pc EXCEPT ![w] = "endFinish"]
  /\ UNCHANGED <<nextId, inserting, age, project, lastRun, api, job, rows,
                 reapDue, faults, starts>>

ExecuteFinish(w) ==
  /\ pc[w] \in {"finish", "endFinish"}
  /\ FinishProject(job[w], copy[w].status)
  /\ pc' = [pc EXCEPT ![w] = "post"]
  /\ UNCHANGED <<nextId, inserting, runs, age, project, api, job, rows, copy,
                 reapDue, faults, starts>>

\* Notifications and the auto-deploy are over; run_one stops the heartbeat.
ExecuteReturn(w) ==
  /\ pc[w] = "post"
  /\ Release(w, "loop")
  /\ UNCHANGED <<store, api, reapDue, faults, starts>>

\* _heartbeat, beside execute_run in the same process; it sleeps before each write.
Heartbeat(w) ==
  /\ pc[w] \in Executing
  /\ Exists(job[w]) /\ age[job[w]] >= HeartbeatEvery /\ runs[job[w]].heartbeat_at < MaxBeats
  /\ runs' = [runs EXCEPT ![job[w]].heartbeat_at = @ + 1]
  /\ age' = [age EXCEPT ![job[w]] = 0]
  /\ UNCHANGED <<nextId, inserting, project, lastRun, api, pc, job, rows, copy,
                 reapDue, faults, starts>>

----------------------------------------------------------------------------
(* Time and faults *)

\* Unless heartbeats may be late, no time passes while one is due.
Tick ==
  /\ "late" \in Faults \/ \A w \in Workers :
       pc[w] \in Executing => age[job[w]] < HeartbeatEvery
  /\ age' = [r \in RunIds |->
               IF age[r] < Stale /\ (runs[r].status = "running" \/ \E w \in Workers : job[w] = r)
               THEN age[r] + 1 ELSE age[r]]
  /\ reapDue' = [w \in Workers |-> TRUE]
  /\ UNCHANGED <<nextId, inserting, runs, project, lastRun, api, pc, job, rows,
                 copy, faults, starts>>

\* The process dies between two store calls.
Kill(w) ==
  /\ "kill" \in Faults /\ faults < MaxFaults /\ pc[w] # "down"
  /\ faults' = faults + 1
  /\ Release(w, "down")
  /\ UNCHANGED <<store, api, reapDue, starts>>

\* A new process: work() starts with a reap.
Restart(w) ==
  /\ pc[w] = "down"
  /\ pc' = [pc EXCEPT ![w] = "loop"]
  /\ reapDue' = [reapDue EXCEPT ![w] = TRUE]
  /\ UNCHANGED <<store, api, job, rows, copy, faults, starts>>

\* StoreUnavailableError out of the next store call.  work() catches it around
\* reap_stale and claim_next; execute_run only around _execute and the
\* notifications, so its first reads and writes let it escape.
Outage(w) ==
  /\ "outage" \in Faults /\ faults < MaxFaults
  /\ faults' = faults + 1
  /\ \/ /\ pc[w] \in {"reap", "reapEnd", "reapFinish", "poll", "claim", "begin"}
        /\ Release(w, "loop")
        /\ UNCHANGED runs
     \/ /\ pc[w] \in {"begin", "save", "post"}
        /\ Release(w, "raised")
        /\ UNCHANGED runs
     \/ /\ pc[w] \in {"stages", "finish", "endFinish"}     \* state.end fails too
        /\ pc' = [pc EXCEPT ![w] = "post"]
        /\ UNCHANGED <<runs, job, rows, copy>>
     \/ /\ pc[w] = "finish"            \* _finish_project failed: state.end runs
        /\ copy' = [copy EXCEPT ![w].status = "error"]
        /\ Update(job[w], [runs[job[w]] EXCEPT !.status = "error"])
        /\ pc' = [pc EXCEPT ![w] = "endFinish"]
        /\ UNCHANGED <<job, rows>>
  /\ UNCHANGED <<nextId, inserting, age, project, lastRun, api, reapDue, starts>>

----------------------------------------------------------------------------

Init ==
  /\ nextId = 0 /\ inserting = {}
  /\ runs = [r \in RunIds |-> NoDoc]
  /\ age = [r \in RunIds |-> 0]
  /\ pc = [w \in Workers |-> "loop"]
  /\ job = [w \in Workers |-> NoRun]
  /\ rows = [w \in Workers |-> NoRows]
  /\ copy = [w \in Workers |-> NoCopy]
  /\ reapDue = [w \in Workers |-> TRUE]
  /\ cancel = NoCancel
  /\ project = "live" /\ doomed = {}
  /\ lastRun = [id |-> NoRun, status |-> "absent"]
  /\ faults = 0
  /\ starts = [r \in RunIds |-> 0]

Api ==
  \/ AllocateId \/ CancelEnd \/ CancelFinish \/ CancelMark
  \/ DeleteFind \/ DeleteProject
  \/ \E r \in RunIds : CreateRun(r) \/ CancelRead(r) \/ DeleteRun(r)

Loop(w) ==
  \/ ReapFind(w) \/ ReapEnd(w) \/ ReapFinish(w) \/ ReapDone(w)
  \/ ClaimFind(w) \/ ClaimNone(w)
  \/ \E r \in RunIds : ReapMark(w, r) \/ Claim(w, r)

Execute(w) ==
  \/ ExecuteRead(w) \/ ExecuteOrphan(w) \/ ExecuteBegin(w)
  \/ StageSave(w) \/ Report(w) \/ EndError(w)
  \/ ExecuteFinish(w) \/ ExecuteReturn(w)

Worker(w) == Loop(w) \/ Execute(w)

Next ==
  \/ Api \/ Tick
  \/ \E w \in Workers : Worker(w) \/ Heartbeat(w) \/ Kill(w) \/ Restart(w) \/ Outage(w)

Spec == Init /\ [][Next]_vars

\* A live process keeps running its loop, a dead worker is restarted by its
\* host, time passes, and a cancel request that was started is served.
Fairness ==
  /\ WF_vars(Tick)
  /\ WF_vars(CancelEnd \/ CancelFinish \/ CancelMark)
  /\ \A w \in Workers : WF_vars(Worker(w)) /\ WF_vars(Restart(w))

FairSpec == Spec /\ Fairness

----------------------------------------------------------------------------
(* Properties *)

\* The documents and each process's local state keep their shape, and the
\* project only ever shows a finished status (_finish_project).
TypeOK ==
  /\ nextId \in 0..MaxRuns /\ inserting \subseteq 1..nextId
  /\ runs \in [RunIds -> Docs] /\ age \in [RunIds -> 0..Stale]
  /\ pc \in [Workers -> PCs] /\ job \in [Workers -> RunIds \cup {NoRun}]
  /\ rows \in [Workers -> Rows]
  /\ copy \in [Workers -> [status: Statuses, stages: Stages]]
  /\ reapDue \in [Workers -> BOOLEAN]
  /\ cancel \in [pc: {"idle", "end", "finish", "mark"}, id: RunIds \cup {NoRun}, stages: Stages]
  /\ project \in {"live", "deleting", "gone"} /\ doomed \subseteq RunIds
  /\ lastRun \in [id: RunIds \cup {NoRun}, status: {"absent"} \cup Ended]
  /\ faults \in 0..MaxFaults /\ starts \in [RunIds -> Nat]

\* worker.py: "several workers never execute the same run", and an
\* interrupted one is "never silently re-run": execute_run begins a run at
\* most once, whatever dies, is cancelled, reaped or deleted meanwhile.
ExecutedOnce == \A r \in RunIds : starts[r] <= 1

\* _RunState.end: "no stage is left running or pending" once a run has ended
\* (while end_interrupted is still at work its reaper is about to close them;
\* a reaper that dies just then, the second process to do so, leaves them open).
EndedIsClosed ==
  \A r \in RunIds : runs[r].status \in Ended =>
    \/ Open(runs[r].stages) = {}
    \/ \E w \in Workers : pc[w] = "reapEnd" /\ job[w] = r
    \/ runs[r].status = "error" /\ faults > 1

\* cancel_run: "Mark run cancelled in DB": a cancelled run stays cancelled.
CancelledIsFinal ==
  [][\A r \in RunIds : runs[r].status = "cancelled" =>
       runs'[r].status \in {"cancelled", "deleted"}]_vars

\* The run documents and the project's last run as their users see them.
Lifecycle == INSTANCE RunLifecycle WITH
               status <- [r \in RunIds |-> runs[r].status],
               shown  <- lastRun

\* While heartbeats are punctual and nothing is cancelled or deleted, whatever workers
\* and reapers die, a run is taken once and ends once, by one worker or one reaper
\* (worker.py, update_if), and the project shows no status but the final one of a run
\* that has ended (runner.py, _finish_project).
FollowsLifecycle == Lifecycle!Safety

\* The same, and every run that was queued is taken and ends (worker.py, reap_stale).
ImplementsLifecycle == Lifecycle!Spec
=============================================================================
