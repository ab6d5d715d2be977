----------------------------- MODULE RunTriggers -----------------------------
(***************************************************************************)
(* What starts the pipeline runs of one project: pushes reported by a      *)
(* webhook (backend/api/webhooks.py), a user's request                     *)
(* (backend/api/pipelines.py), the schedule                                *)
(* (backend/pipeline/scheduler.py), and a run that ends and starts the run *)
(* for the push that waited for it (execute_run in                         *)
(* backend/pipeline/runner.py).                                            *)
(*                                                                         *)
(* With inline execution all of this happens in one process, between whose *)
(* awaits nothing else runs: a request is handled in one step.  With       *)
(* workers, requests, schedulers and workers are separate processes that   *)
(* meet in the database, one access at a time.  What a run does between    *)
(* starting and ending is PipelineRuns' subject.                           *)
(***************************************************************************)
EXTENDS Naturals, FiniteSets

CONSTANTS
  MaxPush,          \* pushes are numbered 1..MaxPush in the order they are reported
  Manuals,          \* requests of users to run the pipeline
  Schedulers,       \* the processes that run scheduler_loop, and the cron tick
  MaxNow,           \* bound: the clock, in units of schedule_minutes
  MaxRuns,          \* bound: run documents (enough for every request and slot)
  Workers,          \* how many worker processes take runs
  Modes,            \* settings.PIPELINE_EXECUTION: which of its values are looked at
  Faults,           \* which of FaultKinds this system meets
  MaxFaults         \* bound: how many of them

FaultKinds == {"cancel",    \* a user cancels an active run
               "restart",   \* the server restarts (inline execution)
               "die",       \* a worker process dies
               "outage"}    \* the database is unavailable after a run ended

ASSUME RunTriggersAssumption ==
  /\ {MaxPush, MaxNow, MaxRuns, Workers, MaxFaults} \subseteq Nat
  /\ Modes \subseteq {"inline", "worker"}
  /\ Faults \subseteq FaultKinds

Pushes == 1..MaxPush
NoPush == 0
RunIds == 1..MaxRuns
Slots == 0..(MaxNow + 1)

(* Requests, and what a run was started for. *)
PushRequests == {"push"} \X Pushes
Ticks == {"tick"} \X Schedulers
Requests == PushRequests \union ({"manual"} \X Manuals) \union Ticks
Origins == PushRequests \union ({"manual"} \X Manuals) \union ({"slot"} \X Slots)
NoOrigin == <<"none", 0>>

VARIABLES
  mode,             \* the value of PIPELINE_EXECUTION
  runs,             \* run documents: [status, origin], and who executes them: [at, push]
  pending,          \* the project's pending_push
  next_run_at,      \* the project's next_run_at
  now,              \* the clock
  req,              \* requests: [pc, slot, time]
  replaced,         \* history: waiting pushes that a later one replaced
  faults            \* faults so far

vars == <<mode, runs, pending, next_run_at, now, req, replaced, faults>>

Inline == mode = "inline"

Exists(r) == runs[r].status # "none"
ACTIVE == {"queued", "running"}
Some(s) == \E r \in RunIds : runs[r].status = s

-----------------------------------------------------------------------------
NoRun == [status |-> "none", origin |-> NoOrigin, at |-> "none", push |-> NoPush]
Waiting == [pc |-> "idle", slot |-> 0, time |-> 0]

Init ==
  /\ mode \in Modes
  /\ runs = [r \in RunIds |-> NoRun]
  /\ pending = NoPush
  /\ next_run_at = 0
  /\ now = 0
  /\ req = [q \in Requests |-> Waiting]
  /\ replaced = {}
  /\ faults = 0

Fault(kind) ==
  /\ kind \in Faults
  /\ faults < MaxFaults
  /\ faults' = faults + 1

next_run_after(t) == t + 1

(* start_run: a new document, queued, and (inline) its task. *)
Free(r) == ~Exists(r) /\ \A s \in RunIds : s < r => Exists(s)
Queued(origin) == [status |-> "queued", origin |-> origin, at |-> "wait", push |-> NoPush]

start_run(origin) ==
  \E r \in RunIds : Free(r) /\ runs' = [runs EXCEPT ![r] = Queued(origin)]

\* mutant: a push that finds an active run is not kept for later
QueueNothing(q) == UNCHANGED <<pending, replaced>>

(* _start_or_queue with a run active: the push waits, in place of an earlier one. *)
Queue(q) ==
  /\ pending' = q[2]
  /\ replaced' = replaced \union ({pending} \ {NoPush})

(* What a request does once it knows whether a run is active: _start_or_queue *)
(* of the webhooks, _start of the API (409 Conflict), tick of the scheduler. *)
Act(q, origin, found) ==
  \/ found /\ q \in PushRequests /\ Queue(q) /\ UNCHANGED runs
  \/ found /\ q \notin PushRequests /\ UNCHANGED <<runs, pending, replaced>>
  \/ ~found /\ start_run(origin) /\ UNCHANGED <<pending, replaced>>

(* A scheduler ticks again; a push or a user's request is answered. *)
Answered(q) == IF q \in Ticks THEN Waiting ELSE [req[q] EXCEPT !.pc = "done"]
OriginOf(q) == IF q \in Ticks THEN <<"slot", req[q].slot>> ELSE q

(* Pushes are reported in order. *)
Arrives(q) ==
  /\ q \notin Ticks
  /\ req[q].pc = "idle"
  /\ q \in PushRequests => \A p \in Pushes : p < q[2] => req[<<"push", p>>].pc # "idle"

-----------------------------------------------------------------------------
(* Inline execution: a request is one step. *)

Request(q) ==
  /\ Inline
  /\ Arrives(q)
  /\ Act(q, q, Some("queued") \/ Some("running"))
  /\ req' = [req EXCEPT ![q] = Answered(q)]
  /\ UNCHANGED <<mode, next_run_at, now, faults>>

Tick(q) ==
  /\ Inline
  /\ q \in Ticks
  /\ next_run_at <= now
  /\ next_run_at' = next_run_after(now)
  /\ Act(q, <<"slot", next_run_at>>, Some("queued") \/ Some("running"))
  /\ UNCHANGED <<mode, now, req, faults>>

-----------------------------------------------------------------------------
(* With workers: one database access a step.  active_run looks for a queued *)
(* run, then for a running one.                                             *)

Goes(q, pc) == req' = [req EXCEPT ![q].pc = pc]

Begin(q) ==
  /\ ~Inline
  /\ Arrives(q)
  /\ Goes(q, "queued?")
  /\ UNCHANGED <<mode, runs, pending, next_run_at, now, replaced, faults>>

(* tick: the due project is read, then its slot claimed by moving next_run_at *)
(* on from the value read.                                                   *)
Due(q) ==
  /\ ~Inline
  /\ q \in Ticks
  /\ req[q].pc = "idle"
  /\ next_run_at <= now
  /\ req' = [req EXCEPT ![q] = [pc |-> "claim", slot |-> next_run_at, time |-> now]]
  /\ UNCHANGED <<mode, runs, pending, next_run_at, now, replaced, faults>>

Claim(q) ==
  /\ ~Inline
  /\ req[q].pc = "claim"
  /\ \/ /\ next_run_at = req[q].slot
        /\ next_run_at' = next_run_after(req[q].time)
        /\ Goes(q, "queued?")
     \/ /\ next_run_at # req[q].slot
        /\ req' = [req EXCEPT ![q] = Waiting]
        /\ UNCHANGED next_run_at
  /\ UNCHANGED <<mode, runs, pending, now, replaced, faults>>

Look(q) ==
  /\ \/ req[q].pc = "queued?" /\ Goes(q, IF Some("queued") THEN "found" ELSE "running?")
     \/ req[q].pc = "running?" /\ Goes(q, IF Some("running") THEN "found" ELSE "free")
  /\ UNCHANGED <<mode, runs, pending, next_run_at, now, replaced, faults>>

Respond(q) ==
  /\ req[q].pc \in {"found", "free"}
  /\ Act(q, OriginOf(q), req[q].pc = "found")
  /\ req' = [req EXCEPT ![q] = Answered(q)]
  /\ UNCHANGED <<mode, next_run_at, now, faults>>

-----------------------------------------------------------------------------
(* Executing a run: execute_run, in a task (inline, one at a time under     *)
(* _run_lock) or in a worker (which takes the oldest queued run).           *)

Executing == {"run", "ended", "notify", "create"}
Busy == {r \in RunIds : runs[r].at \in Executing}

CanBegin(r) == runs[r].at = "wait" /\ runs[r].status = "queued"

RunBegins(r) ==
  /\ CanBegin(r)
  /\ \A s \in RunIds : s < r => ~CanBegin(s)
  /\ Cardinality(Busy) < IF Inline THEN 1 ELSE Workers
  /\ runs' = [runs EXCEPT ![r].status = "running", ![r].at = "run"]
  /\ UNCHANGED <<mode, pending, next_run_at, now, req, replaced, faults>>

\* mutant: the project as it was when the run began is used (no push waited then)
RunEndsUnread(r) ==
  /\ runs[r].at = "run"
  /\ runs' = [runs EXCEPT ![r].status = "ended", ![r].at = "notify"]
  /\ UNCHANGED <<mode, pending, next_run_at, now, req, replaced, faults>>

(* The run ended and the project is read: inline before the next await. *)
RunEnds(r) ==
  /\ runs[r].at = "run"
  /\ runs' = IF Inline
             THEN [runs EXCEPT ![r].status = "ended", ![r].at = "notify", ![r].push = pending]
             ELSE [runs EXCEPT ![r].status = "ended", ![r].at = "ended"]
  /\ UNCHANGED <<mode, pending, next_run_at, now, req, replaced, faults>>

ReadProject(r) ==
  /\ runs[r].at = "ended"
  /\ runs' = [runs EXCEPT ![r].at = "notify", ![r].push = pending]
  /\ UNCHANGED <<mode, pending, next_run_at, now, req, replaced, faults>>

\* mutant: the push is cleared without comparing
TakesAny(r) == runs[r].push # NoPush

(* update_if on pending_push: the push read is still the one waiting. *)
Takes(r) == runs[r].push # NoPush /\ pending = runs[r].push

(* Notifications and the commit status are sent (awaits), then              *)
(* _start_pending_push.                                                     *)
_start_pending_push(r) ==
  /\ runs[r].at = "notify"
  /\ \/ /\ ~Takes(r)
        /\ runs' = [runs EXCEPT ![r].at = "done"]
        /\ UNCHANGED pending
     \/ /\ Takes(r)
        /\ ~Inline
        /\ pending' = NoPush
        /\ runs' = [runs EXCEPT ![r].at = "create"]
     \/ /\ Takes(r)
        /\ Inline
        /\ pending' = NoPush
        /\ \E s \in RunIds :
             /\ Free(s)
             /\ runs' = [runs EXCEPT ![r].at = "done", ![s] = Queued(<<"push", runs[r].push>>)]
  /\ UNCHANGED <<mode, next_run_at, now, req, replaced, faults>>

CreatePending(r) ==
  /\ runs[r].at = "create"
  /\ \E s \in RunIds :
       /\ Free(s)
       /\ runs' = [runs EXCEPT ![r].at = "done", ![s] = Queued(<<"push", runs[r].push>>)]
  /\ UNCHANGED <<mode, pending, next_run_at, now, req, replaced, faults>>

(* reap_stale: a dead worker's run is ended; nothing else is done for it. *)
Reap(r) ==
  /\ runs[r].at = "dead"
  /\ runs[r].status = "running"
  /\ runs' = [runs EXCEPT ![r].status = "ended"]
  /\ UNCHANGED <<mode, pending, next_run_at, now, req, replaced, faults>>

-----------------------------------------------------------------------------
(* Faults. *)

(* cancel_run: the document is ended; inline the task is cancelled with it,  *)
(* a worker goes on.                                                         *)
Cancel(r) ==
  /\ runs[r].status \in ACTIVE
  /\ Fault("cancel")
  /\ runs' = IF Inline THEN [runs EXCEPT ![r].status = "ended", ![r].at = "done"]
                       ELSE [runs EXCEPT ![r].status = "ended"]
  /\ UNCHANGED <<mode, pending, next_run_at, now, req, replaced>>

(* recover_interrupted: active runs are ended; the tasks are gone. *)
Restart ==
  /\ Inline
  /\ Fault("restart")
  /\ runs' = [r \in RunIds |-> IF Exists(r) THEN [runs[r] EXCEPT !.status = "ended", !.at = "done"]
                                            ELSE runs[r]]
  /\ UNCHANGED <<mode, pending, next_run_at, now, req, replaced>>

Die(r) ==
  /\ ~Inline
  /\ runs[r].at \in Executing
  /\ Fault("die")
  /\ runs' = [runs EXCEPT ![r].at = "dead"]
  /\ UNCHANGED <<mode, pending, next_run_at, now, req, replaced>>

(* StoreUnavailableError after the run ended: nothing more is done for it. *)
Outage(r) ==
  /\ runs[r].at \in {"ended", "notify", "create"}
  /\ Fault("outage")
  /\ runs' = [runs EXCEPT ![r].at = "done"]
  /\ UNCHANGED <<mode, pending, next_run_at, now, req, replaced>>

-----------------------------------------------------------------------------
Clock ==
  /\ now < MaxNow
  /\ now' = now + 1
  /\ UNCHANGED <<mode, runs, pending, next_run_at, req, replaced, faults>>

(* The steps of the program itself on a request and on a run. *)
Handle(q) == Tick(q) \/ Due(q) \/ Claim(q) \/ Look(q) \/ Respond(q)
Execute(r) ==
  RunBegins(r) \/ RunEnds(r) \/ ReadProject(r) \/ _start_pending_push(r) \/ CreatePending(r) \/ Reap(r)

Next ==
  \/ \E q \in Requests : Request(q) \/ Begin(q) \/ Handle(q)
  \/ \E r \in RunIds : Execute(r) \/ Cancel(r) \/ Die(r) \/ Outage(r)
  \/ Restart
  \/ Clock

Spec == Init /\ [][Next]_vars

(* Requests are answered; a run that began ends (PipelineRuns), its lock or *)
(* worker is free for the next one, and the reaper runs.                    *)
FairSpec ==
  /\ Spec
  /\ \A q \in Requests : WF_vars(Handle(q))
  /\ \A r \in RunIds : WF_vars(Execute(r))

-----------------------------------------------------------------------------
(* Properties. *)

(* What the variables hold. *)
Docs == [status : {"none", "queued", "running", "ended"}, origin : Origins \union {NoOrigin},
         at : {"none", "wait", "done", "dead"} \union Executing, push : Pushes \union {NoPush}]
Reqs == [pc : {"idle", "claim", "queued?", "running?", "found", "free", "done"},
         slot : Slots, time : 0..MaxNow]

(* The type invariant. *)
TypeOK ==
  /\ mode \in Modes
  /\ runs \in [RunIds -> Docs]
  /\ pending \in Pushes \union {NoPush}
  /\ next_run_at \in Slots
  /\ now \in 0..MaxNow
  /\ req \in [Requests -> Reqs]
  /\ replaced \subseteq Pushes
  /\ faults \in 0..MaxFaults

(* No push and no slot of the schedule starts two runs: not when two workers *)
(* end runs at the same time and both read the waiting push, not when two    *)
(* schedulers see the same project due.                                      *)
StartedOnce ==
  \A r, s \in RunIds : (Exists(r) /\ Exists(s) /\ runs[r].origin = runs[s].origin) => r = s

(* A push that was answered is not forgotten while nothing fails: it has a   *)
(* run, waits, was replaced by a later one, or is being started.             *)
Remembered(p) ==
  \/ pending = p
  \/ p \in replaced
  \/ \E r \in RunIds : runs[r].origin = <<"push", p>>
  \/ \E r \in RunIds : runs[r].at = "create" /\ runs[r].push = p

NoPushForgotten ==
  faults = 0 => \A p \in Pushes : req[<<"push", p>>].pc = "done" => Remembered(p)

(* Inline, and while nothing fails, a push that waits is run, or a later     *)
(* push waits in its place.                                                  *)
WaitingPushRuns ==
  \A p \in Pushes : (Inline /\ pending = p) ~> (pending # p \/ faults > 0)
=============================================================================
