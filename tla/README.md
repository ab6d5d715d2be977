# TestSphere-AI: TLA+ specifications

TestSphere-AI takes a project (a repository and the URL where it runs), generates tests for it, runs
them in a browser, repairs tests whose selectors no longer match, reports, and deploys what passed.
This directory holds TLA+ models of the parts of it whose correctness depends on the order in which
things happen, the TLC configurations that check them on small instances, and proofs of the most
important results for all instances.

* [Inventory](#inventory): the system's parts, their state and what makes them correct
* [Modules](#modules): which module models what, and how it corresponds to the code
* [Runs](#runs): what TLC checks, bounds, fairness
* [Disagreements](#disagreements-between-code-and-documentation): where the code does not do what it says
* [Proofs](#proofs)
* [Not modelled](#not-modelled), [Plan](#plan)

`PROJECT.json` maps every definition to the source lines it models and lists components, runs,
mutants, hazards, findings and theorems.

To run: `tlc -workers 2 -config X.cfg MCModule` for a run, `tlapm XProofs.tla` for a proof.

## Inventory

| Part | Source | State | Operations | Interacts with |
|---|---|---|---|---|
| Store | `backend/database/store.py` | documents in collections (Firestore, or memory) | `insert`, `get`, `find`, `update`, `update_if`, `delete` | everything; the only state processes share |
| Run queue and worker | `backend/worker.py`, `backend/pipeline/runner.py` | run documents: status, stages, worker, heartbeat | create, claim, execute, heartbeat, reap, cancel, recover, delete | store; stages; triggers |
| Run triggers | `backend/api/webhooks.py`, `backend/api/pipelines.py`, `backend/pipeline/scheduler.py` | project's `pending_push`, `next_run_at` | push, manual start, tick, start the waiting push | run queue |
| Deployments | `backend/pipeline/deploy.py` | deployment documents: status, four steps, heartbeat, commit | ask, deploy, verify, smoke, roll back, end stale ones, recover | the host's hooks, the site, orchestrator (smoke tests) |
| Platform orchestrator | `backend/orchestration/orchestrator.py`, `backend/api/workflow.py` | execution records | execute a test, retry, validate a heal, record the result | engine, agent orchestrator |
| Agent orchestrator | `agents/orchestration/agent_orchestrator.py` | one workflow state per execution, in memory | submit execution result, submit healing result | policy, analyzer, healer, memory |
| Recovery policy | `agents/orchestration/recovery_policy.py` | none (configuration) | evaluate, continue after a failed heal | agent orchestrator |
| Pipeline stages | `backend/pipeline/runner.py`, `suite.py`, `explore.py`, `ai_plan.py`, `services/url_analyzer.py`, `services/goal_plan.py` | the project's test cases (steps, quarantine), stage results, report | code base, analyze, plan, explore, execute, report; trust, quarantine, edit, delete and save a test | engine, planner, explorer, orchestrator |
| Test engine | `engine/` | browser slots, a session, step results; fingerprints and fallback locators kept on the test case | run steps, heal at run time, learn | browser, store |
| Failure analyzer | `agents/analyzer` | none | classify an error message, by ordered rules, by memory, by a model | agent orchestrator |
| Healing agent | `agents/healer`, `orchestration/converters.py` | none | read the page, generate, score and rank replacements, decide, give feedback | agent orchestrator, memory |
| Agent memory | `agents/memory`, `backend/api/me.py` | per process an index of records, and their rows in the store | store, recall, replay at start, erase an account | healing agent, analyzer |
| Planner | `agents/planner`, `pipeline/ai_plan.py` | none | ask for tests, check, de-duplicate and ground them in the page | plan stage |
| Goal explorer | `agents/explorer` | a browser page, the steps taken, the bad answers so far | look, ask, guard, act, verify, record | explore stage, LLM client |
| LLM client | `agents/llm` | one call's attempts | ask, retry, wait for a rate limit, read the answer | all agents |
| Security | `security/`, `backend/api/security.py`, `patches.py`, `services/security_service.py` | findings, fix patches, branches and pull requests on the Git host | scan, probe, retest, approve, build a patch, open a pull request | the site, the repository, Git hosts |
| Ingestion | `ingestion/`, `backend/api/ingest.py` | what is known of a repository | clone, find routes and dependencies, look up advisories | plan stage, security |
| Rate limit | `backend/ratelimit.py` | recent requests per user | allow or refuse | API |
| Reporting, notifications, integrations, CRUD API, frontend | `backend/…`, `frontend/` | documents of their own | mostly one read or write each | store, external services |

What is hard here:

* **Processes that only share the database.** With `PIPELINE_EXECUTION=worker` the API, its schedulers
  and several workers interleave between any two database calls. Only `update_if` is atomic; everything
  else is read, decide, write, from copies that may be stale.
* **Processes that die.** Runs and deployments carry heartbeats; somebody else decides that the owner is
  gone, while it may only be slow.
* **asyncio.** Within a process nothing interrupts code between two awaits, but everything does at an
  await, and a cancellation arrives there as an exception that `except Exception` does not catch.
* **Counters and limits spread over two layers**: the policy's retries and heals, the platform's own cap,
  kept in a state that a later or an overlapping call picks up again.
* **A world that cannot be read directly**: whether the new version of a site is live is inferred from
  page hashes; whether an element is the one a test meant, from a score; what a failure is, from the words
  of its message; whether a finding is fixed, from not seeing it again.
* **Models that answer anything**: what the planner, the explorer and the healer make of an answer must be
  safe whatever it says, and whatever the page did while it was awaited.
* **Tables that several authors write**: rules, two models and a user write the same test cases, over many
  runs; scans, retests and users write the same findings.

The properties that make the parts correct are the ones under [Runs](#runs); the hazards each of them is
aimed at are in `PROJECT.json`, at the line where they bite.

## Modules

| Module | Models | Used by |
|---|---|---|
| `RunLifecycle` | what a user relies on of the run queue (abstract) | `PipelineRuns` |
| `PipelineRuns` | the run queue in worker mode; the refinement mapping | `MCPipelineRuns`, `PipelineRunsProofs` |
| `RunTriggers` | what starts the runs of a project | `MCRunTriggers`, `RunTriggersProofs` |
| `AgentEnums` | the names the agents share | the agents' modules |
| `RecoveryPolicy` | the policy's decisions, as operators | `AgentWorkflow`, `HealingLoop` |
| `AgentWorkflow` | executing a test with retries and healing | `MCAgentWorkflow`, `AgentWorkflowProofs` |
| `Deployments` | verified deploys and rollback | `MCDeployments`, `DeploymentsProofs` |
| `Healer` | fingerprints, scores, locators and the run-time healing decision, as operators | `TestEngine` |
| `TestEngine` | `run_test`: sessions, steps, run-time healing, what is learned | `MCTestEngine`, `TestEngineProofs` |
| `FailureAnalysis` | both classifiers of failures, as operators | `HealingLoop` |
| `PageElements` | a page as evidence, selectors, element records, as operators | `HealingLoop` |
| `HealingDecision` | candidates, scores, ranking and the recommendation, as operators | `HealingLoop` |
| `AgentMemory` | the memory's index per process and rows, its writers, the erasure | `HealingLoop` |
| `HealingLoop` | composes the five above around one failing step | `MCHealingLoop`, `HealingLoopProofs` |
| `LLMClient` | one question to the language model | `GoalExplorer` |
| `GoalExplorer` | the exploration of a goal and its recording | `MCGoalExplorer`, `SuiteRunsProofs` |
| `StoredSteps` | stored steps and the engine plan they become, as operators | `PagePlan` |
| `PagePlan` | analysis of a page, goal parts, rule-based suite, as operators | `TestPlanner` |
| `TestPlanner` | what is kept of the planner's answer, as operators | `SuiteRuns` |
| `SuiteRuns` | the stages of runs over a project's tests | `MCSuiteRuns`, `SuiteRunsProofs` |
| `SecurityScanner` | what the scanners report for a page, as operators | `FixPatcher` |
| `FixPatcher` | the patch for a set of findings, as operators | `SecurityFindings` |
| `SecurityFindings` | scans, retests, patches and pull requests | `MCSecurityFindings`, `SecurityFindingsProofs` |
| `Positions` | lists, and selections from them by the positions that stay | `Healer`, `PageElements`, `HealingDecision`, `StoredSteps`, `GoalExplorer` |

In every module a definition keeps the name of the function it stands for where TLA+ allows it.
Definitions marked `\* mutant` are not part of the model: each is a plausible bug that, put in place of
the definition that follows it, violates the property named in `PROJECT.json`.

### PipelineRuns

`runs` holds the documents, `age` how long ago each heartbeat was written. Each worker has its place in
the code (`pc`), the run it claimed (`job`), what its last `find` returned (`rows`) and the copy that
`_RunState` writes back (`copy`). *One step is one database call*, because another process may act
between any two. `execute_run` is `ExecuteRead`, `ExecuteBegin`, `StageSave` (several times), `Report` or
`EndError`, `ExecuteFinish`, `ExecuteReturn`; `work()` is the reap steps and `ClaimFind`, `Claim`; the
reaper's `update_if` compares the heartbeat it read, as in the code. `Kill`, `Restart`, `Outage`, the
API's cancel (four steps) and project deletion complete it.

Abstracted: a stage's outcome is "closed"; what the stages do is in `SuiteRuns`.

`RunLifecycle` is the abstract specification: a run is submitted, taken, ended, once each, and the project
shows an ended run with the status it ended with. `Lifecycle` in `PipelineRuns` is the refinement
mapping: the abstract `status` is the `status` field of each document, `shown` is the project's
`last_run_id` and `last_run_status`. Everything else the queue does, claiming, heartbeats, reaping,
closing stages, stutters.

### RunTriggers

One project. `runs` holds its documents with what each was started for (`origin`), `pending` and
`next_run_at` are the project's fields, `req` is where each request is. Inline, a webhook or a request
has no await between its check and its start and is one step (`Respond` does all of it); with workers
each database access is a step. After a run: `RunEnds`, `ReadProject` (before the notifications are
awaited), `_start_pending_push` (the `update_if` on `pending_push`), `CreatePending`.

`replaced` is a history variable: pushes that a later one replaced while they waited.

### RecoveryPolicy and AgentWorkflow

`RecoveryPolicy` states the policy as a relation between inputs and decision: the attempt limit, the
policy of the failure type, retries, eligible candidates (not tried, score above the minimum after the
memory boost), the ambiguity margin, confidence. Scores are integers in hundredths.

`AgentWorkflow`: a *call* is one `execute_test_run`. `status` is the execution record, `workflows` the
agent orchestrator's dictionary of states, `calls` the local variables of each call, its working copy of
the workflow state included. Steps are what runs between two awaits: the browser run
(`RunPasses`, `RunFails`), the analysis (`Analyzed…`), the recommendation (`Recommended…`), each
validation (`Heal…`). `_transition` is the code's table; a transition that the code would refuse with an
exception leaves the step `INVALID`, which `NoInvalidTransition` says never happens. The analyzer's
verdict and the healer's ranking are inputs: any failure type of `SeenFailures`, any ranking of
`Rankings`.

### Deployments

`deps` holds the documents, `tasks` the local variables of `execute_deployment` and `wait_healthy`, `req`
the request each process handles, `last` the project's fields. A step of a request is one database
access; a step of a deployment is what runs between two awaits, and while a process handles a request its
deployments do not move. The host is outside: it may serve any version at any time. A version's page is
a hash; the page of a version in `Dynamic` never hashes the same twice in a row. Time is what the loop
compares it with: before the settle time, after it, after the deadline. A smoke test is its verdict (its
execution is `AgentWorkflow`).

### Healer and TestEngine

A page is a set of elements, each described by what a fingerprint records; a locator is a kind, a tag and
a value, and matches by what its kind says. `Healer` has the four signals with their weights, the cap for
look-alikes and the floor for a kept id, `generate_locators`, `rank_locators`, and `attempt_healing` as
the set of locators it may select: the first good fallback, else the best element of a scan of at most
`max_candidates`, if nothing comes within the margin. Scores are integers in hundredths, rounded down.
The attributes not in the model are treated by the code like one that is.

`TestEngine`: `call` holds the local variables of each `run_test`, `slots` the semaphore, `learned` the
test case's `healing_targets`. A step of the plan is `Look` or `LookMissing` (a locator that matches
nothing is healed early), `Act`, then `Learn`, or `Heal` and `Retry`; `ActEarly` acts on an early heal.
`Opened`, `OpenFails`, `Crash`, `Close` and `Cancel` are the session's ends. `End` stores what was
learned unless it is what this execution read; `Rerun` is the platform's retry with the same, enriched
plan. `Render` is the application, which may show another page between any two awaits. One healing
decision looks at one page (in the code each candidate is awaited). `heals` and `checked` are history:
on which page a step was healed, and whether its check failed on the element found. `click` stands for
every interaction.

### FailureAnalysis, PageElements, HealingDecision, AgentMemory and HealingLoop

The AI healing, from a failed step to what is remembered of it. An error message is the set of phrases
in it, because both classifiers look for substrings; their ordered rules are ordered here. There is a
phrase for each set of patterns that the two treat alike. `MCHealingLoop` evaluates their agreement
(`SecondOpinionIsStricter`) on all messages of up to three phrases. A page is a
sequence of elements with the attributes the code reads; a selector is a form and its values;
`_unique_selector` and the collection limits are kept. Candidates come from the page and from memory;
their signals, weights, thresholds and the ambiguity test are in hundredths; ranking is a stable sort.
The model that may be asked to choose answers anything, or fails.

`AgentMemory` has, for each process, an `index` and, shared, the `rows`: records under the number they
came with, so that a deletion leaves a gap and the order stays. A store appends to the index and then
inserts the row; the erasure of an account runs in a thread of the API process, so its steps (delete the
rows, clear the index, read the rows back) fall between those of a store. `HealingLoop` has a `run` per
test: fail, analyze, recommend, validate, learn, with the retries and heals the policy grants.

### LLMClient and GoalExplorer

A call to the model is a record with its attempts; `LLMClient` says which replies are final, which are
asked again and after how long. `GoalExplorer`: `pc` is where the loop is (`look`, `ask`, `act`), `view`
the elements the model was shown, `page` what the browser shows *now*, which may have drifted. The site
is a graph (`Leads`); a form half filled in is a page of its own. Guardrails are conjuncts of the acting
actions. `moved` says that the page changed by itself after it was read for this turn: the locator the
model chose is then resolved on another page. A page can be a notice, with nothing to act on. `steps`
becomes the recording; `Replay` runs it from the start, and cannot find an outcome that is kept with its
blanks (`Unfindable`). `acted` and `drifted` are history. The initial states, steps and specifications
are `ExplorerInit`, `ExplorerNext`, `Exploration` and `FairExploration`, so that one module of proofs
can extend this module and `SuiteRuns`.

### StoredSteps, PagePlan, TestPlanner and SuiteRuns

`PagePlan` has what the plan stage makes of a page by rules: `split_goal`, the steps of later parts, the
suite with its slugs. `TestPlanner` has the filters on the planner's answer: what parses, the rules of a
case, duplicates, elements that are not on the page. `StoredSteps` has the two conversions between a
stored test and the engine's plan. `SuiteRuns` runs the stages over `rows`, the test table: each stage
is one or more steps (`plan` computes, `write` stores test by test), so that a user's edits, a deletion
or a stopped process fall between them. `st` holds the stage's local variables, `ended` the last report.
`reviewed` (steps a person wrote or trusted), `touched` and `halfway` (a test inserted by a run that
stopped before it quarantined it) are history.

### SecurityScanner, FixPatcher and SecurityFindings

A page is what one visit shows of it; a finding is its check and what tells it apart. `FixPatcher` is
`build_patch` by framework: which topics an edit answers for, in which file, and what is left to do by
hand. `SecurityFindings` serves overlapping requests in `Slots`; a step is what happens between two waits
for the site, a clone or the Git host. `agreed` is history: the findings of which the last saved check saw
what the site still is. A pull request carries whether it was asked for after one had been answered.
`BRANCH_NAMES` is 5 in the code.

## Runs

| Run | Instance | Checks |
|---|---|---|
| `runs_all_faults` | 2 workers, 1 run, every fault | `TypeOK`, `ExecutedOnce` |
| `runs` | 2 workers, 2 runs, a death, punctual heartbeats | `EndedIsClosed`, `ImplementsLifecycle` |
| `runs_cancel_lost` | expects a violation, see below | `CancelledIsFinal` |
| `workflow` | 2 calls on one execution, 2 selectors, every fault, up to two, scores on both sides of every threshold | `TypeOK`, `RecordIsHonest`, `NoInvalidTransition`, `WithinLimits`, `NeverTriedTwice`, `NeverOnAGuess`, `EndsUnlessLost` |
| `triggers` | inline and worker mode, 2 pushes, 2 schedulers, 2 slots, every fault | `StartedOnce`, `NoPushForgotten`, `WaitingPushRuns` |
| `deployments` | API and a worker, 2 deployments, 2 versions (one dynamic), every fault but a slow smoke test | `ResultFitsSteps`, `RollbackIsVerified`, `EndedIsFinal`, `ChangeIsReal` |
| `deployments_live` | the same, every fault, one version | `DeploymentEnds` |
| `engine` | 2 executions, one browser slot, 5 pages, a plan of 5 steps with repeated locators, one fault of any kind | `SlotsKept`, `HealIsSafe`, `NotAGuess`, `PassMeansAllSteps`, `CheckIsTheResult`, `HealsAtOnce` |
| `healing` | 2 tests in the API process, one of them of an account that is erased, 4 records, one fault | `TriedIsOnThePage`, `OnlyValidatedIsRemembered`, `ErasedIsForgotten`, `FailedCheckStands` |
| `explorer` | 4 turns, 5 elements, one retry, one bad answer, a site that drifts | `RecordingReplays`, `StaysWithinGoal`, `QuotaIsRespected`, `ExplorationEnds` |
| `suite` | 2 runs, one edit of any kind, one failing test per run | `UnreviewedCannotFail`, `EveryPathIsVisited`, `GoalIsAccountedFor`, `PlannerStaysOnThePage` |
| `security` | 2 slots, 4 requests, 2 deploys, restarts, 3 pages, 5 repositories on 3 Git hosts | `SettledIsTrue`, `NoCheckDropped`, `NoSecondAfterAnswer` |

Every module with state has a type invariant that documents it. Two runs check theirs, and TLAPS proves
seven (see [Proofs](#proofs)).

What they show:

* **ExecutedOnce**: no run is executed twice, whatever dies, is cancelled, reaped or deleted in between.
* **ImplementsLifecycle**: if live workers write their heartbeat before it is stale, the queue implements
  `RunLifecycle`: a run is taken once, ends once and keeps that status; the reaper only ends abandoned
  runs; the project shows an ended run as it ended; and no run waits or runs for ever, a death included.
  **EndedIsClosed**: an ended run has no open stage once its owner is done with it. The conditions are
  needed. A worker late by the whole stale time can have its just-finished run turned to `error` (the
  reaper's `update_if` compares the heartbeat, not the status). A reaper that dies between its two writes
  leaves stages open, which takes a second death: `EndedIsClosed` excepts it. The run has one death; the
  case of two is covered by the proof. In an outage of the database the work task ends and the
  process stays up, so queued runs wait.
* **StartedOnce**: no push and no slot starts two runs; `update_if` decides. **NoPushForgotten**: while
  nothing fails an answered push has a run, waits, or was replaced. **WaitingPushRuns**: inline and while
  nothing fails, a waiting push is run. Under faults it may wait until another run of the project ends:
  a cancelled, reaped or recovered run does not look at it.
* **RecordIsHonest**: an execution says PASSED or HEALED only if the last browser run of its call
  passed, and always then while nothing but the test failed. **NeverOnAGuess**: a selector is tried only
  if it is trusted and no untried one is as good. **NeverTriedTwice**, **WithinLimits**: through
  retries, re-rankings and continued workflows. **NoInvalidTransition**: also for overlapping calls,
  although these write each other's workflow state over, a completed one included. **EndsUnlessLost**:
  every execution gets a result unless its call was cancelled, died with its process, or lost the
  database even for that.
* **ResultFitsSteps**: `verified`, `rolled_back`, `rollback_failed` and `failed` mean what the steps
  show. **EndedIsFinal** (of `Deployments`): the recovery of a restarted API does not touch a live
  worker's deployment, and nothing changes a result, except that a cancellation while the HTTP clients
  are being closed replaces the saved result by `error`. It also needs smoke tests shorter than
  `DEPLOY_STALE_SECONDS`, the only stretch without a heartbeat. **ChangeIsReal**: for a site that
  answered before the hook. One that did not counts as changed at once. **RollbackIsVerified**: the
  recorded target passed every check of an earlier deployment (of the *recorded* commit: the hook may
  ship a newer one pushed in between). **DeploymentEnds**: no deployment blocks the later ones for ever.
* **SlotsKept**: no way to end a session, failed or cancelled at any await, loses a browser slot.
  **HealIsSafe**: the locator of a heal names one visible element of the same tag that shares an
  identifying feature the broken locator did not use. It needs `heal_threshold` above `NO_IDENTITY_CAP`.
  **NotAGuess**: a heal by scan beats every other element by the margin, on pages of at most
  `max_candidates` elements; on larger ones the rival may not have been looked at. **CheckIsTheResult**:
  a failed `assert_text` or `assert_hidden` is never healed (for `assert_visible` see below).
  **PassMeansAllSteps**: a session that breaks down is never a pass. **HealsAtOnce**: a heal is what the
  next run tries first, unless a later step with the same locator, or an overlapping execution, stored its
  own entry over it.
* **TriedIsOnThePage**: what is tried is one element of the page the step failed on, and not the selector
  that failed; with the weights as configured, a replacement known only from memory never reaches the
  threshold. One element *of those
  collected*: an element the snapshot left out may match as well. **OnlyValidatedIsRemembered**: memory
  calls a replacement a success only after a run with it passed. **ErasedIsForgotten**: a store that falls
  between the steps of an erasure does not bring a record back, in the process that erased; others keep
  theirs until they restart. **FailedCheckStands**: no replacement is tried for a step whose check itself
  failed, unless the message quotes a word of the analyzer's rules for missing or hidden elements; with
  such a word it is (see below).
* **RecordingReplays**: on a site that stays as it was, a recording replays, however many actions were
  refused, failed or repeated on the way, unless its outcome is a part of the URL with blanks around it.
  **StaysWithinGoal**: nothing but the goal's values is typed, and no element whose first risky word is
  not in the goal is touched, also by a locator other than the one the element was read with, as long as
  the page is the one that was read. **QuotaIsRespected**: a refused key or a used-up quota is not asked
  again. **ExplorationEnds**.
* **UnreviewedCannotFail**: a failed run failed on a test whose steps a rule generated or a person wrote
  or trusted, unless the run that inserted it stopped between its two writes. **EveryPathIsVisited**,
  **GoalIsAccountedFor**: what is found again by slug, renamed, deleted or rewritten over several runs
  does not make a page or a part of the goal disappear without a word. A part is accounted for if it is
  reported as untested or its own steps ran; the first one also if the scenario filled in or pressed
  something that no part's own steps ask for. Not covered: a page that gave no scenario while another
  test's id looks like one's, and edits of that very test. **PlannerStaysOnThePage**: the element each
  step of a planner's test acts on or checks, a test of an earlier run, executed again, included.
* **SettledIsTrue**: whatever overlapped, a passive finding or dependency whose last saved check saw the
  site as it still is shows the site's state (active findings: see below). **NoCheckDropped**: a patch
  answers for each check, as applied or as manual. **NoSecondAfterAnswer**: once a pull request was
  answered, no later request opens another; two requests at once, or one whose answer was lost, may.

Bounds. Two workers (processes, calls, deployments) are enough for every pairwise race; a third actor
adds no new kind of conflict because conflicts are on a single document field. Two runs let one be
executed while another waits. One stage is enough for the order "running, closed" between other
processes' steps. One or two faults: each property is about recovering from one failure; two allow the
recovering process to fail as well. Two selectors with a limit of two heals and a retry reach the limit.
Four run documents hold two pushes and two slots. The five pages are one for each outcome of a heal
(none needed, by fallback, by scan, look-alike refused, ambiguous) and of a check; two executions are
one that learns and one that heals. Two versions are the old and the new one. Four memory records let
each test store twice, before and after an erasure. Four turns are enough to fill in, submit, be refused
and verify. Two suite runs are one that writes tests and one that finds them again. Four requests are a
scan, a patch and two pull requests, or a scan, two scans after a deploy each, and a retest.
`BRANCH_NAMES` is 1 so that the names run out. The clocks are capped where nothing more depends on them.
Deadlock is checked for `PipelineRuns` (a worker always has a next step); in the other models the system
may stop when all requests of the instance are done.

Fairness. `PipelineRuns`: a live worker keeps looping, a dead one is restarted by its host (`restart:
unless-stopped` in `deploy/aws-ec2/docker-compose.yml`), time passes, and a started cancel request is
served. `AgentWorkflow`: a call in flight moves on, because the engine bounds every step and the model
client every request. `RunTriggers`: a request is answered, a run that began ends (`PipelineRuns` shows
it), its lock is freed, the reaper runs. `Deployments`: requests are handled, time passes, each task
gets its turn from the event loop however many requests come between (strong fairness, since a request
in the same process disables the task's step for its duration), and somebody asks the API again. The
last one is how the code ends an abandoned deployment: only a later request (or a restart) looks at it.
`GoalExplorer`: the loop's turns go on, because every await in it (the browser, the model, a rate limit)
has a timeout; the site's drift is not fair.

## Disagreements between code and documentation

`runs_cancel_lost` is a run in which TLC finds the counterexample: `cancel_run` says it marks the run
cancelled. In worker mode `execute_run` looks for that once, then saves `status="running"` from its own
copy: the cancelled run runs on.

Met while modelling and not given a run.

`MCSuiteRuns` has a constant `Site` that selects the instance. `plain` is the run's. With `twins` (and
`Edits = {"trust"}`) the planner answers two valid cases whose ids have one slug: the duplicate check of
`validation.py:258` is not called on this path, the second write of `runner.py:505-519` quarantines one
row twice, and a test nobody reviewed can fail a run, so that `UnreviewedCannotFail` is violated; this
is the hypothesis of its theorem. With `slugs` (`MaxRuns = 1`, no edits) the pages `/docs/api` and
`/docs-api` have one slug (`suite.py:41`) and `EveryPathIsVisited` is violated. With `optional` (the same)
the page's form is one optional box: the plan counts the first part of the goal as tested by the form,
fills in nothing and only looks at the page, and `GoalIsAccountedFor` is violated (`goal_plan.py:141`,
`url_analyzer.py:617`).

*Runs, triggers, workflow, deployments, engine.* `execute_run` "never raises" (its first reads and
writes do when the database is unavailable; the work task ends, the process stays up, and queued runs
are not taken); "Never leave the run RUNNING" (`orchestrator.py:349`, under an `except Exception` that a
cancellation passes by); a healed locator "goes first, so the next run heals at once"
(`converters.py:101`; not when a later step uses the same locator); "two near-identical matches =
refuse" (not when one of them is beyond `max_candidates`); the webhook's "this commit runs when it ends"
(false when that run is cancelled, reaped or recovered); "After this limit, the workflow is ABORTED"
(`recovery_policy.py:255`; a failed last heal ends COMPLETED); a hook call that timed out is reported as
"Nothing was deployed"; `execute_deployment` "never raises" (its last `db.get` may). A newer push that
arrives while an ended run awaits its notifications is run at once, and the older one after it
(`webhooks.py:93`: "a newer push replaces it"; `runner.py:251`). `assert_visible` on an element that is
there but hidden is a Playwright timeout, not an `AssertionError`, so it is healed onto another element
and reported HEALED (`engine/runner.py:21`: "Locators are healed, assertions never").

*Healing.* "no such element", "could not find element", "unable to locate element" and "no matching
element" are a missing, healable element for `failure_classifier.py:200-204` and unknown to the analyzer
the platform uses (`analyzer.py:95`). Assertion failures are never healed (`docs/member1-architecture.md:1381`,
`failure_analysis_agent.py:135`), but "assert_hidden failed" contains "hidden" and is classified
ELEMENT_NOT_INTERACTABLE, and an `assert_text` that quotes "not found" on a known element is
SELECTOR_CHANGED and healed. A gap of exactly the threshold is ambiguous only for some pairs of floats.
The model's choice between ambiguous candidates does not decide: the policy ranks again. Readers during a
reload of memory see none or the older records, and a read that fails after the clearing leaves the index
empty. Memory is keyed by the selector alone and shared by accounts. Its volatile fallback never reloads.

*Explorer.* "Navigation on the site it started on" is not enforced for the recorded `goto` after a
redirect to another host (`explorer.py:137`). `risky_reason` stops at the first risky word. An index of
0 or below counts from the end. `_verify` strips the outcome it looks for, the recording keeps it
unstripped, so that its check of the URL can only fail. A click that failed and still took effect is not
recorded. Tab and Enter are not guarded. The guardrails judge the element as it was read: if the page
changes while the model is asked, nobody looks at what the locator matches by then.

*Suite.* A run that stops between inserting and quarantining a model's test (`runner.py:505`) leaves one
that counts. "A run never claims a goal it only partly tested" (`goal_plan.py`) does not hold for the
first part, which any use of the form counts for. Slugs use the first 48 characters of the path and no
query: `/item?id=1` and `/item?id=2` are one test (`suite.py:187`). Two AI tests with one slug: the
first one's entry runs the second one's steps. An id that ends in "-interaction", also of a link
page or a user's test, counts as the goal's test (`runner.py:360`), so that a goal on a page without
controls goes unreported, and for generated ids as the sign-in (`runner.py:540`). "Every element they
touch" (`ai_plan.py:8`) leaves out where a drag ends: its value is not compared with the page
(`ai_plan.py:86`). Checks written at a model's NAVIGATE
are dropped, an unknown `assert_*` becomes a visibility check, and a leading check moves to the end. A
test deleted during a run ends the run as `error`. Failures of quarantined tests count as regressions
and hold back `deploy_on_pass`. Un-quarantining may trust steps that were just replaced.

*Security.* A passive scan marks open *active* findings resolved with "pass" without probing
(`security_service.py:92`; `findings.py:42`: "issue no longer reproduces"); active requests that are
lost or over budget count as "not found". A failed retest reopens a finding with its old approval, and
saves what it saw over a newer scan. Two savers may insert the same key twice (`findings.py:62`): the
API and a worker, and within the API `POST /ingest`, which saves in a worker thread (`ingest.py:113`,
`security_service.py:72`); a save is one step in the model. All
cookie findings share one topic, so one edit answers for all. In a repository with Python and Express
only Python is patched. A fix "already set" is reported as applied without a change. Two pull-request
requests at once open two. After five left-over branches GitHub and GitLab refuse for ever, Bitbucket
tries a sixth unchecked.

## Proofs

TLC checks the instances above. TLAPS proves, for every value of the constants:

| Module | Theorem | Statement |
|---|---|---|
| `PipelineRunsProofs` | `TypeCorrect`, `ExecutesOnce` | `[]TypeOK`, `[]ExecutedOnce` |
| | `EndedAreClosed` | `OnlyDeaths` gives `[]EndedIsClosed` |
| | `WorkersFollowLifecycle` | `OnlyDeaths` gives `Lifecycle!Safety`: each step is one of `RunLifecycle` or a stutter |
| `RunTriggersProofs` | `TypeCorrect`, `NothingStartsTwice`, `PushesAreRemembered` | `[]TypeOK`, `[]StartedOnce`, `[]NoPushForgotten` |
| `AgentWorkflowProofs` | `WorkflowTypes`, `LimitsHold`, `NoSelectorTwice` | `[]TypeOK`, `[]WithinLimits`, `NeverTriedTwice` |
| | `TransitionsAreValid`, `HealsAreNoGuess`, `RecordsAreHonest` | `[]NoInvalidTransition`, `NeverOnAGuess`, `[]RecordIsHonest` |
| `DeploymentsProofs` | `TypeCorrect`, `ResultsFit`, `RollbacksAreVerified` | `[]TypeOK`, `[]ResultFitsSteps`, `[]RollbackIsVerified` |
| | `ResultsAreFinal` | `"slow" \notin Faults` gives `EndedIsFinal` |
| | `ChangesAreReal` | `ChangeIsReal` |
| `TestEngineProofs` | `TypeCorrect`, `SlotsAreKept`, `PassesAreEarned`, `HealsAreClear` | `[]TypeOK`, `[]SlotsKept`, `[]PassMeansAllSteps`, `[]NotAGuess` |
| | `ChecksAreResults`, `HealsAreRepeated` | `CheckIsTheResult`, `HealsAtOnce` |
| | `HealsAreSafe` | `Threshold > NO_IDENTITY_CAP` gives `[]HealIsSafe` |
| `HealingLoopProofs` | `SuccessesAreValidated`, `ErasureIsLasting`, `ChecksStand` | `[]OnlyValidatedIsRemembered`, `[]ErasedIsForgotten`, `[]FailedCheckStands` |
| | `AnalyzersAgree` | `SecondOpinionIsStricter`, without the wordings `OnlyClassifierKnows` |
| | `TriedIsThere` | `PrecedentsAreWeak` gives `[]TriedIsOnThePage` |
| `SuiteRunsProofs` | `ModelsTestsCannotFail` | own ids of the planner's cases give `[]UnreviewedCannotFail` |
| | `PlannerStays` | `[]PlannerStaysOnThePage` |
| | `PathsAreVisited`, `GoalsAreAccountedFor` | `Apart` gives `[]EveryPathIsVisited`, `Fillable` gives `[]GoalIsAccountedFor` |
| (of `GoalExplorer`) | `ExplorationIsTyped`, `RecordingsReplay` | `[]ExplorerTypeOK`, `[]RecordingReplays` |
| | `ExplorationStaysWithinGoal`, `SpentQuotaIsRespected` | `[]StaysWithinGoal`, `QuotaIsRespected` |
| `SecurityFindingsProofs` | `TypeCorrect`, `FindingsSettle`, `PatchesAnswer`, `OnePullPerAnswer` | `[]TypeOK`, `[]SettledIsTrue`, `[]NoCheckDropped`, `[]NoSecondAfterAnswer` |

All are safety results of `Spec` (`Exploration` for the explorer), without fairness. With them every
invariant and every action property of a passing run is a theorem.

**Hypotheses.** Some theorems have one, because the code needs it:

* `OnlyDeaths` (`PipelineRuns`): processes die, but no heartbeat is late, the database stays up, nobody
  cancels or deletes. `runs_cancel_lost` and the notes under `ImplementsLifecycle` say what the others do.
  The number of deaths is not limited.
* `"slow" \notin Faults` (`Deployments`): no smoke test lasts longer than `DEPLOY_STALE_SECONDS`. All
  deaths, outages and cancellations are allowed.
* `Threshold > NO_IDENTITY_CAP` (`TestEngine`): 0.75 and 0.6 in the code; the threshold is configurable.
* Own ids (`SuiteRuns`): of the cases the planner's answer gives, no two have ids with one slug (see
  [Disagreements](#disagreements-between-code-and-documentation)).
* `Apart` (`SuiteRuns`): the slugs of the site's paths tell them apart. They need not (`/docs/api` and
  `/docs-api`, see the same place), and the code does not notice.
* `Fillable` (`SuiteRuns`): a page with fields has one that the plan fills in, or a button it can name.
  It need not (a form of one optional box, see the same place), and the plan then counts a form as used
  with which it does nothing.
* No wording of `OnlyClassifierKnows` (`AnalyzersAgree`): on those four the classifiers do disagree.
* `PrecedentsAreWeak` (`HealingLoop`): the weights of what memory alone can give (`historical` and
  `healing_history`) do not make up `min_candidate_score`. The defaults are 0.15 of 1.0 against 0.30, and
  0.20 with the optional signal; both are configurable.

The other assumptions are the named `ASSUME` of the modules: bounds are natural numbers, "none" values are
none of the others, lists are lists, and rankings are sorted by confidence (`candidate_scorer.py:223`).

**PipelineRuns.** `ExecutedOnce` speaks of a counter and is not inductive. `ExecutedInv` adds what the
counter depends on: a run that is queued, or not there yet, was never begun and nobody holds it; two
workers never hold the same run; a worker that has claimed a run but not read it is the first to begin
it. The work is in the claim, where `update_if` sees the status as it is now and not as it was found,
and in showing that the blind writes never make a run queued again. `LifeInv` is for the two theorems
with `OnlyDeaths`: the run a worker holds is running, as its copy says, and its heartbeat is fresh
(`InHand`, `Punctual`), so what a reaper ends was abandoned (`Reaped`); a running run nobody holds lost
its worker (`Lost`). From it every write of the queue is one abstract step or changes nothing that
`RunLifecycle` sees.

**RunTriggers.** `OneHand`: an origin (a push, a slot, a request of a user) is in one place at a time: not
answered, waiting in the project's field, in the hands of one request that is to create its run, or the
origin of one run. Each `update_if` passes it on; requests that compared with an older value lose.

**AgentWorkflow.** `IInv`: every stored workflow state is well-formed and within its limits, and a
call's counters fit its working copy: its browser runs are one plus its retries plus its heals, and what
it validated is among the attempted selectors. A state stored by another call satisfies all that
starting from it needs; that is why overlap and restart do not matter. `FInv` gives the step the
workflow is in for each place of a call, so that each `_transition` finds an entry in the table,
although calls store their states over each other's. `HInv` relates the record of an execution to the
last browser run of a call that is alone with it. **HealsAreNoGuess** is an action property: the policy
only compares the best candidate with the runner-up, which suffices because rankings are sorted.

**Deployments.** `PhasesFit`: the recorded steps fit where the task is, for every return of
`execute_deployment`. `RollbackJustified`: the target in a document is the commit of an earlier
deployment that is over, so that its steps, which all passed, stay. `NobodyElseEnds`: only a deployment
whose task is gone is stale, or found to be, so nobody ends one at work. `BeforeIsFirst`: what a task
remembers of the site before the hook is a version's first page, an error page or nothing, so another
page means another version.

**TestEngine.** `EInv` relates each call to how far it came (a result for each step that ended, all of
them passed or healed while it goes on), what was chosen to what `attempt_healing` may choose on that
page, and counts the semaphore: free slots and sessions make `MAX_BROWSERS`. That a scan of a page with
at most `max_candidates` elements is complete is a lemma on cardinalities. `TInv`, on top of it, follows
the locators: fallbacks are locators of elements the application can have, and each heal recorded, or
about to be, is of a locator that is not the step's own, matches one visible element of the page of the
heal and reaches the threshold there against the target as it is *now*; learning changes the target of
another step only. At the end the heal is put first and survives the cut to `MAX_LEARNED_FALLBACKS`, so
the next execution finds it good before it looks at another.

**HealingLoop.** `MemoryInv`: every record is made once and stored at most once, its moment tells it
from those under way, and while an erasure runs none of what it deleted is in the rows, the reload or,
once cleared, the index. `EarnedInv` follows a success through the pending writes, both stores and the
reload. **AnalyzersAgree** compares the two classifiers rule by rule, for all sets of phrases without the
four only one of them knows. `Checked` says of a run whose check failed that what it was classified as is
an assertion failure, or excused by a word of another rule, or nothing the policy heals (`RunInv`).
`TriedInv` follows a candidate from the page to the try (`Placed`): what the ranking offers is at one
element of the page of the failure, or comes from memory alone and then, by `PrecedentsAreWeak`, stays
below the threshold whatever its success rate; ranking only permutes the candidates, since every rank is
taken once (by the pigeonhole principle); and the page does not change between the recommendation and
the try.

**SuiteRuns.** The invariant says of every row of a model that it is quarantined, or its steps were
reviewed, or its run stopped halfway, or it is the one that awaits its second write; and of every entry
of a running suite that it would be safe to fail with the steps its row has *now*, because the execution
reads them again while the entry keeps its old mark. It needs that no test still to be written has the
slug of an entry, which is where the slugs of rules, models and the explorer and the hypothesis come in.

`RunInv` is for the other three. What a finished run promises needs something of the steps of each test
(`StepsFit`): a planner's touch only the page that was analyzed, the scenario's account for the goal, a
page's open that page. The invariant says this of the tests still to be written (`TodoInv`), of the
entries, by what is stored under their slug *now* unless a user changed it (`EntryInv`), and of the
results (`ResultInv`); `CompleteInv` says that no page of the plan and no sign-in is lost between the
three.

**GoalExplorer.** `ControlInv` counts turns, bad answers and attempts; `ViewInv` says that while the
page is as it was read, what the model was shown is what is there, each element with a locator that
matches it only; `CallInv` that a refused key or a used-up quota ends the exploration before another
request; `RecordingInv` that while nothing drifted, the replay of the steps so far ends on the page the
browser shows. A step that is recorded extends the replay by one step, which the proof shows for a
recursive function by the least length at which it could fail.

**Sequences.** Selections are by positions (`Positions`) and not by a test given as an operator, because
the prover cannot instantiate a theorem with an operator parameter. What a selection, a sort, a
flattened list or the search for a form's fields gives is then proved from cardinalities, or from the
least counterexample.

**SecurityFindings.** `SlotsFit`: a scan that saves has looked for every passive check and for no
dependency, and a request on its way to a pull request has a stored patch and a branch name.
`AnsweredIsStored`: whoever has a pull request has the one in the patch. `SettledIsTrue` is inductive
with them, because each save is agreed only with what the request itself saw. `NoCheckDropped` is a
lemma on `build_patch`, for every set of findings and every repository.

Only model-checked: liveness (`WaitingPushRuns`, `DeploymentEnds`, `EndsUnlessLost`, `ExplorationEnds`,
the liveness half of `ImplementsLifecycle`), which is out of the prover's reach, and the violation of
`runs_cancel_lost`.

## Not modelled

* The engine's tabs, downloads, dialogs, screenshots, visual comparison, traces and egress proxy.
* The rate limit: a row per user and a compare-and-set loop of five tries, which nothing else depends on.
  Two first requests of a user may insert two rows (`ratelimit.py:54`).
* Regressions, flaky detection and the texts of the report; the memory's pattern detection, which only
  feeds explanations; prioritisation and mock scenarios of the planner.
* Scanners' scope rules, report rendering, prompts, providers' wire formats, notifications, cloning and
  reading a repository: text processing and I/O without an order of events to get wrong.
* URL and network guards, signatures, encryption of secrets: pure checks, present in the models as a
  refusal where a handler has one.
* Benchmarks (`engine/benchmark.py`, `engine/heal_benchmark.py`), load tests, scripts and the frontend.
* The browser, Firestore's implementation, language models, Git hosts, the host of a deployed site:
  external; their answers are inputs.

## Plan

1. *(done)* `PipelineRuns`, `RecoveryPolicy`, `AgentWorkflow`, `RunTriggers`, `Deployments`, `Healer`,
   `TestEngine`; proofs for the first and the third.
2. *(done)* `RunLifecycle` and the refinement; the agents (`FailureAnalysis`, `PageElements`,
   `HealingDecision`, `AgentMemory`, composed in `HealingLoop`); `LLMClient` and `GoalExplorer`; the suite
   (`StoredSteps`, `PagePlan`, `TestPlanner`, `SuiteRuns`); security (`SecurityScanner`, `FixPatcher`,
   `SecurityFindings`).
3. *(done)* Proofs: every invariant and action property of the passing runs and the safety part of the
   refinement of `RunLifecycle`.
4. Open: the parts under [Not modelled](#not-modelled) that have state of their own (the rate limit, new
tabs and dialogs of the engine), and runs of the instances with two planners' cases of one slug and two
paths of one slug as findings.
