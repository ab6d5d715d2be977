---------------------------- MODULE AgentWorkflow ----------------------------
(***************************************************************************)
(* Executing a test with AI diagnosis and self-healing: the platform       *)
(* orchestrator (backend/orchestration/orchestrator.py) drives the browser *)
(* and the database, the agent orchestrator                                *)
(* (agents/orchestration/agent_orchestrator.py) keeps one workflow state   *)
(* per execution and decides, with the recovery policy, between retrying,  *)
(* healing and giving up.                                                  *)
(*                                                                         *)
(* A call is one execute_test_run: from POST /workflow/execute, from       *)
(* plan-and-execute or from a pipeline stage.  Calls run as asyncio tasks  *)
(* of one process, so a step here is what runs between two awaits: the     *)
(* browser run, the failure analysis and the recommendation (both may ask  *)
(* a language model), and each validation run.  A call works on its own    *)
(* copy of the workflow state and stores it when an operation ends.        *)
(***************************************************************************)
EXTENDS RecoveryPolicy

CONSTANTS
  Calls,            \* execute_test_run calls
  Executions,       \* test execution records
  SeenFailures,     \* the failure types the analyzer reports
  Rankings,         \* the rankings the healing engine may return, highest confidence first
  MaxRetryRuns,     \* MAX_RETRY_RUNS, the platform's own cap on retries
  Faults,           \* which of FaultKinds this system meets
  MaxFaults         \* bound: how many of them

FaultKinds == {"overlap",   \* a second call for an execution that is being executed
               "crash",     \* an exception in the browser run, the analysis or the healing
               "outage",    \* the database is unavailable when the result is written
               "cancel",    \* the task is cancelled (pipeline cancelled, server stopping)
               "restart"}   \* the process restarts: calls and workflow states are lost

Candidates == [selector : Selectors, confidence : 0..100]

ASSUME AgentWorkflowAssumption ==
  /\ Executions # {}
  /\ SeenFailures \subseteq FailureTypes
  /\ Rankings \subseteq Seq(Candidates)
  /\ \A r \in Rankings : \A i, j \in DOMAIN r : i < j => r[i].confidence >= r[j].confidence
  /\ MaxRetryRuns \in Nat
  /\ MaxFaults \in Nat
  /\ Faults \subseteq FaultKinds

VARIABLES
  status,           \* the status field of each execution record
  workflows,        \* AgentOrchestrator._workflows, by execution
  calls,            \* the local variables of each call
  tried,            \* history: the selectors each call validated in the browser
  faults            \* faults so far

vars == <<status, workflows, calls, tried, faults>>

-----------------------------------------------------------------------------
(* The workflow state machine (workflow_schemas.py, _transition). *)

ValidTransitions ==
  [PLANNING                   |-> {"EXECUTION_PENDING", "ABORTED"},
   EXECUTION_PENDING          |-> {"EXECUTION_SUCCESS", "FAILURE_DETECTED"},
   EXECUTION_SUCCESS          |-> {"COMPLETED"},
   FAILURE_DETECTED           |-> {"ANALYZING_FAILURE"},
   ANALYZING_FAILURE          |-> {"GENERATING_CANDIDATES", "RETRYING", "COMPLETED", "ABORTED"},
   GENERATING_CANDIDATES      |-> {"RANKING_CANDIDATES", "HEALING_FAILED"},
   RANKING_CANDIDATES         |-> {"DECIDING_HEALING"},
   DECIDING_HEALING           |-> {"HEALING_PENDING_VALIDATION", "COMPLETED", "HEALING_FAILED", "ABORTED"},
   RETRYING                   |-> {"EXECUTION_PENDING"},
   HEALING_PENDING_VALIDATION |-> {"HEALING_SUCCEEDED", "HEALING_FAILED",
                                   "HEALING_PENDING_VALIDATION", "ABORTED"},
   HEALING_SUCCEEDED          |-> {"COMPLETED"},
   HEALING_FAILED             |-> {"COMPLETED"},
   COMPLETED                  |-> {},
   ABORTED                    |-> {},
   INVALID                    |-> {}]

Steps == DOMAIN ValidTransitions

(* _transition raises on a step the table does not allow: INVALID marks a   *)
(* state that only an operation that raised could have produced.            *)
_transition(st, target) ==
  [st EXCEPT !.step = IF target \in ValidTransitions[st.step] THEN target ELSE "INVALID"]

(* What of an AgentState decides later steps.  An execution without a       *)
(* stored state starts from NewState, so NewState also stands for "none".   *)
AgentStates ==
  [step : Steps, count : Nat, retries : Nat, attempted : SUBSET Selectors,
   ranked : Seq(Candidates), selected : Selectors \union {NoSelector},
   decision : RecoveryActions \union {"NONE"}, type : FailureTypes]

NewState ==
  [step |-> "EXECUTION_PENDING", count |-> 0, retries |-> 0, attempted |-> {},
   ranked |-> << >>, selected |-> NoSelector, decision |-> "NONE", type |-> "UNKNOWN"]

-----------------------------------------------------------------------------
(* The operations of the agent orchestrator on a workflow state. *)

(* submit_execution_result, up to the analysis. *)
Succeeded(st) == _transition(_transition(st, "EXECUTION_SUCCESS"), "COMPLETED")
Detected(st)  == _transition(_transition(st, "FAILURE_DETECTED"), "ANALYZING_FAILURE")

(* _run_failure_flow once the failure is classified: the attempt limit,    *)
(* then a retry, then failures no selector can heal, then candidates.      *)
Classified(st, type) ==
  LET policy == get_failure_policy(type)
      known  == [st EXCEPT !.type = type]
  IN IF st.count >= MaxHealing
     THEN _transition([known EXCEPT !.decision = "ABORT"], "ABORTED")
     ELSE IF MayRetry(policy, st.retries)
     THEN _transition(_transition([known EXCEPT !.decision = "RETRY", !.retries = @ + 1],
                                  "RETRYING"), "EXECUTION_PENDING")
     ELSE IF ~policy.healable
     THEN _transition([known EXCEPT !.decision = IF policy.retryable
                                                 THEN "REQUIRE_FURTHER_ANALYSIS"
                                                 ELSE "DO_NOT_HEAL"], "COMPLETED")
     ELSE _transition(known, "GENERATING_CANDIDATES")

(* A candidate is sent for validation: one more attempt, never it again. *)
Sent(st, d) ==
  _transition([st EXCEPT !.attempted = @ \union {d.selected}, !.count = @ + 1,
                         !.selected = d.selected, !.decision = d.action],
              "HEALING_PENDING_VALIDATION")

(* _run_failure_flow with the ranked candidates and the policy's decision. *)
Ranked(st, ranked) ==
  _transition(_transition([st EXCEPT !.ranked = ranked], "RANKING_CANDIDATES"), "DECIDING_HEALING")

\* mutant: the candidate is sent without looking at the decision
RoutedUnchecked(st, d) == Sent(st, d)

Routed(st, d) ==
  CASE d.action = "TRY_HEALING" -> Sent(st, d)
    [] d.action = "ABORT" -> _transition([st EXCEPT !.decision = "ABORT"], "ABORTED")
    [] OTHER -> _transition([st EXCEPT !.decision = d.action], "COMPLETED")

(* submit_healing_result: validated, or _try_next_candidate. *)
Healed(st) == _transition(_transition(st, "HEALING_SUCCEEDED"), "COMPLETED")

\* mutant: a stopped healing goes straight to COMPLETED
NextNotFailed(st, d) ==
  IF d.action = "TRY_HEALING"
  THEN Sent(st, d)
  ELSE _transition([st EXCEPT !.decision = d.action], "COMPLETED")

_try_next_candidate(st, d) ==
  IF d.action = "TRY_HEALING"
  THEN Sent(st, d)
  ELSE _transition(_transition([st EXCEPT !.decision = d.action], "HEALING_FAILED"), "COMPLETED")

-----------------------------------------------------------------------------
(* Calls. *)

Statuses == {"PENDING", "RUNNING", "PASSED", "FAILED", "HEALED"}

Idle == [pc |-> "idle", exec |-> CHOOSE e \in Executions : TRUE, state |-> NewState,
         retries |-> 0, tries |-> 0, runs |-> 0, last |-> "none"]

Flying == {"run", "analyze", "candidates", "validate"}
InFlight(c) == calls[c].pc \in Flying

CallRecords ==
  [pc : {"idle", "done", "lost"} \union Flying, exec : Executions, state : AgentStates,
   retries : Nat, tries : Nat, runs : Nat, last : {"none", "passed", "healed", "failed"}]

Init ==
  /\ status = [e \in Executions |-> "PENDING"]
  /\ workflows = [e \in Executions |-> NewState]
  /\ calls = [c \in Calls |-> Idle]
  /\ tried = [c \in Calls |-> {}]
  /\ faults = 0

Fault(kind) ==
  /\ kind \in Faults
  /\ faults < MaxFaults
  /\ faults' = faults + 1

(* The call is over; the record shows s. *)
End(c, s) ==
  /\ status' = [status EXCEPT ![calls[c].exec] = s]
  /\ calls' = [calls EXCEPT ![c].pc = "done", ![c].state = NewState]

Store(c, st) == workflows' = [workflows EXCEPT ![calls[c].exec] = st]

(* execute_test_run and _execute up to the browser run: the record is       *)
(* marked RUNNING and the stored workflow state, if any, is taken up.       *)
Begin(c, e) ==
  /\ calls[c].pc = "idle"
  /\ calls' = [calls EXCEPT ![c] = [Idle EXCEPT !.pc = "run", !.exec = e, !.runs = 1,
                                               !.state = workflows[e]]]
  /\ status' = [status EXCEPT ![e] = "RUNNING"]
  /\ UNCHANGED <<workflows, tried>>

Busy(e) == \E c \in Calls : InFlight(c) /\ calls[c].exec = e

Start(c, e) ==
  /\ ~Busy(e)
  /\ Begin(c, e)
  /\ UNCHANGED faults

StartSecond(c, e) ==
  /\ Busy(e)
  /\ Begin(c, e)
  /\ Fault("overlap")

(* _fail_unreadable_steps: the stored steps cannot be read, nothing runs. *)
StartUnreadable(c, e) ==
  /\ calls[c].pc = "idle"
  /\ ~Busy(e)
  /\ calls' = [calls EXCEPT ![c].pc = "done", ![c].exec = e]
  /\ status' = [status EXCEPT ![e] = "FAILED"]
  /\ UNCHANGED <<workflows, tried, faults>>

(* submit_execution_result accepts a result only in EXECUTION_PENDING. *)
Accepts(st) == st.step = "EXECUTION_PENDING"

(* The browser run ended well, with or without heals of the engine's own;  *)
(* everything up to the final write happens without another await.         *)
RunPasses(c, result) ==
  /\ calls[c].pc = "run"
  /\ Accepts(calls[c].state)
  /\ Store(c, Succeeded(calls[c].state))
  /\ status' = [status EXCEPT ![calls[c].exec] = IF result = "healed" THEN "HEALED" ELSE "PASSED"]
  /\ calls' = [calls EXCEPT ![c].pc = "done", ![c].last = result, ![c].state = NewState]
  /\ UNCHANGED <<tried, faults>>

(* The same, but writing the result fails; the handler's own write of       *)
(* FAILED may fail as well, and then nothing is recorded.                   *)
RunUnrecorded(c, result) ==
  /\ calls[c].pc = "run"
  /\ Accepts(calls[c].state)
  /\ Fault("outage")
  /\ Store(c, Succeeded(calls[c].state))
  /\ \E recorded \in BOOLEAN :
       /\ status' = IF recorded THEN [status EXCEPT ![calls[c].exec] = "FAILED"] ELSE status
       /\ calls' = [calls EXCEPT ![c].pc = IF recorded THEN "done" ELSE "lost",
                                 ![c].last = result, ![c].state = NewState]
  /\ UNCHANGED tried

RunFails(c) ==
  /\ calls[c].pc = "run"
  /\ Accepts(calls[c].state)
  /\ calls' = [calls EXCEPT ![c].pc = "analyze", ![c].last = "failed",
                            ![c].state = Detected(@)]
  /\ UNCHANGED <<status, workflows, tried, faults>>

(* The state was taken up after an earlier call had moved it on: the        *)
(* result is refused with an exception and the execution recorded FAILED.   *)
RunRefused(c, result) ==
  /\ calls[c].pc = "run"
  /\ ~Accepts(calls[c].state)
  /\ status' = [status EXCEPT ![calls[c].exec] = "FAILED"]
  /\ calls' = [calls EXCEPT ![c].pc = "done", ![c].last = result, ![c].state = NewState]
  /\ UNCHANGED <<workflows, tried, faults>>

\* mutant: the platform's own cap is not looked at
RunsAgainUncapped(c, st) ==
  /\ Accepts(st)
  /\ st.decision = "RETRY"

(* The platform runs the test again while the policy said RETRY. *)
RunsAgain(c, st) ==
  /\ Accepts(st)
  /\ st.decision = "RETRY"
  /\ calls[c].retries < MaxRetryRuns

(* The analysis ended: the test is run again, candidates are sought, or     *)
(* the workflow ends without healing.                                       *)
AnalyzedRetry(c, type) ==
  LET st == Classified(calls[c].state, type)
  IN /\ calls[c].pc = "analyze"
     /\ RunsAgain(c, st)
     /\ Store(c, st)
     /\ calls' = [calls EXCEPT ![c].pc = "run", ![c].state = st,
                               ![c].retries = @ + 1, ![c].runs = @ + 1]
     /\ UNCHANGED <<status, tried, faults>>

AnalyzedHealable(c, type) ==
  LET st == Classified(calls[c].state, type)
  IN /\ calls[c].pc = "analyze"
     /\ st.step = "GENERATING_CANDIDATES"
     /\ calls' = [calls EXCEPT ![c].pc = "candidates", ![c].state = st]
     /\ UNCHANGED <<status, workflows, tried, faults>>

AnalyzedEnd(c, type) ==
  LET st == Classified(calls[c].state, type)
  IN /\ calls[c].pc = "analyze"
     /\ ~RunsAgain(c, st)
     /\ st.step # "GENERATING_CANDIDATES"
     /\ Store(c, st)
     /\ End(c, "FAILED")
     /\ UNCHANGED <<tried, faults>>

(* _validate_ai_heal: the browser runs the test with the proposed selector. *)
Validate(c, st) ==
  /\ calls' = [calls EXCEPT ![c].pc = "validate", ![c].state = st,
                            ![c].tries = @ + 1, ![c].runs = @ + 1]
  /\ tried' = [tried EXCEPT ![c] = @ \union {st.selected}]
  /\ UNCHANGED status

(* The recommendation is there: the policy decides on the ranking. *)
Recommended(c, ranked, d) ==
  LET st == calls[c].state
  IN /\ calls[c].pc = "candidates"
     /\ evaluate(st.type, ranked, st.count, st.retries, st.attempted, d)

RecommendedTry(c, ranked, d) ==
  LET st == Routed(Ranked(calls[c].state, ranked), d)
  IN /\ Recommended(c, ranked, d)
     /\ d.action = "TRY_HEALING"
     /\ Store(c, st)
     /\ Validate(c, st)
     /\ UNCHANGED faults

RecommendedEnd(c, ranked, d) ==
  /\ Recommended(c, ranked, d)
  /\ d.action # "TRY_HEALING"
  /\ Store(c, Routed(Ranked(calls[c].state, ranked), d))
  /\ End(c, "FAILED")
  /\ UNCHANGED <<tried, faults>>

(* A heal counts when the whole test passes with it. *)
HealPasses(c) ==
  /\ calls[c].pc = "validate"
  /\ Store(c, Healed(calls[c].state))
  /\ status' = [status EXCEPT ![calls[c].exec] = "HEALED"]
  /\ calls' = [calls EXCEPT ![c].pc = "done", ![c].last = "passed", ![c].state = NewState]
  /\ UNCHANGED <<tried, faults>>

(* The validation run failed: the next candidate while the policy offers    *)
(* one and the loop has a turn left, otherwise the original failure stands. *)
Failed(st) == [st EXCEPT !.attempted = @ \union {st.selected}]

HealFailed(c, d) ==
  LET st == Failed(calls[c].state)
  IN /\ calls[c].pc = "validate"
     /\ evaluate_continuation(st.ranked, st.count, st.attempted, d)

HealNext(c, d) ==
  LET st == _try_next_candidate(Failed(calls[c].state), d)
  IN /\ HealFailed(c, d)
     /\ d.action = "TRY_HEALING"
     /\ calls[c].tries < MaxHealing
     /\ Store(c, st)
     /\ Validate(c, st)
     /\ UNCHANGED faults

\* mutant: the heal is recorded although its validation failed
HealStopHealed(c, d) ==
  /\ HealFailed(c, d)
  /\ d.action # "TRY_HEALING" \/ calls[c].tries >= MaxHealing
  /\ Store(c, _try_next_candidate(Failed(calls[c].state), d))
  /\ End(c, "HEALED")
  /\ UNCHANGED <<tried, faults>>

HealStop(c, d) ==
  /\ HealFailed(c, d)
  /\ d.action # "TRY_HEALING" \/ calls[c].tries >= MaxHealing
  /\ Store(c, _try_next_candidate(Failed(calls[c].state), d))
  /\ End(c, "FAILED")
  /\ UNCHANGED <<tried, faults>>

\* mutant: an exception is only reported to the caller
CrashUnrecorded(c) ==
  /\ InFlight(c)
  /\ Fault("crash")
  /\ calls' = [calls EXCEPT ![c].pc = "done", ![c].state = NewState]
  /\ UNCHANGED <<status, workflows, tried>>

(* An exception: in the healing it leaves the original failure as the       *)
(* result, elsewhere the handler records FAILED; no workflow state is       *)
(* stored.                                                                  *)
Crash(c) ==
  /\ InFlight(c)
  /\ Fault("crash")
  /\ End(c, "FAILED")
  /\ UNCHANGED <<workflows, tried>>

(* CancelledError is not an Exception: no handler records anything. *)
Cancel(c) ==
  /\ InFlight(c)
  /\ Fault("cancel")
  /\ calls' = [calls EXCEPT ![c].pc = "lost", ![c].state = NewState]
  /\ UNCHANGED <<status, workflows, tried>>

Restart ==
  /\ Fault("restart")
  /\ calls' = [c \in Calls |-> IF InFlight(c)
                               THEN [calls[c] EXCEPT !.pc = "lost", !.state = NewState]
                               ELSE calls[c]]
  /\ workflows' = [e \in Executions |-> NewState]
  /\ UNCHANGED <<status, tried>>

-----------------------------------------------------------------------------
(* What a call in flight does next, whatever its inputs turn out to be. *)
Advance(c) ==
  \/ \E result \in {"passed", "healed"} : RunPasses(c, result)
  \/ RunFails(c)
  \/ \E result \in {"passed", "healed", "failed"} : RunRefused(c, result)
  \/ /\ calls[c].pc = "analyze"
     /\ \E type \in SeenFailures :
          AnalyzedRetry(c, type) \/ AnalyzedHealable(c, type) \/ AnalyzedEnd(c, type)
  \/ /\ calls[c].pc = "candidates"
     /\ \E ranked \in Rankings, d \in Decisions :
          RecommendedTry(c, ranked, d) \/ RecommendedEnd(c, ranked, d)
  \/ HealPasses(c)
  \/ /\ calls[c].pc = "validate"
     /\ \E d \in Decisions : HealNext(c, d) \/ HealStop(c, d)

Next ==
  \/ \E c \in Calls :
       \/ \E e \in Executions : Start(c, e) \/ StartSecond(c, e) \/ StartUnreadable(c, e)
       \/ Advance(c)
       \/ \E result \in {"passed", "healed"} : RunUnrecorded(c, result)
       \/ Crash(c)
       \/ Cancel(c)
  \/ Restart

Spec == Init /\ [][Next]_vars

(* The browser engine bounds every step and the model client every request, *)
(* so a call in flight moves on.                                            *)
FairSpec == Spec /\ \A c \in Calls : WF_vars(Advance(c))

-----------------------------------------------------------------------------
(* Properties. *)

(* The type invariant. *)
TypeOK ==
  /\ status \in [Executions -> Statuses]
  /\ workflows \in [Executions -> AgentStates]
  /\ calls \in [Calls -> CallRecords]
  /\ tried \in [Calls -> SUBSET Selectors]
  /\ faults \in Nat

(* No transition the agent orchestrator attempts, along any path of results, *)
(* retries, heals and stale states, is one its table refuses (_transition    *)
(* would raise ValueError in the middle of an operation).                    *)
NoInvalidTransition ==
  /\ \A e \in Executions : workflows[e].step # "INVALID"
  /\ \A c \in Calls : calls[c].state.step # "INVALID"

(* "Bypasses maximum healing attempt limits" is what the orchestrator never  *)
(* does: no workflow counts more heals than the limit, and one call opens a  *)
(* browser at most once plus the allowed retries plus the allowed heals.     *)
WithinLimits ==
  /\ \A e \in Executions : workflows[e].count <= MaxHealing
  /\ \A c \in Calls :
       /\ calls[c].state.count <= MaxHealing
       /\ calls[c].runs <= 1 + MaxRetries + MaxHealing
       /\ calls[c].runs <= 1 + MaxRetryRuns + MaxHealing

(* A selector that failed its validation is never validated again by the     *)
(* same call (attempted_selectors, through every re-ranking and retry).      *)
NeverTriedTwice ==
  [][\A c \in Calls : calls'[c].tries > calls[c].tries
                        => calls'[c].state.selected \notin tried[c]]_vars

(* A selector goes to the browser only if it clears the thresholds and no    *)
(* other selector that was not tried yet is as good: the policy never heals  *)
(* on a guess.                                                               *)
NeverOnAGuess ==
  [][\A c \in Calls : calls'[c].tries > calls[c].tries =>
       LET st == calls'[c].state
       IN \E i \in DOMAIN st.ranked :
            /\ st.ranked[i].selector = st.selected
            /\ Trusted(st.ranked[i])
            /\ \A j \in DOMAIN st.ranked :
                 (j # i /\ st.ranked[j].selector \notin tried[c])
                   => st.ranked[i].confidence > st.ranked[j].confidence + Margin
                      \/ st.ranked[j].confidence < MinScore]_vars

(* An execution that one call handled shows what that call last saw in the   *)
(* browser: PASSED or HEALED only after a run that passed, whatever was      *)
(* retried, healed, lost or refused by the database on the way (a heal       *)
(* counts only when the whole test passes with it), and always then while    *)
(* nothing failed besides the test.                                          *)
Sole(c) == \A d \in Calls : (d # c /\ calls[d].pc # "idle") => calls[d].exec # calls[c].exec

RecordIsHonest ==
  \A c \in Calls : (calls[c].pc = "done" /\ Sole(c)) =>
    LET shown == status[calls[c].exec] \in {"PASSED", "HEALED"}
        seen  == calls[c].last \in {"passed", "healed"}
    IN (shown => seen) /\ (faults = 0 => (seen => shown))

(* An execution that shows RUNNING gets a result, whatever crashes, repeats  *)
(* or overlaps, unless its call was cancelled, died with the process or could *)
(* not reach the database even to say so.                                    *)
EndsUnlessLost ==
  \A e \in Executions : status[e] = "RUNNING" ~>
    (status[e] # "RUNNING" \/ \E c \in Calls : calls[c].exec = e /\ calls[c].pc = "lost")
=============================================================================
