----------------------------- MODULE HealingLoop -----------------------------
(***************************************************************************)
(* The AI healing of a failed test from end to end: the page a step failed *)
(* on becomes evidence (converters.py), the failure is diagnosed from its  *)
(* message and the memory of the target (analyzer.py), replacement         *)
(* selectors are found and ranked (agents/healer), the recovery policy     *)
(* decides, the platform validates by running the test again, and every    *)
(* outcome goes back to memory (orchestrator.py, healing_feedback.py).     *)
(*                                                                         *)
(* Composes FailureAnalysis, PageElements, HealingDecision, RecoveryPolicy *)
(* and AgentMemory; the workflow states that AgentWorkflow keeps are       *)
(* reduced to what one run needs.  A test has one step on one target, and  *)
(* the page it meets is any of Doms[t].  The language model, where asked,  *)
(* answers anything, or fails.                                             *)
(***************************************************************************)
EXTENDS FailureAnalysis, PageElements, HealingDecision, RecoveryPolicy, AgentMemory

CONSTANTS
  Target,           \* the selector each test uses
  Page,             \* the page each test acts on
  Doms,             \* what the page of each test looks like, over time
  SeenFailures,     \* how the step of each test fails when its target is there
  Missing,          \* failures of a step whose target is not there
  Diagnoses,        \* what the model says of a failure the rules cannot place
  Answers           \* what the model says of candidates that are too close

ASSUME HealingLoopAssumption ==
  /\ \A t \in Tests : \A dom \in Doms[t] : IsList(dom)
  /\ \A t \in Tests : \A f \in SeenFailures[t] \union Missing : f.check => AssertionKeyword(f)

VARIABLES
  run,              \* the run of each test
  learned,          \* healing_targets: the element a test's target last was
  validated         \* history: the replacements that passed, <<old, new>>

vars == <<memory_vars, run, learned, validated>>

NoElement == DomElement("", "", "", "", "", "", FALSE)

Idle == [pc |-> "idle", proc |-> Api, dom |-> << >>, failure |-> CHOOSE f \in Missing : TRUE, known |-> FALSE, previous |-> {},
         type |-> "UNKNOWN", ranked |-> << >>, recommendation |-> << >>, attempted |-> {}, count |-> 0,
         retries |-> 0, selected |-> << >>, passed |-> FALSE]

Init ==
  /\ MemoryInit
  /\ run = [t \in Tests |-> Idle]
  /\ learned = [t \in Tests |-> NoElement]
  /\ validated = {}

-----------------------------------------------------------------------------
\* mutant: an attempt that was made counts as a success
AnyFeedback(status) == "yes"

(* HealingResultFeedbackProcessor. *)
_derive_validation_result(status) ==
  CASE status = "SUCCESS" -> "yes"
    [] status = "FAILURE" -> "no"
    [] OTHER -> "unknown"

-----------------------------------------------------------------------------
(* The browser run. *)

Matching(dom, selector) == {i \in DOMAIN dom : ~dom[i].hidden /\ Matches(selector, dom[i])}

First(S) == CHOOSE i \in S : \A j \in S : i <= j

(* The record of the element a step acted on. *)
Record(t, e) == element_record_from_fingerprint(e, Target[t], Page[t])

(* The step passes; _learn_from_run stores the element it acted on. *)
RunPasses(t, p, dom) ==
  /\ Matching(dom, Target[t]) # {}
  /\ ToStore(t, p, Item(ElementOf(t, made + 1, Record(t, dom[First(Matching(dom, Target[t]))])), "same"))
  /\ run' = [run EXCEPT ![t] = [Idle EXCEPT !.pc = "learn", !.proc = p, !.dom = dom, !.passed = TRUE]]
  /\ UNCHANGED <<index, rows, volatile, eraser, faults, learned, validated>>

(* The engine healed the step itself: a validated replacement. *)
RunHealed(t, p, dom, selector) ==
  /\ learned[t] # NoElement
  /\ Matching(dom, Target[t]) = {}
  /\ Matching(dom, selector) # {}
  /\ ToStore(t, p, Item(HealingRecord(t, made + 1, Target[t], selector, _derive_validation_result("SUCCESS")),
                        "never"))
  /\ validated' = validated \union {<<Target[t], selector>>}
  /\ run' = [run EXCEPT ![t] = [Idle EXCEPT !.pc = "learn", !.proc = p, !.passed = TRUE]]
  /\ UNCHANGED <<index, rows, volatile, eraser, faults, learned>>

(* The step fails.  _submit_ready: the target's last known element goes to  *)
(* memory if memory has none.                                               *)
RunFails(t, p, dom, f) ==
  /\ IF Matching(dom, Target[t]) = {} THEN f \in Missing ELSE f \in SeenFailures[t]
  /\ IF learned[t] = NoElement
     THEN UNCHANGED <<made, writer>>
     ELSE ToStore(t, p, Item(ElementOf(t, made + 1, Record(t, learned[t])), "known"))
  /\ run' = [run EXCEPT ![t] = [Idle EXCEPT !.pc = "submit", !.proc = p, !.dom = dom, !.failure = f,
                                            !.retries = IF run[t].pc = "again" THEN run[t].retries ELSE 0]]
  /\ UNCHANGED <<index, rows, volatile, eraser, faults, learned, validated>>

(* A test that is not running starts, or a retried one runs again. *)
Browses(t, p) ==
  /\ LoopIsFree(p)
  /\ run[t].pc = "idle" \/ (run[t].pc = "again" /\ run[t].proc = p)

BrowserRun(t, p, dom) ==
  \/ RunPasses(t, p, dom)
  \/ \E selector \in Selectors : RunHealed(t, p, dom, selector)
  \/ \E f \in SeenFailures[t] \union Missing : RunFails(t, p, dom, f)

-----------------------------------------------------------------------------
(* Diagnosis and recovery. *)

(* The run ends without a heal. *)
GivesUp(t) ==
  /\ run' = [run EXCEPT ![t] = Idle]
  /\ UNCHANGED <<made, writer>>

(* _run_failure_flow up to the candidates. *)
Diagnose(t) ==
  LET r     == run[t]
      known == Elements(index[r.proc], Target[t])
  IN /\ r.pc = "submit" /\ LoopIsFree(r.proc)
     /\ \E a \in analyze(r.failure, known # {}, FALSE, Diagnoses) :
          LET policy   == get_failure_policy(a.type)
              analysed == [r EXCEPT !.type = a.type, !.known = known # {},
                                    !.previous = IF known = {} THEN {} ELSE {Newest(known).element}]
          IN IF ~MayRetry(policy, r.retries) /\ ~policy.healable THEN GivesUp(t)
             ELSE /\ run' = [run EXCEPT ![t] = IF MayRetry(policy, r.retries)
                                               THEN [analysed EXCEPT !.pc = "again", !.retries = @ + 1]
                                               ELSE [analysed EXCEPT !.pc = "recommend"]]
                  /\ UNCHANGED <<made, writer>>
     /\ UNCHANGED <<index, rows, volatile, eraser, faults, learned, validated>>

(* The tag filter applies only when the target's element is known. *)
Evidence(t) ==
  dom_evidence(run[t].dom, Page[t], IF learned[t] = NoElement THEN "" ELSE learned[t].tag, Target[t])

(* The previous element is the one of the analysis, or looked up again. *)
Previous(t) ==
  LET known == Elements(index[run[t].proc], Target[t])
  IN IF run[t].known THEN run[t].previous
     ELSE IF known = {} THEN {} ELSE {Newest(known).element}

CandidatesFor(t) ==
  LET list     == index[run[t].proc]
      past     == get_healing_history(list, Target[t], 10)
      current  == Evidence(t)
      of       == [new \in {current[i].selector : i \in DOMAIN current} \union {past[i].new : i \in DOMAIN past} |->
                     get_healing_history_for_replacement(list, Target[t], new, 20)]
      previous == Previous(t)
  IN RankedFor(run[t].type, previous # {},
               IF previous = {} THEN Record(t, NoElement) ELSE CHOOSE e \in previous : TRUE,
               current, past, of)

(* What the policy decided: send a candidate for validation, or stop. *)
Proceeds(t, r, d) ==
  IF d.action = "TRY_HEALING"
  THEN /\ run' = [run EXCEPT ![t] = [r EXCEPT !.pc = "validate", !.selected = d.selected,
                                              !.attempted = @ \union {d.selected}, !.count = @ + 1]]
       /\ UNCHANGED <<made, writer>>
  ELSE GivesUp(t)

(* What the policy looks at. *)
Slim(ranked) == << >> \o [i \in DOMAIN ranked |-> [selector |-> ranked[i].selector, confidence |-> ranked[i].confidence]]

Recommend(t) ==
  LET r == run[t]
  IN /\ r.pc = "recommend" /\ LoopIsFree(r.proc)
     /\ \E ranked \in {CandidatesFor(t)} :
        \E answer \in IF AsksModel(r.type, ranked) THEN Answers ELSE {NoAnswer}, d \in Decisions :
          /\ evaluate(r.type, ranked, r.count, r.retries, r.attempted, d)
          /\ Proceeds(t, [r EXCEPT !.ranked = Slim(ranked),
                                   !.recommendation = generate_recommendation(r.type, ranked, answer)], d)
     /\ UNCHANGED <<index, rows, volatile, eraser, faults, learned, validated>>

-----------------------------------------------------------------------------
(* Validation and feedback. *)

(* _validate_ai_heal runs the test with the replacement.  It can only pass   *)
(* when the replacement is on the page.                                      *)
Validate(t, passed) ==
  LET r == run[t]
  IN /\ r.pc = "validate" /\ LoopIsFree(r.proc)
     /\ passed => Matching(r.dom, r.selected) # {}
     /\ validated' = IF passed THEN validated \union {<<Target[t], r.selected>>} ELSE validated
     /\ ToStore(t, r.proc,
                Item(HealingRecord(t, made + 1, Target[t], r.selected,
                                   _derive_validation_result(IF passed THEN "SUCCESS" ELSE "FAILURE")), "never"))
     /\ run' = [run EXCEPT ![t] = [r EXCEPT !.pc = "feedback", !.passed = passed, !.previous = {},
                                              !.recommendation = << >>]]
     /\ UNCHANGED <<index, rows, volatile, eraser, faults, learned>>

(* submit_healing_result: done, or the next candidate. *)
Feedback(t) ==
  LET r == run[t]
  IN /\ r.pc = "feedback" /\ LoopIsFree(r.proc)
     /\ IF r.passed
        THEN /\ run' = [run EXCEPT ![t] = [Idle EXCEPT !.pc = "learn", !.proc = r.proc, !.dom = r.dom,
                                                       !.selected = r.selected, !.passed = TRUE]]
             /\ UNCHANGED <<made, writer>>
        ELSE \E d \in Decisions : /\ evaluate_continuation(r.ranked, r.count, r.attempted, d)
                                  /\ Proceeds(t, r, d)
     /\ UNCHANGED <<index, rows, volatile, eraser, faults, learned, validated>>

(* The end of _learn_from_run: the fingerprint goes to the test case.  After *)
(* a heal of the engine's own it stays as it was.                            *)
Finish(t) ==
  LET r     == run[t]
      acted == IF r.selected = << >> THEN Target[t] ELSE r.selected
  IN /\ r.pc = "learn" /\ LoopIsFree(r.proc)
     /\ learned' = IF r.passed /\ Matching(r.dom, acted) # {}
                   THEN [learned EXCEPT ![t] = r.dom[First(Matching(r.dom, acted))]] ELSE learned
     /\ run' = [run EXCEPT ![t] = Idle]
     /\ UNCHANGED <<memory_vars, validated>>

-----------------------------------------------------------------------------
Stores(t) ==
  /\ StoreSkipped(t) \/ StoreInIndex(t) \/ Persist(t)
  /\ UNCHANGED <<run, learned, validated>>

(* A store that fails ends the run. *)
StoreFails(t) ==
  /\ PersistFails(t)
  /\ run' = [run EXCEPT ![t] = Idle]
  /\ UNCHANGED <<learned, validated>>

Restarts(p, reachable) ==
  /\ Restart(p, reachable)
  /\ run' = [t \in Tests |-> IF run[t].proc = p THEN Idle ELSE run[t]]
  /\ UNCHANGED <<learned, validated>>

Next ==
  \/ \E t \in Tests :
       \/ \E p \in Procs : Browses(t, p) /\ \E dom \in Doms[t] : BrowserRun(t, p, dom)
       \/ Diagnose(t)
       \/ Recommend(t)
       \/ \E passed \in BOOLEAN : Validate(t, passed)
       \/ Feedback(t)
       \/ Finish(t)
       \/ Stores(t)
       \/ StoreFails(t)
  \/ \E p \in Procs, reachable \in BOOLEAN : Restarts(p, reachable)
  \/ Erasure /\ UNCHANGED <<run, learned, validated>>

Spec == Init /\ [][Next]_vars

-----------------------------------------------------------------------------
Pcs == {"idle", "again", "submit", "recommend", "validate", "feedback", "learn"}

(* Type correctness: what each store holds and where each run is. *)
TypeOK ==
  /\ \A p \in Procs : \A r \in In(index[p]) : r.kind \in {"element", "healing"} /\ r.at \in 1..made
  /\ \A r \in In(rows) : r.owner \in {Owner[t] : t \in Tests} /\ r.at \in 1..made
  /\ \A t \in Tests : /\ run[t].pc \in Pcs /\ run[t].proc \in Procs /\ run[t].type \in FailureTypes
                      /\ run[t].count \in 0..MaxHealing /\ run[t].retries \in 0..MaxRetries
                      /\ writer[t].half = "row" => ~Stored(t)
  /\ volatile \subseteq Procs /\ made \in 0..MaxStored /\ faults \in 0..MaxFaults

(* A replacement the platform tries is an element of the page the step       *)
(* failed on: its own selector, matching no other element that was offered,  *)
(* and not the selector that failed.  What worked in the past and is no      *)
(* longer on the page is never tried (dom_evidence, _unique_selector,        *)
(* _generate_from_historical_memory, the policy's thresholds).               *)
TriedIsOnThePage ==
  \A t \in Tests : run[t].pc = "validate" =>
    LET everyone == elements(run[t].dom)
        matching == {i \in DOMAIN everyone : Matches(run[t].selected, everyone[i])}
    IN run[t].selected # Target[t] /\ Cardinality(matching) = 1

(* A replacement is remembered as a success, in a process or in the database,*)
(* only if a run with it passed (_derive_validation_result, _learn_from_run).*)
OnlyValidatedIsRemembered ==
  \A r \in (UNION {In(index[p]) : p \in Procs}) \union In(rows) :
    r.kind = "healing" /\ r.ok = "yes" => <<r.old, r.new>> \in validated

(* Once DELETE /me ended, the API process holds none of the records it       *)
(* erased, whatever runs stored meanwhile (delete_me, reload).               *)
ErasedIsForgotten ==
  eraser.pc = "done" => In(index[Api]) \intersect eraser.gone = {}

(* A check that failed is never healed away: no replacement is tried for a   *)
(* step whose check itself failed, unless the message quotes a word of       *)
(* another rule of the analyzer, "not found" for a target in memory or       *)
(* "hidden" where the config heals such failures (_classify_deterministic,   *)
(* _NON_HEALABLE_FAILURES, evaluate).                                        *)
FailedCheckStands ==
  \A t \in Tests : LET r == run[t] IN
    r.pc \in {"validate", "feedback"} /\ r.failure.check =>
      \/ r.known /\ _is_missing_element(r.failure)
      \/ get_failure_policy("ELEMENT_NOT_INTERACTABLE").healable /\ _check_element_not_interactable(r.failure)
=============================================================================
