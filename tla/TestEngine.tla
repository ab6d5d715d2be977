----------------------------- MODULE TestEngine -----------------------------
(***************************************************************************)
(* Executions of one test case by the engine (engine/runner.py), each in a *)
(* browser of its own (engine/browser.py), and what is kept of them on the *)
(* test case (collect_learned_targets, _learn_from_run).                   *)
(*                                                                         *)
(* A call of run_test is a process; two awaits of it are two steps, except *)
(* that one healing decision looks at one page.  The application may show  *)
(* another page at any time (Render): a slow page, a new version.          *)
(***************************************************************************)
EXTENDS Healer

CONSTANTS
  Calls,         \* the executions of the test case
  Plan,          \* its steps: [action, primary, expected]
  Sites,         \* the pages the application may show
  MAX_BROWSERS,
  MAX_LEARNED,   \* MAX_LEARNED_FALLBACKS
  QuickHeal,     \* quick_heal_ms > 0
  MAX_RETRY_RUNS,
  Faults,        \* what may go wrong: "overlap", "crash", "cancel", "retry"
  MaxFaults      \* bound: how often, in all

Actions == {"goto", "click", "assert_text", "assert_visible", "assert_hidden"}
Steps == DOMAIN Plan

ASSUME EngineAssumption ==
  /\ IsFiniteSet(Calls)
  /\ MAX_BROWSERS \in Nat \ {0}
  /\ MAX_LEARNED \in Nat \ {0} /\ MAX_RETRY_RUNS \in Nat
  /\ QuickHeal \in BOOLEAN
  /\ Plan \in Seq([action : Actions, primary : Locators \union {NoLocator}, expected : Texts \union {None}])
  /\ Plan # << >>
  /\ \A i \in Steps : (Plan[i].action = "goto") = (Plan[i].primary = NoLocator)
  /\ Sites \subseteq SUBSET Elements /\ \A page \in Sites : IsFiniteSet(page)
  /\ Faults \subseteq {"overlap", "crash", "cancel", "retry"}
  /\ MaxFaults \in Nat

VARIABLES
  slots,    \* free slots of the browser semaphore
  learned,  \* healing_targets of the test case: a target for each primary locator
  call,     \* the calls of run_test
  faults    \* faults so far

vars == <<slots, learned, call, faults>>

Statuses == {"PASSED", "HEALED", "FAILED"}
Primaries == {Plan[i].primary : i \in Steps} \ {NoLocator}

(* A heal: the locator chosen for a step and the page it was chosen on. *)
NoHeal == [locator |-> NoLocator, page |-> {}]

NoCall == [pc |-> "idle", loaded |-> [p \in Primaries |-> NoTarget], reruns |-> 0, page |-> {}, i |-> 1,
           targets |-> [i \in Steps |-> NoTarget], pre |-> NoFingerprint, heal |-> NoHeal, checked |-> FALSE, results |-> << >>, heals |-> << >>, broken |-> FALSE]

HasBrowser == {"open", "look", "early", "act", "learn", "heal", "retry", "close"}
Over == {"done", "lost"}

Step(t) == Plan[call[t].i]
Target(t) == call[t].targets[call[t].i]

Init ==
  /\ slots = MAX_BROWSERS
  /\ learned = [p \in Primaries |-> NoTarget]
  /\ call = [t \in Calls |-> NoCall]
  /\ faults = 0

Become(t, c) == call' = [call EXCEPT ![t] = c]

Fault(kind) == kind \in Faults /\ faults < MaxFaults /\ faults' = faults + 1

-----------------------------------------------------------------------------
(* What is learned. *)

Kept(locators) == SubSeq(locators, 1, Least(Len(locators), MAX_LEARNED))

Without(locators, l) == Picked(locators, {k \in DOMAIN locators : locators[k] # l})

(* create_engine_target *)
create_engine_target(primary) ==
  [learned[primary] EXCEPT !.fallbacks = Kept(Without(learned[primary].fallbacks, primary))]

(* _enrich_target *)
_enrich_target(target, primary, fp) ==
  LET known == {primary} \union {target.fallbacks[k] : k \in DOMAIN target.fallbacks}
      made == generate_locators(fp)
      new == Picked(made, {k \in DOMAIN made : made[k] \notin known})
  IN IF fp = NoFingerprint THEN target ELSE [fallbacks |-> rank_locators(target.fallbacks \o new), fp |-> fp]

\* mutant: the heal of this run goes last
EntryHealLast(c, i) ==
  LET fallbacks == c.targets[i].fallbacks
      last == IF i \in DOMAIN c.results /\ c.results[i] = "HEALED"
              THEN Without(fallbacks, c.heals[i].locator) \o <<c.heals[i].locator>> ELSE fallbacks
  IN [fallbacks |-> Kept(Without(last, Plan[i].primary)), fp |-> c.targets[i].fp]

(* What collect_learned_targets makes of step i: a heal of this run goes first. *)
Entry(c, i) ==
  LET fallbacks == c.targets[i].fallbacks
      first == IF i \in DOMAIN c.results /\ c.results[i] = "HEALED"
               THEN <<c.heals[i].locator>> \o Without(fallbacks, c.heals[i].locator) ELSE fallbacks
  IN [fallbacks |-> Kept(Without(first, Plan[i].primary)), fp |-> c.targets[i].fp]

(* The step whose entry is stored under a locator: the last that has one. *)
Sources(c, primary) ==
  LET has == {i \in Steps : Plan[i].primary = primary /\ Entry(c, i) # NoTarget}
  IN {i \in has : \A j \in has : j <= i}

(* collect_learned_targets *)
collect_learned_targets(c) ==
  [p \in Primaries |-> IF Sources(c, p) = {} THEN NoTarget ELSE Entry(c, CHOOSE i \in Sources(c, p) : TRUE)]

-----------------------------------------------------------------------------
(* The session. *)

(* The plan is built from what is learned.  Executions of one test case do   *)
(* not overlap, unless two are asked for at once.                            *)
Begin(t) ==
  /\ call[t].pc = "idle"
  /\ IF \E u \in Calls : call[u].pc \notin {"idle"} \union Over THEN Fault("overlap") ELSE UNCHANGED faults
  /\ Become(t, [NoCall EXCEPT !.pc = "wait", !.loaded = learned,
                              !.targets = [i \in Steps |-> IF Plan[i].primary = NoLocator THEN NoTarget
                                                           ELSE create_engine_target(Plan[i].primary)]])
  /\ UNCHANGED <<slots, learned>>

Acquire(t) ==
  /\ call[t].pc = "wait" /\ slots > 0
  /\ slots' = slots - 1
  /\ Become(t, [call[t] EXCEPT !.pc = "open"])
  /\ UNCHANGED <<learned, faults>>

(* A blank page. *)
Opened(t) ==
  /\ call[t].pc = "open"
  /\ Become(t, [call[t] EXCEPT !.pc = "look"])
  /\ UNCHANGED <<slots, learned, faults>>

\* mutant: the exception is logged only
ReportedQuietly(c) == [c EXCEPT !.pc = "end", !.page = {}]

(* The result when the session fails: the exception becomes a failed step. *)
Reported(c) == [c EXCEPT !.pc = "end", !.page = {}, !.results = IF c.broken THEN Append(@, "FAILED") ELSE @]

\* mutant: the slot is not given back
OpenFailsHolding(t) ==
  /\ call[t].pc = "open" /\ Fault("crash")
  /\ Become(t, Reported([call[t] EXCEPT !.broken = TRUE]))
  /\ UNCHANGED <<slots, learned>>

(* _open raises: __aenter__ closes what there is and gives the slot back. *)
OpenFails(t) ==
  /\ call[t].pc = "open" /\ Fault("crash")
  /\ slots' = slots + 1
  /\ Become(t, Reported([call[t] EXCEPT !.broken = TRUE]))
  /\ UNCHANGED learned

(* An exception that _execute_step does not catch, or that the work between  *)
(* the steps raises (a closed page, a screenshot that cannot be written).    *)
Crash(t) ==
  /\ call[t].pc \in HasBrowser \ {"open", "close"} /\ Fault("crash")
  /\ Become(t, [call[t] EXCEPT !.pc = "close", !.broken = TRUE])
  /\ UNCHANGED <<slots, learned>>

(* __aexit__, which may raise too; the slot is given back in any case. *)
Close(t) ==
  /\ call[t].pc = "close"
  /\ slots' = slots + 1
  /\ \/ Become(t, Reported(call[t])) /\ UNCHANGED faults
     \/ Fault("crash") /\ Become(t, Reported([call[t] EXCEPT !.broken = TRUE]))
  /\ UNCHANGED learned

(* The task is cancelled: __aexit__ runs, run_test does not return. *)
Cancel(t) ==
  /\ call[t].pc \in HasBrowser \union {"wait"} /\ Fault("cancel")
  /\ slots' = IF call[t].pc \in HasBrowser THEN slots + 1 ELSE slots
  /\ Become(t, [NoCall EXCEPT !.pc = "lost"])
  /\ UNCHANGED learned

(* The application changes what it shows. *)
Render(t) ==
  /\ call[t].pc \in HasBrowser \ {"open", "close"} /\ call[t].page # {}
  /\ \E page \in Sites \ {call[t].page} : Become(t, [call[t] EXCEPT !.page = page])
  /\ UNCHANGED <<slots, learned, faults>>

-----------------------------------------------------------------------------
(* A step. *)

(* The step's result; a failed step is the last. *)
Recorded(c, status) ==
  LET last == status = "FAILED" \/ c.i = Len(Plan)
  IN [c EXCEPT !.results = Append(@, status), !.heals = Append(@, IF status = "HEALED" THEN c.heal ELSE NoHeal),
               !.pc = IF last THEN "close" ELSE "look", !.i = IF last THEN @ ELSE @ + 1,
               !.pre = NoFingerprint, !.heal = NoHeal, !.checked = FALSE]

_ELEMENT_ACTIONS == Actions \ {"goto", "assert_hidden"}

(* _heal_missing_early: what it returns, if anything. *)
_heal_missing_early(t) ==
  IF /\ Step(t).action \in _ELEMENT_ACTIONS /\ QuickHeal
     /\ Target(t) # NoTarget
     /\ Matches(call[t].page, Step(t).primary) = {}
  THEN attempt_healing(call[t].page, Step(t).primary, Target(t)) ELSE {}

LookMissing(t) ==
  /\ call[t].pc = "look"
  /\ \E l \in _heal_missing_early(t) :
       Become(t, [call[t] EXCEPT !.pc = "early", !.heal = [locator |-> l, page |-> call[t].page]])
  /\ UNCHANGED <<slots, learned, faults>>

(* _fingerprint_if_present, before the action. *)
Look(t) ==
  /\ call[t].pc = "look" /\ _heal_missing_early(t) = {}
  /\ Become(t, [call[t] EXCEPT !.pc = "act", !.pre = build_fingerprint(call[t].page, Step(t).primary)])
  /\ UNCHANGED <<slots, learned, faults>>

(* _perform_action_with_locator: "check" is an AssertionError, "timeout" any *)
(* other exception it catches.  A visible element may refuse a click.        *)
Outcomes(page, step, l) ==
  LET found == Matches(page, l) # {}
      e == First(page, l)
  IN CASE step.action = "goto"           -> {"ok", "check", "timeout"}
       [] step.action = "click"          -> IF found /\ e.visible THEN {"ok", "timeout"} ELSE {"timeout"}
       [] step.action = "assert_text"    -> IF ~found THEN {"timeout"} ELSE IF e.text = step.expected THEN {"ok"} ELSE {"check"}
       [] step.action = "assert_visible" -> IF found /\ e.visible THEN {"ok"} ELSE {"timeout"}
       [] step.action = "assert_hidden"  -> IF found /\ e.visible THEN {"check"} ELSE {"ok"}

(* The page after the action: goto shows one (what a click leads to, Render shows). *)
PagesAfter(c, step, outcome) == IF outcome = "ok" /\ step.action = "goto" THEN Sites ELSE {c.page}

(* The element was found and the check of an assertion did not hold. *)
FailsCheck(page, step, l) ==
  /\ Matches(page, l) # {}
  /\ \/ step.action = "assert_text" /\ First(page, l).text # step.expected
     \/ step.action = "assert_visible" /\ ~First(page, l).visible
     \/ step.action = "assert_hidden" /\ First(page, l).visible

\* mutant: every exception is healed
CaughtAll(c, outcome) == [c EXCEPT !.pc = "heal"]

(* A failed check is the result; anything else may be a broken locator. *)
Caught(c, outcome) == IF outcome = "check" THEN Recorded(c, "FAILED") ELSE [c EXCEPT !.pc = "heal"]

Act(t) ==
  LET c == call[t]
      l == Step(t).primary
  IN /\ c.pc = "act"
     /\ \E outcome \in Outcomes(c.page, Step(t), l) : \E page \in PagesAfter(c, Step(t), outcome) :
          LET after == [c EXCEPT !.page = page, !.checked = FailsCheck(c.page, Step(t), l)]
          IN Become(t, IF outcome # "ok" THEN Caught(after, outcome)
                       ELSE IF l = NoLocator THEN Recorded(after, "PASSED")
                       ELSE [after EXCEPT !.pc = "learn"])
     /\ UNCHANGED <<slots, learned, faults>>

(* The action passed: the target keeps its element, seen before or else now. *)
Learn(t) ==
  LET c == call[t]
      l == Step(t).primary
      fp == IF c.pre # NoFingerprint THEN c.pre ELSE build_fingerprint(c.page, l)
  IN /\ c.pc = "learn"
     /\ Become(t, Recorded([c EXCEPT !.targets[c.i] = _enrich_target(@, l, fp)], "PASSED"))
     /\ UNCHANGED <<slots, learned, faults>>

(* The action on the locator of an early heal. *)
ActEarly(t) ==
  LET c == call[t]
  IN /\ c.pc = "early"
     /\ \E outcome \in Outcomes(c.page, Step(t), c.heal.locator) : \E page \in PagesAfter(c, Step(t), outcome) :
          LET after == [c EXCEPT !.page = page]
          IN Become(t, IF outcome = "ok" THEN Recorded(after, "HEALED") ELSE Caught(after, outcome))
     /\ UNCHANGED <<slots, learned, faults>>

(* attempt_healing after the action failed. *)
Heal(t) ==
  LET c == call[t]
      selected == IF Step(t).primary = NoLocator THEN {} ELSE attempt_healing(c.page, Step(t).primary, Target(t))
  IN /\ c.pc = "heal"
     /\ \/ selected = {} /\ Become(t, Recorded(c, "FAILED"))
        \/ \E l \in selected : Become(t, [c EXCEPT !.pc = "retry", !.heal = [locator |-> l, page |-> c.page]])
     /\ UNCHANGED <<slots, learned, faults>>

(* The action on the healed locator; whatever it raises is the end of it. *)
Retry(t) ==
  LET c == call[t]
  IN /\ c.pc = "retry"
     /\ \E outcome \in Outcomes(c.page, Step(t), c.heal.locator) : \E page \in PagesAfter(c, Step(t), outcome) :
          Become(t, Recorded([c EXCEPT !.page = page], IF outcome = "ok" THEN "HEALED" ELSE "FAILED"))
     /\ UNCHANGED <<slots, learned, faults>>

(* _aggregate_status *)
_aggregate_status(results) ==
  LET has(status) == \E k \in DOMAIN results : results[k] = status
  IN IF has("FAILED") THEN "FAILED" ELSE IF has("HEALED") THEN "HEALED" ELSE "PASSED"

(* A failed run may be retried with the same plan: AgentWorkflow decides. *)
Rerun(t) ==
  LET c == call[t]
  IN /\ c.pc = "end" /\ _aggregate_status(c.results) = "FAILED" /\ c.reruns < MAX_RETRY_RUNS /\ Fault("retry")
     /\ Become(t, [NoCall EXCEPT !.pc = "wait", !.loaded = c.loaded, !.targets = c.targets, !.reruns = c.reruns + 1])
     /\ UNCHANGED <<slots, learned>>

(* The result is in; _learn_from_run stores what was learned, pass or fail,  *)
(* if it differs from what this execution read.                              *)
End(t) ==
  /\ call[t].pc = "end"
  /\ LET targets == collect_learned_targets(call[t])
     IN learned' = IF targets = call[t].loaded THEN learned ELSE targets
  /\ Become(t, [NoCall EXCEPT !.pc = "done"])
  /\ UNCHANGED <<slots, faults>>

Progress(t) ==
  \/ Opened(t) \/ Close(t) \/ LookMissing(t) \/ Look(t) \/ Act(t) \/ Learn(t) \/ ActEarly(t)
  \/ Heal(t) \/ Retry(t) \/ End(t)

Next ==
  \E t \in Calls : Begin(t) \/ Acquire(t) \/ Progress(t) \/ Rerun(t) \/ OpenFails(t) \/ Crash(t) \/ Cancel(t) \/ Render(t)

Spec == Init /\ [][Next]_vars

-----------------------------------------------------------------------------
(* Properties. *)

Targets == [fallbacks : Seq(Locators), fp : Fingerprints]

(* Types; and no test case keeps more than MAX_LEARNED_FALLBACKS locators of *)
(* an element, however many runs add to them.                                *)
TypeOK ==
  /\ slots \in 0..MAX_BROWSERS
  /\ faults \in 0..MaxFaults
  /\ \A p \in Primaries : learned[p] \in Targets /\ Len(learned[p].fallbacks) <= MAX_LEARNED
  /\ \A t \in Calls :
       LET c == call[t]
       IN /\ c.pc \in {"idle", "wait", "end"} \union HasBrowser \union Over
          /\ c.i \in Steps /\ c.pre \in Fingerprints /\ c.heal.locator \in Locators \union {NoLocator}
          /\ \A i \in Steps : c.targets[i] \in Targets
          /\ c.results \in Seq(Statuses) /\ {c.broken, c.checked} \subseteq BOOLEAN

(* BrowserSession: every slot of the semaphore is free or held by a session, *)
(* whatever fails or is cancelled; a leaked slot would in time stop every    *)
(* test of the process.                                                      *)
SlotsKept == slots + Cardinality({t \in Calls : call[t].pc \in HasBrowser}) = MAX_BROWSERS

(* attempt_healing (healer.py:32-33 and the identity rules): the locator     *)
(* chosen names exactly one element, visible, of the same tag, which shares  *)
(* an identifying feature other than the broken one with the element learned *)
(* (if that had any).  A look-alike in the same place is never taken.        *)
HealIsSafe ==
  \A t \in Calls : call[t].pc \in {"early", "retry"} =>
    LET l == call[t].heal.locator
        page == call[t].heal.page
        fp == Target(t).fp
        ignore == broken_attributes(Step(t).primary)
    IN \E e \in page : /\ Matches(page, l) = {e} /\ e.visible
                       /\ fp # NoFingerprint =>
                            /\ e.tag = fp.tag
                            /\ Features(fp, ignore) # {} => Shared(fp, e, ignore) # {}

(* attempt_healing (healer.py:19-20, "two near-identical matches = refuse,   *)
(* don't guess"): when it chose by scanning the page, no other element that  *)
(* can be told apart comes within the margin - if the page has no more       *)
(* elements than the scan looks at.                                          *)
NotAGuess ==
  \A t \in Calls : call[t].pc \in {"early", "retry"} =>
    LET h == call[t].heal
        ignore == broken_attributes(Step(t).primary)
        score(e) == score_fingerprint(Target(t).fp, e, ignore)
    IN Cardinality(h.page) <= MaxCandidates =>
         \/ \E k \in DOMAIN Target(t).fallbacks : Target(t).fallbacks[k] = h.locator
         \/ \A e \in h.page : \/ e \in Matches(h.page, h.locator)
                               \/ _best_locator(e) = Step(t).primary \/ ~_resolve_unique(h.page, _best_locator(e))
                               \/ score(First(h.page, h.locator)) - score(e) >= AMBIGUITY_MARGIN

(* _execute_step (runner.py:21-23, :307-310): a step whose check raised an   *)
(* AssertionError is not healed onto another element and so passed.          *)
CheckIsTheResult ==
  [][\A t \in Calls : /\ Len(call'[t].results) > Len(call[t].results)
                      /\ call[t].checked \/ (call[t].pc = "act" /\ FailsCheck(call[t].page, Step(t), Step(t).primary))
                      /\ Step(t).action \in {"assert_text", "assert_hidden"}
                      => call'[t].results[Len(call'[t].results)] = "FAILED"]_vars

(* run_test, _aggregate_status: a run is reported PASSED only if each step   *)
(* of the plan ran and passed on its own locator, and HEALED only if each    *)
(* ran; a session that broke down, even while closing, is a failure.         *)
PassMeansAllSteps ==
  \A t \in Calls : call[t].pc = "end" =>
    LET status == _aggregate_status(call[t].results)
    IN status # "FAILED" => /\ Len(call[t].results) = Len(Plan) /\ ~call[t].broken
                            /\ status = "PASSED" => \A i \in Steps : call[t].heals[i] = NoHeal

(* collect_learned_targets (converters.py:101-102, "so the next run heals at *)
(* once"): when the entry kept for a locator is that of a step healed in     *)
(* this run, the next execution, on the page it was healed on, chooses the   *)
(* same locator - if no other execution stored its own in between.           *)
HealsAtOnce ==
  [][\A t \in Calls : call[t].pc = "end" /\ call'[t].pc = "done" /\ learned = call[t].loaded =>
       \A p \in Primaries : \A i \in Sources(call[t], p) :
         i \in DOMAIN call[t].results /\ call[t].results[i] = "HEALED" =>
           attempt_healing(call[t].heals[i].page, p, learned'[p]) = {call[t].heals[i].locator}]_vars
=============================================================================
