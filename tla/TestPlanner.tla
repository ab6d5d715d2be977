----------------------------- MODULE TestPlanner -----------------------------
(***************************************************************************)
(* The AI test planner (agents/planner) and what the plan stage keeps of   *)
(* its answer (pipeline/ai_plan.py): the cases that parse, keep the rules, *)
(* are not duplicates and touch only elements of the analyzed page.        *)
(*                                                                         *)
(* A case of the model's answer: [id, name, category, parses, steps,       *)
(* checks]; a step: [number, action, target, value, checks].  parses says  *)
(* whether the schema accepts it as written, once its spelling is          *)
(* normalized, or not at all.                                              *)
(***************************************************************************)
EXTENDS PagePlan, FiniteSets

CONSTANTS
  MAX_AI_TESTS,
  AiSlug,     \* the slug of a test id
  PartOf      \* <<a, b>>: an identifier of element a occurs in target b, or b in it

ASSUME PlannerAssumption == MAX_AI_TESTS \in Nat

NeedsTarget == {"click", "fill", "select", "check", "uncheck", "hover", "upload", "drag"}
NeedsValue  == {"navigate", "fill", "select", "upload", "drag", "press"}
ASSERTIONS_REQUIRING_TARGET   == AssertionType \ {"url_contains", "url_equals"}
ASSERTIONS_REQUIRING_EXPECTED == AssertionType \ {"element_visible", "element_not_visible"}

validate_assertion(a) ==
  /\ a.action \in ASSERTIONS_REQUIRING_TARGET => a.target # << >>
  /\ a.action \in ASSERTIONS_REQUIRING_EXPECTED => a.value # << >>

validate_test_step(s) ==
  /\ s.action \in NeedsTarget => s.target # << >>
  /\ s.action \in NeedsValue => s.value # << >>
  /\ \A i \in DOMAIN s.checks : validate_assertion(s.checks[i])

validate_test_case(c) ==
  /\ c.id # "" /\ c.name # ""
  /\ c.steps # << >>
  /\ \A i, j \in DOMAIN c.steps : c.steps[i].number = c.steps[j].number => i = j
  /\ \A i \in DOMAIN c.steps : validate_test_step(c.steps[i])
  /\ \A i \in DOMAIN c.checks : validate_assertion(c.checks[i])

(* An answer none of whose cases parses raises. *)
coerce_fields(c) == IF c.parses = "once normalized" THEN [c EXCEPT !.parses = "as written"] ELSE c

_parse_response(answer) ==
  Picked(answer, {i \in DOMAIN answer : coerce_fields(answer[i]).parses = "as written"})

Raises(answer) == answer # << >> /\ _parse_response(answer) = << >>

_test_case_signature(c) ==
  <<c.name, c.category, [i \in DOMAIN c.steps |-> <<c.steps[i].action, c.steps[i].target>>]>>

(* The first of each signature stays. *)
_remove_duplicates(cases) ==
  Picked(cases, {i \in DOMAIN cases :
                   \A j \in DOMAIN cases : j < i => _test_case_signature(cases[j]) # _test_case_signature(cases[i])})

(* The page as the planner sees it: its fields, and its named buttons. *)
page_context(a) ==
  Range(a.inputs) \union {b \in Range(a.buttons) : b.selector # <<"button">>}

validate_element_references(c, a) ==
  LET known == {e.selector : e \in page_context(a)}
  IN \/ known = {}
     \/ \A i \in DOMAIN c.steps :
          \/ c.steps[i].action \in {"navigate", "press", "wait"} \/ c.steps[i].target = << >>
          \/ \E k \in known : k = c.steps[i].target \/ <<k, c.steps[i].target>> \in PartOf

Valid(cases) == Picked(cases, {i \in DOMAIN cases : validate_test_case(cases[i])})

OnThePage(cases, a) == Picked(cases, {i \in DOMAIN cases : validate_element_references(cases[i], a)})

generate_tests(answer, a) == OnThePage(_remove_duplicates(Valid(_parse_response(answer))), a)

-----------------------------------------------------------------------------
(* ai_plan.py *)

_ANY_PAGE == {<<"body">>, <<"head > title">>, <<"title">>, <<"h1">>, <<"main">>}

KnownSelectors(a) == {e.selector : e \in Range(a.inputs) \union Range(a.buttons)} \union _ANY_PAGE

_add_check(check, known) == check.action \in {"url_contains", "url_equals"} \/ check.target \in known

(* A navigation of the model is skipped, with the checks written at it: the  *)
(* test stays on the page.                                                   *)
Kept(s) == s.action # "navigate"

SuiteSteps(c, a) ==
  LET own == Picked(c.steps, {i \in DOMAIN c.steps : Kept(c.steps[i])})
  IN <<Opens(a.url)>>
       \o FlattenSeq([i \in DOMAIN own |-> <<Step(own[i].action, own[i].target, own[i].value)>> \o own[i].checks])
       \o c.checks

\* mutant: only the checks are compared with the page
ChecksKnown(c, a) ==
  /\ \A i \in DOMAIN c.steps : Kept(c.steps[i]) =>
       \A j \in DOMAIN c.steps[i].checks : _add_check(c.steps[i].checks[j], KnownSelectors(a))
  /\ Len(SuiteSteps(c, a)) >= 2

Usable(c, a) ==
  LET known == KnownSelectors(a)
  IN /\ \A i \in DOMAIN c.steps : Kept(c.steps[i]) =>
          /\ c.steps[i].target = << >> \/ c.steps[i].target \in known
          /\ \A j \in DOMAIN c.steps[i].checks : _add_check(c.steps[i].checks[j], known)
     /\ \A i \in DOMAIN c.checks : _add_check(c.checks[i], known)
     /\ Len(SuiteSteps(c, a)) >= 2

to_suite_tests(cases, a) ==
  LET most == UpTo(cases, MAX_AI_TESTS)
      kept == Picked(most, {i \in DOMAIN most : Usable(most[i], a)})
  IN [i \in DOMAIN kept |-> Test(<<"ai", AiSlug[kept[i].id]>>, "ai", SuiteSteps(kept[i], a))]

(* Nothing of the planner when it raises. *)
ai_tests(answer, a) == IF Raises(answer) THEN << >> ELSE to_suite_tests(generate_tests(answer, a), a)
=============================================================================
