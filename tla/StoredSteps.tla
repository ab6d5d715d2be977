----------------------------- MODULE StoredSteps -----------------------------
(***************************************************************************)
(* The stored steps of a test case and the engine plan they become: the    *)
(* orchestrator reads them (_execute) into planner steps, each with the    *)
(* checks written after it, and converters.py turns those into the         *)
(* engine's steps.  A stored action is the name in lower case; targets and *)
(* values are sequences of strings, empty when absent.                     *)
(***************************************************************************)
EXTENDS Sequences, SequencesExt, Positions

Step(action, target, value) == [action |-> action, target |-> target, value |-> value]

TestAction ==
  {"navigate", "click", "fill", "select", "check", "uncheck", "hover", "upload", "drag", "press", "wait"}

AssertionType ==
  {"element_visible", "element_not_visible", "element_contains_text", "element_has_text", "url_contains",
   "url_equals", "value_equals"}

(* Names the pipeline stores for checks, besides the types themselves. *)
CheckNames ==
  {"assert_visible", "assert_hidden", "assert_contains_text", "assert_has_text", "assert_url", "assert_url_equals",
   "assert_value"}

IsCheck(s) == s.action \in AssertionType \union CheckNames

_assertion_type(name) ==
  IF name \in AssertionType THEN name
  ELSE CASE name = "assert_url"           -> "url_contains"
         [] name = "assert_url_equals"    -> "url_equals"
         [] name = "assert_value"         -> "value_equals"
         [] name = "assert_contains_text" -> "element_contains_text"
         [] name = "assert_has_text"      -> "element_has_text"
         [] name = "assert_hidden"        -> "element_not_visible"
         [] OTHER                         -> "element_visible"

map_action_to_engine(action) ==
  CASE action = "navigate" -> "goto" [] action = "wait" -> "wait_for" [] OTHER -> action

map_assertion_to_engine(s) ==
  LET type == _assertion_type(s.action)
  IN CASE type \in {"element_contains_text", "element_has_text"} -> Step("assert_text", s.target, s.value)
       [] type = "value_equals"                                  -> Step("assert_value", s.target, s.value)
       [] type = "element_not_visible"                           -> Step("assert_hidden", s.target, << >>)
       [] type \in {"url_contains", "url_equals"}                -> Step("assert_url", << >>, s.value)
       [] OTHER                                                  -> Step("assert_visible", s.target, s.value)

(* An unknown action makes the whole test unreadable: nothing is guessed. *)
Readable(stored) == \A i \in DOMAIN stored : IsCheck(stored[i]) \/ stored[i].action \in TestAction \union {"goto", "open"}

AsAction(s, base_url) ==
  LET action == IF s.action \in {"goto", "open"} THEN "navigate" ELSE s.action
  IN Step(map_action_to_engine(action), s.target, IF action = "navigate" /\ s.value = << >> THEN base_url ELSE s.value)

EngineStep(s, base_url) == IF IsCheck(s) THEN map_assertion_to_engine(s) ELSE AsAction(s, base_url)

(* A step is an action and the checks after it, so the engine does both in   *)
(* the order they are stored; the checks before the first action belong to   *)
(* the case and come last.                                                   *)
Leading(stored) == {i \in DOMAIN stored : \A j \in 1..i : IsCheck(stored[j])}

test_case_to_engine_plan(stored, base_url) ==
  LET plan(I)  == [k \in 1..Cardinality(I) |-> EngineStep(stored[Nth(I, k)], base_url)]
      attached == DOMAIN stored \ Leading(stored)
  IN (IF attached = {} THEN <<Step("goto", << >>, base_url)>> ELSE plan(attached)) \o plan(Leading(stored))
=============================================================================
