--------------------------- MODULE FailureAnalysis ---------------------------
(***************************************************************************)
(* How a failed step is diagnosed.  Two agents read the error message:     *)
(*                                                                         *)
(*   - FailureAnalyzerAgent (agents/analyzer/analyzer.py), which the       *)
(*     platform uses: ordered rules over the message and what memory knows *)
(*     of the target, and a language model for what the rules leave open;  *)
(*   - FailureAnalysisAgent with its FailureClassifier                     *)
(*     (failure_analysis_agent.py, failure_classifier.py), which also      *)
(*     grades severity and healability.                                    *)
(*                                                                         *)
(* A message is the set of the phrases it contains.  Both agents test for  *)
(* substrings, so what counts is which phrases contain a rule's patterns;  *)
(* "assert_hidden failed" contains "hidden", and a message that quotes the *)
(* page contains whatever the page says.  Confidences are hundredths.      *)
(***************************************************************************)
EXTENDS Integers, FiniteSets, AgentEnums

(* Every pattern of either agent is in a phrase here, one for each set of     *)
(* patterns that both treat alike: "hidden" stands for a bare "disabled" or   *)
(* "obscured" too, "element is hidden" for the longer wordings, "navigation"  *)
(* for a bare "navigate", "page load" or "net::", "timeout" for "deadline     *)
(* exceeded", "invalid url" for "err_connection_reset", "intercepted" for     *)
(* "cannot interact", "assertion" for "assert failed", and "assert_text       *)
(* failed" for the engine's checks of values and of what is visible.          *)
Phrases == {"element not found", "page not found", "not found", "no element",
            "no such element", "could not find element", "unable to locate element", "no matching element",
            "not interactable", "element is hidden", "hidden", "intercepted",
            "assertion", "mismatch", "expected value",
            "assert_text failed", "assert_url failed", "assert_hidden failed",
            "timeout", "timed out", "exceeded", "resolved to",
            "waiting for locator", "waiting for selector", "waiting for navigation",
            "navigation failed", "navigation", "404", "net::err", "invalid url",
            "connection refused", "server error"}

(* What the engine reports of a failed step: the phrases of its message, and  *)
(* whether the message, or the context the agents get, names an expected and  *)
(* another actual state ("named", "given"; the platform's context does not).  *)
(* "check" says that the step was a check and the check itself failed (an     *)
(* AssertionError), which the message only tells by its wording.              *)
Failures == [says : SUBSET Phrases, named : BOOLEAN, given : BOOLEAN, check : BOOLEAN,
             action : {"click", "navigate", "check"}]

Says(f, patterns) == f.says \intersect patterns # {}

-----------------------------------------------------------------------------
(* FailureAnalyzerAgent. *)

Analyses == [type : FailureTypes, confidence : Levels]

Diagnosis(type, confidence) == [type |-> type, confidence |-> confidence]

_is_missing_element(f) ==
  \/ Says(f, {"element not found", "page not found", "not found", "no element"})
  \/ /\ Says(f, {"timeout", "exceeded"})
     /\ Says(f, {"waiting for locator"})
     /\ ~Says(f, {"resolved to"})

(* The rules.  previous: memory knows an element with the failed selector;  *)
(* alternative: the engine found another element in its place.              *)
_check_selector_changed(f, previous) == previous /\ _is_missing_element(f)

_check_element_not_interactable(f) ==
  Says(f, {"not interactable", "element is hidden", "hidden", "assert_hidden failed"})

AssertionKeyword(f) ==
  Says(f, {"assertion", "mismatch", "assert_text failed", "assert_url failed", "assert_hidden failed"})

\* mutant: an assertion failure is told by the context alone
OnlyWhenGiven(f) == f.given

_check_assertion_failed(f) == AssertionKeyword(f) \/ f.given

_check_timeout(f) == ~_is_missing_element(f) /\ Says(f, {"timeout", "timed out", "exceeded"})

_check_navigation_failed(f) ==
  Says(f, {"navigation failed", "navigation", "waiting for navigation", "404", "net::err"})

_classify_deterministic(f, previous, alternative) ==
  IF _check_selector_changed(f, previous)
  THEN Diagnosis("SELECTOR_CHANGED", IF alternative THEN "HIGH" ELSE "MEDIUM")
  ELSE IF _check_element_not_interactable(f) THEN Diagnosis("ELEMENT_NOT_INTERACTABLE", "HIGH")
  ELSE IF _check_assertion_failed(f)
  THEN Diagnosis("ASSERTION_FAILURE", IF f.given \/ (f.named /\ AssertionKeyword(f)) THEN "HIGH" ELSE "MEDIUM")
  ELSE IF _check_timeout(f) THEN Diagnosis("TIMEOUT", "HIGH")
  ELSE IF _check_navigation_failed(f) THEN Diagnosis("NAVIGATION_FAILURE", "HIGH")
  ELSE IF _is_missing_element(f)
  THEN Diagnosis("ELEMENT_NOT_FOUND", IF previous THEN "HIGH" ELSE "MEDIUM")
  ELSE Diagnosis("UNKNOWN", "LOW")

(* _analyze_with_llm: any type and level of the enumerations, or nothing when *)
(* the call fails or the answer has an unknown type, level or no root cause.  *)
_analyze_with_llm(answers) == Analyses \intersect answers

(* analyze: the model is asked only when the rules have no answer, and its    *)
(* answer, if any, replaces theirs.                                           *)
analyze(f, previous, alternative, answers) ==
  LET ruled == _classify_deterministic(f, previous, alternative)
  IN IF ruled.confidence = "LOW"
     THEN {ruled} \union _analyze_with_llm(answers)
     ELSE {ruled}

-----------------------------------------------------------------------------
(* FailureClassifier and FailureAnalysisAgent. *)

(* _CLASSIFICATION_RULES, in order: the first rule with a match wins. *)
Rules ==
  <<[type |-> "ELEMENT_NOT_INTERACTABLE", base |-> 90,
     patterns |-> {"not interactable", "element is hidden", "intercepted"}],
    [type |-> "ASSERTION_FAILURE", base |-> 90, patterns |-> {"assertion", "mismatch", "expected value"}],
    [type |-> "TIMEOUT", base |-> 90,
     patterns |-> {"timeout", "timed out", "waiting for selector", "waiting for navigation"}],
    [type |-> "NAVIGATION_FAILURE", base |-> 90,
     patterns |-> {"navigation failed", "404", "page not found", "net::err", "invalid url"}],
    [type |-> "NETWORK_ERROR", base |-> 85, patterns |-> {"connection refused"}],
    [type |-> "APPLICATION_ERROR", base |-> 85, patterns |-> {"server error"}],
    [type |-> "ELEMENT_NOT_FOUND", base |-> 85,
     patterns |-> {"element not found", "no element", "no such element", "could not find element",
                   "unable to locate element", "no matching element"}]>>

AtMost(n, bound) == IF n > bound THEN bound ELSE n
AtLeast(n, bound) == IF n < bound THEN bound ELSE n

(* dom: what the page says of the target ("gone", "hidden", "disabled").     *)
(* Messages are longer than ten characters, as all of the engine's are.       *)
_adjust_confidence(base, type, f, dom) ==
  LET supported ==
        CASE type = "ELEMENT_NOT_FOUND" -> IF "gone" \in dom THEN 5 ELSE 0
          [] type = "ELEMENT_NOT_INTERACTABLE" ->
               (IF "hidden" \in dom THEN 5 ELSE 0) + (IF "disabled" \in dom THEN 5 ELSE 0)
          [] OTHER -> 0
      boosted == AtMost(base + supported, 100)
  IN IF type = "ELEMENT_NOT_FOUND" /\ f.action = "navigate" THEN AtLeast(boosted - 15, 10) ELSE boosted

Classification(type, confidence) == [type |-> type, confidence |-> confidence]

(* classify.  A mismatch is one of the context; the message is read for words. *)
classify(f, dom) ==
  LET matching == {i \in DOMAIN Rules : Says(f, Rules[i].patterns)}
      rule     == Rules[CHOOSE i \in matching : \A j \in matching : i <= j]
      matched  == Cardinality(f.says \intersect rule.patterns)
  IN IF f.given
     THEN Classification("ASSERTION_FAILURE",
                         IF AssertionKeyword(f) \/ f.named \/ Says(f, {"expected value"}) THEN 95 ELSE 85)
     ELSE IF matching # {}
     THEN Classification(rule.type,
                         _adjust_confidence(AtMost(rule.base + 2 * (matched - 1), 100), rule.type, f, dom))
     ELSE Classification("UNKNOWN", 20)

_HEALABLE_TYPES == {"SELECTOR_CHANGED", "ELEMENT_NOT_FOUND"}

(* Conditionally healable failures end as not healable whatever the evidence. *)
_assess_healability(c) == c.type \in _HEALABLE_TYPES

_SEVERITY_MAP ==
  [t \in FailureTypes |->
     CASE t \in {"ASSERTION_FAILURE", "NAVIGATION_FAILURE", "NETWORK_ERROR"} -> "HIGH"
       [] t = "APPLICATION_ERROR" -> "CRITICAL"
       [] OTHER -> "MEDIUM"]

_to_confidence_level(n) == IF n >= 75 THEN "HIGH" ELSE IF n >= 45 THEN "MEDIUM" ELSE "LOW"

AnalysisResult(f, dom) ==
  LET c == classify(f, dom)
  IN [type |-> c.type, is_healable |-> _assess_healability(c), severity |-> _SEVERITY_MAP[c.type],
      confidence |-> _to_confidence_level(c.confidence)]

-----------------------------------------------------------------------------
(* How far the two agree. *)

(* Wordings of a missing element that only the classifier knows. *)
OnlyClassifierKnows ==
  {"no such element", "could not find element", "unable to locate element", "no matching element"}

(* What the second agent calls healable the platform's analyzer sends to the  *)
(* healer, when memory knows the target.                                      *)
SecondOpinionIsStricter(f, dom, alternative, answers) ==
  AnalysisResult(f, dom).is_healable =>
    \A a \in analyze(f, TRUE, alternative, answers) : a.type \in {"SELECTOR_CHANGED", "ELEMENT_NOT_FOUND"}
=============================================================================
