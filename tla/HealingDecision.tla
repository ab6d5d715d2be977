--------------------------- MODULE HealingDecision ---------------------------
(***************************************************************************)
(* The healing agent (agents/healer): replacement selectors for a target   *)
(* that broke, from the page as it is and from what memory saw succeed,    *)
(* scored, ranked and turned into a recommendation.                        *)
(*                                                                         *)
(* Scores, weights and thresholds are hundredths.  Ranking is a stable     *)
(* sort, highest first.  A model may be asked to choose between candidates *)
(* that are too close; its answer is an arbitrary one.                     *)
(***************************************************************************)
EXTENDS Positions, AgentEnums

CONSTANTS
  Weights,          \* ScoringWeights
  HighThreshold,    \* ConfidenceThresholds
  MediumThreshold,
  MinimumThreshold,
  AmbiguityThreshold,
  CloseEnough       \* pairs of scores exactly that threshold apart that count as ambiguous

WeightNames == {"text", "role", "type", "page", "historical", "name", "stable_attribute", "healing_history"}

ASSUME HealingDecisionAssumption ==
  /\ Weights \in [WeightNames -> Nat]
  /\ \E w \in WeightNames : Weights[w] > 0
  /\ {HighThreshold, MediumThreshold, MinimumThreshold, AmbiguityThreshold} \subseteq 0..100
  /\ MinimumThreshold <= MediumThreshold /\ MediumThreshold <= HighThreshold
  /\ CloseEnough \subseteq (0..100) \X (0..100)

-----------------------------------------------------------------------------
(* CandidateGenerator: similarities between the element that was and one    *)
(* that is, 100 for a match; values of text, role and attributes match when *)
(* both are there and equal.                                                *)

_exact_match(a, b) == IF a # "" /\ a = b THEN 100 ELSE 0

_stable_attribute_match(a, b) == _exact_match(a.testid, b.testid)

_compute_similarity(previous, current) ==
  [text             |-> _exact_match(previous.text, current.text),
   role             |-> _exact_match(previous.role, current.role),
   type             |-> _exact_match(previous.attributes.type, current.attributes.type),
   page             |-> _exact_match(previous.page, current.page),
   historical       |-> 0,
   name             |-> _exact_match(previous.attributes.name, current.attributes.name),
   stable_attribute |-> _stable_attribute_match(previous.attributes, current.attributes),
   healing_history  |-> 0]

(* The rate at which a replacement succeeded; 0 without records. *)
_compute_healing_history_score(records) ==
  IF records = << >> THEN 0
  ELSE (100 * Cardinality({i \in DOMAIN records : records[i].ok = "yes"})) \div Len(records)

Candidate(selector, source, similar) ==
  [selector |-> selector, source |-> source, similar |-> similar, confidence |-> 0]

(* Elements of the page, other than the one whose selector failed. *)
_generate_from_current_elements(previous, current) ==
  LET others == Picked(current, {i \in DOMAIN current : current[i].selector # previous.selector})
  IN << >> \o [i \in DOMAIN others |->
        Candidate(others[i].selector, "CURRENT_DOM", _compute_similarity(previous, others[i]))]

Precedent(rate) == [[w \in WeightNames |-> 0] EXCEPT !["historical"] = 100, !["healing_history"] = rate]

(* history: the healing records of the failed selector, newest first;       *)
(* of[new]: those of one replacement.  One candidate per validated record.  *)
_generate_from_historical_memory(history, of) ==
  LET validated == Picked(history, {i \in DOMAIN history : history[i].ok = "yes"})
  IN << >> \o [i \in DOMAIN validated |->
        Candidate(validated[i].new, "HISTORICAL_MEMORY",
                  Precedent(_compute_healing_history_score(of[validated[i].new])))]

(* A past replacement that is on the page is not listed again; one that     *)
(* succeeded several times is listed each time.                             *)
generate_candidates(known, previous, current, history, of) ==
  LET seen == IF known THEN _generate_from_current_elements(previous, current) ELSE << >>
      past == _generate_from_historical_memory(history, of)
  IN seen \o Picked(past, {k \in DOMAIN past : \A i \in DOMAIN seen : seen[i].selector # past[k].selector})

(* Candidates of the page get the success rate of their replacement too. *)
_enrich_with_healing_evidence(cands, of) ==
  [i \in DOMAIN cands |->
     IF cands[i].similar.healing_history > 0 THEN cands[i]
     ELSE [cands[i] EXCEPT !.similar.healing_history = _compute_healing_history_score(of[cands[i].selector])]]
-----------------------------------------------------------------------------
(* CandidateScorer. *)

Total(f) == f["text"] + f["role"] + f["type"] + f["page"] + f["historical"] + f["name"]
              + f["stable_attribute"] + f["healing_history"]

(* The weighted mean of the similarities. *)
score_candidate(c) == Total([w \in WeightNames |-> Weights[w] * c.similar[w]]) \div Total(Weights)

(* Highest first; candidates with the same score stay in the order they were *)
(* found.  (Here and above, << >> \o f is f as a list that is computed once.) *)
rank_candidates(cands) ==
  LET scored   == << >> \o [i \in DOMAIN cands |-> [cands[i] EXCEPT !.confidence = score_candidate(cands[i])]]
      score(i) == scored[i].confidence
      ahead(i) == {j \in DOMAIN scored : score(j) > score(i) \/ (score(j) = score(i) /\ j < i)}
  IN << >> \o [k \in DOMAIN scored |-> scored[CHOOSE i \in DOMAIN scored : Cardinality(ahead(i)) = k - 1]]

-----------------------------------------------------------------------------
(* HealingDecisionEngine. *)

NoCandidate == Candidate(<< >>, "NONE", [w \in WeightNames |-> 0])

_NON_HEALABLE_FAILURES == {"ASSERTION_FAILURE", "NETWORK_ERROR", "APPLICATION_ERROR"}

(* The two best are too close.  The gap is a difference of floats: one of    *)
(* exactly the threshold counts for some pairs of scores and not for others. *)
_detect_ambiguity(ranked) ==
  /\ Len(ranked) >= 2
  /\ LET gap == ranked[1].confidence - ranked[2].confidence
     IN \/ gap < AmbiguityThreshold
        \/ gap = AmbiguityThreshold /\ <<ranked[1].confidence, ranked[2].confidence>> \in CloseEnough

_classify_confidence(score) ==
  IF score >= HighThreshold THEN "HIGH" ELSE IF score >= MediumThreshold THEN "MEDIUM" ELSE "LOW"

_determine_action_for_confidence(score) ==
  IF score >= MediumThreshold THEN "TRY_REPLACEMENT_SELECTOR"
  ELSE IF score >= MinimumThreshold THEN "SEARCH_CURRENT_UI" ELSE "REQUIRE_FURTHER_ANALYSIS"

Choice(selected, level, action) == [selected |-> selected, level |-> level, action |-> action]

_evaluate_candidates(ranked, type, ambiguous) ==
  IF ranked = << >>
  THEN Choice(NoCandidate, "LOW", IF type = "UNKNOWN" THEN "REQUIRE_FURTHER_ANALYSIS" ELSE "DO_NOT_HEAL")
  ELSE LET top == ranked[1]
       IN IF top.confidence < MinimumThreshold THEN Choice(NoCandidate, "LOW", "REQUIRE_FURTHER_ANALYSIS")
          ELSE IF ambiguous /\ top.confidence >= MediumThreshold
          THEN Choice(top, _classify_confidence(top.confidence), "REQUIRE_FURTHER_ANALYSIS")
          ELSE Choice(top, _classify_confidence(top.confidence), _determine_action_for_confidence(top.confidence))

_determine_decision(choice, ambiguous) ==
  CASE choice.action = "DO_NOT_HEAL" -> "DO_NOT_HEAL"
    [] ambiguous \/ choice.action = "REQUIRE_FURTHER_ANALYSIS" -> "REQUIRE_FURTHER_ANALYSIS"
    [] OTHER -> CASE choice.level = "HIGH" -> "RECOMMEND_HEALING"
                  [] choice.level = "MEDIUM" -> "REQUIRE_VALIDATION"
                  [] OTHER -> "REQUIRE_FURTHER_ANALYSIS"

-----------------------------------------------------------------------------
(* LLMHealingEvaluator.  An answer is a selector (<< >> when it is missing or *)
(* empty) and a confidence, any number.                                       *)

Clamped(n) == IF n < 0 THEN 0 ELSE IF n > 100 THEN 100 ELSE n

_validate_schema(answer) == answer.selected # << >>

_validate_grounding(answer, ranked) == \E i \in DOMAIN ranked : ranked[i].selector = answer.selected

(* The candidate the model chose, with the model's confidence instead of its *)
(* score; NoCandidate when the answer is refused.                            *)
_attempt_llm_disambiguation(ranked, answer) ==
  LET named == {i \in DOMAIN ranked : ranked[i].selector = answer.selected}
  IN IF ~(_validate_schema(answer) /\ _validate_grounding(answer, ranked)) THEN NoCandidate
     ELSE [ranked[CHOOSE i \in named : \A j \in named : i <= j] EXCEPT !.confidence = Clamped(answer.confidence)]

NoAnswer == [selected |-> << >>, confidence |-> 0]

(* Candidates, enriched, scored and ranked; none for a failure that is not    *)
(* the selector's fault (_check_safety_rules).                                *)
RankedFor(type, known, previous, current, history, of) ==
  IF type \in _NON_HEALABLE_FAILURES THEN << >>
  ELSE rank_candidates(_enrich_with_healing_evidence(
         generate_candidates(known, previous, current, history, of), of))

(* The model is asked only about candidates that are too close. *)
AsksModel(type, ranked) ==
  _detect_ambiguity(ranked) /\ _evaluate_candidates(ranked, type, TRUE).action = "REQUIRE_FURTHER_ANALYSIS"

(* generate_recommendation, given the model's answer; NoAnswer when none was *)
(* asked, the call failed or the answer was malformed.                       *)
generate_recommendation(type, ranked, answer) ==
  LET ambiguous == _detect_ambiguity(ranked)
      model     == IF AsksModel(type, ranked) THEN _attempt_llm_disambiguation(ranked, answer) ELSE NoCandidate
      resolved  == model # NoCandidate
      choice    == IF type \in _NON_HEALABLE_FAILURES THEN Choice(NoCandidate, "HIGH", "DO_NOT_HEAL")
                   ELSE IF resolved
                   THEN Choice(model, _classify_confidence(model.confidence),
                               _determine_action_for_confidence(model.confidence))
                   ELSE _evaluate_candidates(ranked, type, ambiguous)
  IN [selected |-> choice.selected, action |-> choice.action,
      decision |-> _determine_decision(choice, ambiguous /\ ~resolved)]
=============================================================================
