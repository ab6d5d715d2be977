--------------------------- MODULE RecoveryPolicy ---------------------------
(***************************************************************************)
(* The recovery policy of the agent layer                                  *)
(* (agents/orchestration/recovery_policy.py): what to do about a failed    *)
(* test, given the kind of failure, the ranked replacement selectors, how  *)
(* many heals and retries were spent and which selectors were tried.       *)
(*                                                                         *)
(* A decision is described by a relation on its inputs and the decision d  *)
(* rather than computed, so that "the best eligible candidate" is said as  *)
(* "no eligible candidate is ranked before it".  Scores, thresholds and    *)
(* margins are integers in hundredths.  Reasons and evidence texts are     *)
(* left out.                                                               *)
(***************************************************************************)
EXTENDS Integers, Sequences, AgentEnums

CONSTANTS
  Selectors,        \* the replacement selectors a page can offer
  NoSelector,       \* "no candidate selected"
  Overrides,        \* config.failure_policies: some failure types' own policy
  MaxHealing,       \* max_healing_attempts
  MaxRetries,       \* max_retries, for all failure types
  AllowRetry,       \* allow_retry
  AllowMedium,      \* allow_medium_confidence_healing
  MinScore,         \* min_candidate_score
  MinHealing,       \* min_healing_confidence
  Margin,           \* ambiguity_margin
  BoostWeight,      \* history_boost_weight
  History           \* what the evidence retriever knows of each replacement

FailureTypePolicy == [healable : BOOLEAN, retryable : BOOLEAN, max_retries : Nat]

ASSUME RecoveryPolicyAssumption ==
  /\ NoSelector \notin Selectors
  /\ DOMAIN Overrides \subseteq FailureTypes
  /\ \A t \in DOMAIN Overrides : Overrides[t] \in FailureTypePolicy
  /\ MaxHealing \in Nat \ {0}
  /\ MaxRetries \in Nat
  /\ AllowRetry \in BOOLEAN
  /\ AllowMedium \in BOOLEAN
  /\ {MinScore, MinHealing, Margin, BoostWeight} \subseteq 0..100
  /\ History \in [Selectors -> [attempts : Nat, successes : Nat]]

RecoveryActions == {"TRY_HEALING", "RETRY", "DO_NOT_HEAL", "REQUIRE_FURTHER_ANALYSIS", "ABORT"}

Decide(action) == [action |-> action, selected |-> NoSelector]

(* Only a decision to heal selects a candidate. *)
Decisions ==
  [action : {"TRY_HEALING"}, selected : Selectors]
    \union {Decide(a) : a \in RecoveryActions \ {"TRY_HEALING"}}

-----------------------------------------------------------------------------
(* The failure-type policies: the defaults, replaced where the config says. *)

Healable == {"SELECTOR_CHANGED", "ELEMENT_NOT_FOUND"}
Transient == {"ELEMENT_NOT_INTERACTABLE", "TIMEOUT", "NAVIGATION_FAILURE"}

DefaultFailurePolicies ==
  [t \in FailureTypes |-> [healable    |-> t \in Healable,
                           retryable   |-> t \in Transient,
                           max_retries |-> IF t \in Transient THEN 2 ELSE 0]]

get_failure_policy(t) ==
  IF t \in DOMAIN Overrides THEN Overrides[t] ELSE DefaultFailurePolicies[t]

(* The limits of the type and of the whole policy both apply. *)
MayRetry(policy, retries) ==
  /\ policy.retryable
  /\ AllowRetry
  /\ retries < policy.max_retries
  /\ retries < MaxRetries

-----------------------------------------------------------------------------
(* Choosing among the ranked candidates (positions in the ranking). *)

\* mutant: a selector that was already tried stays eligible
EligibleAgain(ranked, attempted) ==
  {i \in DOMAIN ranked : ranked[i].confidence >= MinScore}

_filter_eligible_candidates(ranked, attempted) ==
  {i \in DOMAIN ranked : /\ ranked[i].selector \notin attempted
                         /\ ranked[i].confidence >= MinScore}

RankedFirst(i, S) == i \in S /\ \A j \in S : i <= j

(* The confidence adjusted by the replacement's own history, times the     *)
(* number of recorded attempts (which keeps it an integer): boosted by the *)
(* success rate up to 100, then cut by 20 for a poor record.               *)
AdjustedByHistory(c, h) ==
  LET sum     == c.confidence * h.attempts + h.successes * BoostWeight
      boosted == IF sum > 100 * h.attempts THEN 100 * h.attempts ELSE sum
      cut     == boosted - 20 * h.attempts
  IN IF h.attempts >= 3 /\ 10 * h.successes < 3 * h.attempts
     THEN IF cut < 0 THEN 0 ELSE cut
     ELSE boosted

Reaches(c, threshold) ==
  LET h == History[c.selector]
  IN IF h.attempts = 0 THEN c.confidence >= threshold
                       ELSE AdjustedByHistory(c, h) >= threshold * h.attempts

\* mutant: a runner-up as good as the best is no obstacle
NeverAmbiguous(ranked, best, others) == FALSE

(* The runner-up is too close to the best (by raw confidence). *)
Ambiguous(ranked, best, others) ==
  \E second \in others :
    /\ RankedFirst(second, others)
    /\ ranked[best].confidence - ranked[second].confidence <= Margin

(* High confidence, or at least medium when the config accepts it. *)
Trusted(c) ==
  \/ Reaches(c, MinHealing)
  \/ AllowMedium /\ Reaches(c, MinScore)

_evaluate_healing(ranked, eligible, d) ==
  \E best \in eligible :
    /\ RankedFirst(best, eligible)
    /\ d = IF Ambiguous(ranked, best, eligible \ {best})
           THEN Decide("REQUIRE_FURTHER_ANALYSIS")
           ELSE IF Trusted(ranked[best])
           THEN [action |-> "TRY_HEALING", selected |-> ranked[best].selector]
           ELSE Decide("DO_NOT_HEAL")

-----------------------------------------------------------------------------
(* The two entry points. *)

(* After the failure was analysed and candidates were ranked. *)
evaluate(type, ranked, count, retries, attempted, d) ==
  LET policy   == get_failure_policy(type)
      eligible == _filter_eligible_candidates(ranked, attempted)
  IN IF count >= MaxHealing THEN d = Decide("ABORT")
     ELSE IF MayRetry(policy, retries) THEN d = Decide("RETRY")
     ELSE IF policy.retryable /\ AllowRetry /\ ~policy.healable
     THEN d = Decide("REQUIRE_FURTHER_ANALYSIS")
     ELSE IF ~policy.healable \/ eligible = {} THEN d = Decide("DO_NOT_HEAL")
     ELSE _evaluate_healing(ranked, eligible, d)

(* After a heal failed its validation: the next candidate, or stop. *)
evaluate_continuation(ranked, count, attempted, d) ==
  LET eligible == _filter_eligible_candidates(ranked, attempted)
  IN IF count >= MaxHealing \/ eligible = {} THEN d = Decide("ABORT")
     ELSE _evaluate_healing(ranked, eligible, d)
=============================================================================
