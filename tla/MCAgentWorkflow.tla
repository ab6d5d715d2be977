--------------------------- MODULE MCAgentWorkflow ---------------------------
(* Instances of AgentWorkflow for TLC. *)
EXTENDS AgentWorkflow, TLC

CONSTANTS
  Scores,           \* the confidences candidates come with
  MaxCandidates     \* bound: candidates per ranking

(* Highest confidence first, as rank_candidates sorts them.  A selector found *)
(* in several healing records is listed several times, with one confidence.   *)
MCRankings ==
  UNION {{r \in [1..n -> [selector : Selectors, confidence : Scores]] :
            \A i, j \in 1..n : /\ i < j => r[i].confidence >= r[j].confidence
                               /\ r[i].selector = r[j].selector => r[i] = r[j]}
         : n \in 0..MaxCandidates}

NoOverrides == << >>

(* A failure type both healable and retryable (more often than the platform *)
(* re-runs a test), which no default is.                                     *)
HealableTimeout ==
  [t \in {"TIMEOUT"} |-> [healable |-> TRUE, retryable |-> TRUE, max_retries |-> 5]]

(* No evidence retriever (as create_default_orchestrator leaves it). *)
NoHistory == [s \in Selectors |-> [attempts |-> 0, successes |-> 0]]

(* Replacements that mostly failed before. *)
PoorHistory == [s \in Selectors |-> [attempts |-> 4, successes |-> 1]]

Symmetry == Permutations(Calls) \union Permutations(Selectors)
=============================================================================
