----------------------------- MODULE AgentEnums -----------------------------
(* The enumerations the agents share (agents/schemas/enums.py). *)

FailureTypes == {"SELECTOR_CHANGED", "ELEMENT_NOT_FOUND", "ELEMENT_NOT_INTERACTABLE",
                 "ASSERTION_FAILURE", "TIMEOUT", "NAVIGATION_FAILURE",
                 "NETWORK_ERROR", "APPLICATION_ERROR", "UNKNOWN"}

Levels == {"HIGH", "MEDIUM", "LOW"}

(* HealingAction and HealingDecision. *)
HealingActions == {"TRY_REPLACEMENT_SELECTOR", "SEARCH_CURRENT_UI", "REQUIRE_FURTHER_ANALYSIS", "DO_NOT_HEAL"}
HealingDecisions == {"RECOMMEND_HEALING", "REQUIRE_VALIDATION", "REQUIRE_FURTHER_ANALYSIS", "DO_NOT_HEAL"}
=============================================================================
