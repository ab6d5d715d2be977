------------------------- MODULE AgentWorkflowProofs -------------------------
(***************************************************************************)
(* AgentWorkflow for every number of calls, executions, selectors and      *)
(* faults, every ranking and every setting of the policy: the types, the   *)
(* limits on heals and browser runs, that no call validates a selector     *)
(* twice or on a guess, that no transition is refused, and that the record *)
(* of an execution says what was seen in the browser.                      *)
(***************************************************************************)
EXTENDS AgentWorkflow, WellFoundedInduction, TLAPS

(* A workflow state within the limits. *)
Good(st) == st \in AgentStates /\ st.count <= MaxHealing /\ st.retries <= MaxRetries

(* A call's record k and the set t of selectors it validated: while it is   *)
(* in flight its browser runs are the first one, the retries and the heals, *)
(* and its workflow state remembers every selector it validated.            *)
CallOK(k, t) ==
  /\ Good(k.state)
  /\ k.pc \in Flying => /\ k.runs = 1 + k.retries + k.tries
                        /\ k.retries <= k.state.retries
                        /\ k.retries <= MaxRetryRuns
                        /\ k.tries <= MaxHealing
                        /\ t \subseteq k.state.attempted
  /\ k.pc \in {"run", "analyze", "candidates"} => k.tries = 0
  /\ k.pc = "validate" => k.state.selected \in Selectors
  /\ k.pc = "idle" => t = {}
  /\ k.runs <= 1 + MaxRetries + MaxHealing
  /\ k.runs <= 1 + MaxRetryRuns + MaxHealing

IInv ==
  /\ TypeOK
  /\ \A e \in Executions : Good(workflows[e])
  /\ \A c \in Calls : CallOK(calls[c], tried[c])

-----------------------------------------------------------------------------
(* Workflow states. *)

(* A transition changes the step and nothing else. *)
LEMMA TransitionFrame ==
  ASSUME NEW st \in AgentStates, NEW target \in Steps
  PROVE  /\ _transition(st, target) \in AgentStates
         /\ _transition(st, target).step \in {target, "INVALID"}
         /\ _transition(st, target).count = st.count
         /\ _transition(st, target).retries = st.retries
         /\ _transition(st, target).attempted = st.attempted
         /\ _transition(st, target).ranked = st.ranked
         /\ _transition(st, target).selected = st.selected
         /\ _transition(st, target).decision = st.decision
<1>1. "INVALID" \in Steps
  BY DEF Steps, ValidTransitions
<1>2. PICK s \in Steps : s \in {target, "INVALID"} /\ _transition(st, target) = [st EXCEPT !.step = s]
  BY <1>1 DEF _transition
<1> QED
  BY <1>2 DEF AgentStates

LEMMA StepNames ==
  /\ "EXECUTION_PENDING" \in Steps
  /\ "EXECUTION_SUCCESS" \in Steps
  /\ "FAILURE_DETECTED" \in Steps
  /\ "ANALYZING_FAILURE" \in Steps
  /\ "GENERATING_CANDIDATES" \in Steps
  /\ "RANKING_CANDIDATES" \in Steps
  /\ "DECIDING_HEALING" \in Steps
  /\ "RETRYING" \in Steps
  /\ "HEALING_PENDING_VALIDATION" \in Steps
  /\ "HEALING_SUCCEEDED" \in Steps
  /\ "HEALING_FAILED" \in Steps
  /\ "COMPLETED" \in Steps
  /\ "ABORTED" \in Steps
BY DEF Steps, ValidTransitions

LEMMA TransitionGood ==
  ASSUME NEW st, Good(st), NEW target \in Steps
  PROVE  /\ Good(_transition(st, target))
         /\ _transition(st, target).step \in {target, "INVALID"}
         /\ _transition(st, target).count = st.count
         /\ _transition(st, target).retries = st.retries
         /\ _transition(st, target).attempted = st.attempted
         /\ _transition(st, target).ranked = st.ranked
         /\ _transition(st, target).selected = st.selected
BY TransitionFrame DEF Good

LEMMA NewStateGood == Good(NewState) /\ NewState.count = 0 /\ NewState.attempted = {}
BY StepNames, RecoveryPolicyAssumption DEF Good, NewState, AgentStates, FailureTypes

LEMMA SucceededGood ==
  ASSUME NEW st, Good(st)
  PROVE  Good(Succeeded(st))
<1>1. /\ Good(_transition(st, "EXECUTION_SUCCESS"))
      /\ _transition(st, "EXECUTION_SUCCESS").retries = st.retries
      /\ _transition(st, "EXECUTION_SUCCESS").attempted = st.attempted
  BY StepNames, TransitionGood
<1> QED
  BY <1>1, StepNames, TransitionGood DEF Succeeded

LEMMA HealedGood ==
  ASSUME NEW st, Good(st)
  PROVE  Good(Healed(st))
<1>1. /\ Good(_transition(st, "HEALING_SUCCEEDED"))
      /\ _transition(st, "HEALING_SUCCEEDED").retries = st.retries
      /\ _transition(st, "HEALING_SUCCEEDED").attempted = st.attempted
  BY StepNames, TransitionGood
<1> QED
  BY <1>1, StepNames, TransitionGood DEF Healed

LEMMA DetectedGood ==
  ASSUME NEW st, Good(st)
  PROVE  /\ Good(Detected(st))
         /\ Detected(st).retries = st.retries
         /\ Detected(st).attempted = st.attempted
<1>1. /\ Good(_transition(st, "FAILURE_DETECTED"))
      /\ _transition(st, "FAILURE_DETECTED").retries = st.retries
      /\ _transition(st, "FAILURE_DETECTED").attempted = st.attempted
  BY StepNames, TransitionGood
<1> QED
  BY <1>1, StepNames, TransitionGood DEF Detected

LEMMA RankedGood ==
  ASSUME NEW st, Good(st), NEW ranked \in Seq(Candidates)
  PROVE  /\ Good(Ranked(st, ranked))
         /\ Ranked(st, ranked).count = st.count
         /\ Ranked(st, ranked).retries = st.retries
         /\ Ranked(st, ranked).attempted = st.attempted
<1> DEFINE s == [st EXCEPT !.ranked = ranked]
<1>1. Good(s) /\ s.count = st.count /\ s.retries = st.retries /\ s.attempted = st.attempted
  BY DEF Good, AgentStates
<1>2. Ranked(st, ranked) = _transition(_transition(s, "RANKING_CANDIDATES"), "DECIDING_HEALING")
  BY DEF Ranked
<1> HIDE DEF s
<1> DEFINE n == _transition(s, "RANKING_CANDIDATES")
<1>3. Good(n) /\ n.count = s.count /\ n.retries = s.retries /\ n.attempted = s.attempted
  BY <1>1, StepNames, TransitionGood
<1> HIDE DEF n
<1>4. Ranked(st, ranked) = _transition(n, "DECIDING_HEALING")
  BY <1>2 DEF n
<1>5. /\ Good(_transition(n, "DECIDING_HEALING"))
      /\ _transition(n, "DECIDING_HEALING").count = n.count
      /\ _transition(n, "DECIDING_HEALING").retries = n.retries
      /\ _transition(n, "DECIDING_HEALING").attempted = n.attempted
  BY <1>3, StepNames, TransitionGood
<1> QED
  BY <1>1, <1>3, <1>4, <1>5

LEMMA FailedGood ==
  ASSUME NEW st, Good(st), st.selected \in Selectors
  PROVE  /\ Good(Failed(st))
         /\ st.attempted \subseteq Failed(st).attempted
         /\ Failed(st).count = st.count
         /\ Failed(st).retries = st.retries
         /\ Failed(st).ranked = st.ranked
BY DEF Good, AgentStates, Failed

(* A candidate is only sent while the limit is not reached. *)
LEMMA SentGood ==
  ASSUME NEW st, Good(st), st.count < MaxHealing,
         NEW d \in Decisions, d.selected \in Selectors
  PROVE  /\ Good(Sent(st, d))
         /\ Sent(st, d).retries = st.retries
         /\ Sent(st, d).attempted = st.attempted \union {d.selected}
         /\ Sent(st, d).selected = d.selected
<1> DEFINE s == [st EXCEPT !.attempted = @ \union {d.selected}, !.count = @ + 1,
                           !.selected = d.selected, !.decision = d.action]
<1>1. st \in AgentStates /\ st.retries <= MaxRetries /\ st.count + 1 <= MaxHealing
  BY RecoveryPolicyAssumption DEF Good, AgentStates
<1>2. d.selected \in Selectors /\ d.action \in RecoveryActions
  BY DEF Decisions, Decide, RecoveryActions
<1>3. /\ s \in AgentStates
      /\ s.count = st.count + 1
      /\ s.retries = st.retries
      /\ s.attempted = st.attempted \union {d.selected}
      /\ s.selected = d.selected
  <2>1. st.attempted \union {d.selected} \in SUBSET Selectors /\ st.count + 1 \in Nat
    BY <1>1, <1>2 DEF AgentStates
  <2> QED
    BY <1>1, <1>2, <2>1 DEF AgentStates
<1>4. Sent(st, d) = _transition(s, "HEALING_PENDING_VALIDATION")
  BY DEF Sent
<1> HIDE DEF s
<1>5. Good(s)
  BY <1>1, <1>3 DEF Good
<1> DEFINE n == _transition(s, "HEALING_PENDING_VALIDATION")
<1>6. Good(n) /\ n.retries = s.retries /\ n.attempted = s.attempted /\ n.selected = s.selected
  BY <1>5, StepNames, TransitionGood
<1> HIDE DEF n
<1>7. Sent(st, d) = n
  BY <1>4 DEF n
<1> QED
  BY <1>3, <1>6, <1>7

LEMMA DecidedGood ==
  ASSUME NEW st, Good(st), NEW action \in RecoveryActions
  PROVE  Good([st EXCEPT !.decision = action])
BY DEF Good, AgentStates

(* Every decision but TRY_HEALING ends the workflow within the limits. *)
LEMMA StoppedGood ==
  ASSUME NEW st, Good(st), NEW d \in Decisions, d.action # "TRY_HEALING"
  PROVE  Good(Routed(st, d)) /\ Good(_try_next_candidate(st, d))
<1>1. d.action \in RecoveryActions
  BY DEF Decisions, Decide, RecoveryActions
<1>2. Good([st EXCEPT !.decision = d.action])
  BY <1>1, DecidedGood
<1> DEFINE s == [st EXCEPT !.decision = d.action]
<1>3. _try_next_candidate(st, d) = _transition(_transition(s, "HEALING_FAILED"), "COMPLETED")
  BY DEF _try_next_candidate
<1>4. \E t \in {"ABORTED", "COMPLETED"} : Routed(st, d) = _transition(s, t)
  BY DEF Routed
<1> HIDE DEF s
<1>5. Good(s)
  BY <1>2 DEF s
<1>6. Good(_transition(s, "HEALING_FAILED"))
  BY <1>5, StepNames, TransitionGood
<1>7. Good(_try_next_candidate(st, d))
  BY <1>3, <1>6, StepNames, TransitionGood
<1>8. Good(Routed(st, d))
  <2>1. Good(_transition(s, "ABORTED")) /\ Good(_transition(s, "COMPLETED"))
    BY <1>5, StepNames, TransitionGood
  <2> QED
    BY <1>4, <2>1
<1> QED
  BY <1>7, <1>8

LEMMA TriedGood ==
  ASSUME NEW st, NEW d, d.action = "TRY_HEALING"
  PROVE  Routed(st, d) = Sent(st, d) /\ _try_next_candidate(st, d) = Sent(st, d)
BY DEF Routed, _try_next_candidate

(* Classifying a failure keeps the limits; only a retry, which counts, goes *)
(* back to EXECUTION_PENDING.                                               *)
LEMMA ClassifiedGood ==
  ASSUME NEW st, Good(st), NEW type \in FailureTypes
  PROVE  /\ Good(Classified(st, type))
         /\ Classified(st, type).attempted = st.attempted
         /\ Classified(st, type).retries >= st.retries
         /\ Classified(st, type).step = "EXECUTION_PENDING"
              => Classified(st, type).retries = st.retries + 1
<1> DEFINE policy == get_failure_policy(type)
           known == [st EXCEPT !.type = type]
<1>1. known \in AgentStates /\ known.count = st.count /\ known.retries = st.retries
                            /\ known.attempted = st.attempted
  BY DEF Good, AgentStates
<1>2. Good(known)
  BY <1>1 DEF Good
<1> DEFINE Same(n) == Good(n) /\ n.retries = st.retries /\ n.attempted = st.attempted
<1>3. ASSUME NEW a \in RecoveryActions
      PROVE  Same([known EXCEPT !.decision = a])
  BY <1>1, <1>2 DEF Good, AgentStates
<1>4. st.retries \in Nat
  BY DEF Good, AgentStates
<1>5. ASSUME NEW n, Same(n), NEW t \in Steps, t # "EXECUTION_PENDING",
             Classified(st, type) = _transition(n, t)
      PROVE  /\ Same(Classified(st, type))
             /\ Classified(st, type).step # "EXECUTION_PENDING"
  BY <1>5, TransitionGood
<1>6. CASE st.count >= MaxHealing
  <2>1. Classified(st, type) = _transition([known EXCEPT !.decision = "ABORT"], "ABORTED")
    BY <1>6 DEF Classified
  <2>2. "ABORT" \in RecoveryActions
    BY DEF RecoveryActions
  <2>8. Same([known EXCEPT !.decision = "ABORT"])
    BY <1>3, <2>2
  <2>9. Same(Classified(st, type)) /\ Classified(st, type).step # "EXECUTION_PENDING"
    BY <1>5, <2>1, <2>8, StepNames
  <2> QED
    BY <1>4, <2>9
<1>7. CASE ~(st.count >= MaxHealing) /\ MayRetry(policy, st.retries)
  <2> DEFINE s == [known EXCEPT !.decision = "RETRY", !.retries = @ + 1]
  <2>1. Classified(st, type) = _transition(_transition(s, "RETRYING"), "EXECUTION_PENDING")
    BY <1>7 DEF Classified
  <2>2. /\ s \in AgentStates
        /\ s.count = st.count
        /\ s.retries = st.retries + 1
        /\ s.attempted = st.attempted
    <3>1. "RETRY" \in RecoveryActions
      BY DEF RecoveryActions
    <3>2. known \in AgentStates /\ known.retries + 1 \in Nat
      BY <1>1, <1>4
    <3> HIDE DEF known
    <3>3. /\ s \in AgentStates
          /\ s.count = known.count
          /\ s.retries = known.retries + 1
          /\ s.attempted = known.attempted
      BY <3>1, <3>2 DEF AgentStates
    <3> QED
      BY <1>1, <3>3
  <2>3. st.retries + 1 <= MaxRetries
    BY <1>4, <1>7, RecoveryPolicyAssumption DEF MayRetry
  <2> HIDE DEF s
  <2>4. Good(s)
    BY <2>2, <2>3 DEF Good
  <2> DEFINE n == _transition(s, "RETRYING")
  <2>5. Good(n) /\ n.retries = s.retries /\ n.attempted = s.attempted
    BY <2>4, StepNames, TransitionGood
  <2>6. Classified(st, type) = _transition(n, "EXECUTION_PENDING")
    BY <2>1
  <2> HIDE DEF n
  <2> DEFINE m == _transition(n, "EXECUTION_PENDING")
  <2>7. Good(m) /\ m.retries = n.retries /\ m.attempted = n.attempted
    BY <2>5, StepNames, TransitionGood
  <2>8. Classified(st, type) = m
    BY <2>6
  <2> HIDE DEF m
  <2> QED
    BY <1>4, <2>2, <2>5, <2>7, <2>8
<1>8. CASE ~(st.count >= MaxHealing) /\ ~MayRetry(policy, st.retries) /\ ~policy.healable
  <2>1. PICK a \in RecoveryActions :
          Classified(st, type) = _transition([known EXCEPT !.decision = a], "COMPLETED")
    BY <1>8 DEF Classified, RecoveryActions
  <2>8. Same([known EXCEPT !.decision = a])
    BY <1>3
  <2>9. Same(Classified(st, type)) /\ Classified(st, type).step # "EXECUTION_PENDING"
    BY <1>5, <2>1, <2>8, StepNames
  <2> QED
    BY <1>4, <2>9
<1>9. CASE ~(st.count >= MaxHealing) /\ ~MayRetry(policy, st.retries) /\ policy.healable
  <2>1. Classified(st, type) = _transition(known, "GENERATING_CANDIDATES")
    BY <1>9 DEF Classified
  <2>8. Same(known)
    BY <1>1, <1>2
  <2>9. Same(Classified(st, type)) /\ Classified(st, type).step # "EXECUTION_PENDING"
    BY <1>5, <2>1, <2>8, StepNames
  <2> QED
    BY <1>4, <2>9
<1> QED
  BY <1>6, <1>7, <1>8, <1>9

-----------------------------------------------------------------------------
(* The policy: a selector is offered only under the limit, and only one    *)
(* that was not attempted.                                                 *)

LEMMA OfferIsNew ==
  ASSUME NEW ranked \in Seq(Candidates), NEW attempted, NEW d,
         _evaluate_healing(ranked, _filter_eligible_candidates(ranked, attempted), d),
         d.action = "TRY_HEALING"
  PROVE  d.selected \in Selectors /\ d.selected \notin attempted
<1>1. PICK best \in _filter_eligible_candidates(ranked, attempted) :
        d = [action |-> "TRY_HEALING", selected |-> ranked[best].selector]
  BY DEF _evaluate_healing, Decide
<1>2. best \in DOMAIN ranked /\ ranked[best].selector \notin attempted
  BY DEF _filter_eligible_candidates
<1>3. ranked[best] \in Candidates
  BY <1>2
<1> QED
  BY <1>1, <1>2, <1>3 DEF Candidates

LEMMA EvaluateOffer ==
  ASSUME NEW type, NEW ranked \in Seq(Candidates), NEW count \in Nat, NEW retries, NEW attempted, NEW d,
         evaluate(type, ranked, count, retries, attempted, d), d.action = "TRY_HEALING"
  PROVE  count < MaxHealing /\ d.selected \in Selectors /\ d.selected \notin attempted
<1>1. \A a : a # "TRY_HEALING" => d # Decide(a)
  BY DEF Decide
<1>2. ~(count >= MaxHealing) /\ _evaluate_healing(ranked, _filter_eligible_candidates(ranked, attempted), d)
  BY <1>1 DEF evaluate
<1>3. count < MaxHealing
  BY <1>2, RecoveryPolicyAssumption
<1> QED
  BY <1>2, <1>3, OfferIsNew

LEMMA ContinuationOffer ==
  ASSUME NEW ranked \in Seq(Candidates), NEW count \in Nat, NEW attempted, NEW d,
         evaluate_continuation(ranked, count, attempted, d), d.action = "TRY_HEALING"
  PROVE  count < MaxHealing /\ d.selected \in Selectors /\ d.selected \notin attempted
<1>1. d # Decide("ABORT")
  BY DEF Decide
<1>2. ~(count >= MaxHealing) /\ _evaluate_healing(ranked, _filter_eligible_candidates(ranked, attempted), d)
  BY <1>1 DEF evaluate_continuation
<1>3. count < MaxHealing
  BY <1>2, RecoveryPolicyAssumption
<1> QED
  BY <1>2, <1>3, OfferIsNew

-----------------------------------------------------------------------------
(* A step of one call keeps the invariant when the call's new record, the   *)
(* stored state and the execution's status are as they should be.           *)
LEMMA CallStep ==
  ASSUME IInv, NEW c \in Calls, NEW k \in CallRecords, NEW t \in SUBSET Selectors,
         CallOK(k, t),
         calls' = [calls EXCEPT ![c] = k],
         tried' = [tried EXCEPT ![c] = t],
         status' \in [Executions -> Statuses],
         workflows' \in [Executions -> AgentStates],
         \A e \in Executions : Good(workflows'[e]),
         faults' \in Nat
  PROVE  IInv'
<1>1. calls' \in [Calls -> CallRecords] /\ tried' \in [Calls -> SUBSET Selectors]
  BY DEF IInv, TypeOK
<1>2. TypeOK'
  BY <1>1 DEF TypeOK
<1>3. ASSUME NEW x \in Calls
      PROVE  CallOK(calls'[x], tried'[x])
  <2>1. CASE x = c
    <3>1. calls'[x] = k /\ tried'[x] = t
      BY <2>1 DEF IInv, TypeOK
    <3> QED
      BY <3>1
  <2>2. CASE x # c
    <3>1. calls'[x] = calls[x] /\ tried'[x] = tried[x]
      BY <2>2 DEF IInv, TypeOK
    <3> QED
      BY <3>1 DEF IInv
  <2> QED
    BY <2>1, <2>2
<1> QED
  BY <1>2, <1>3 DEF IInv

(* The stored states stay within the limits when the call stores one. *)
LEMMA StoreStep ==
  ASSUME IInv, NEW c \in Calls, NEW st, Good(st), Store(c, st)
  PROVE  workflows' \in [Executions -> AgentStates] /\ \A e \in Executions : Good(workflows'[e])
<1>1. st \in AgentStates
  BY DEF Good
<1>2. workflows \in [Executions -> AgentStates] /\ \A e \in Executions : Good(workflows[e])
  BY DEF IInv, TypeOK
<1>3. workflows' = [workflows EXCEPT ![calls[c].exec] = st]
  BY DEF Store
<1> QED
  BY <1>1, <1>2, <1>3

LEMMA StatusStep ==
  ASSUME IInv, NEW c \in Calls, NEW s \in Statuses,
         status' = [status EXCEPT ![calls[c].exec] = s]
  PROVE  status' \in [Executions -> Statuses]
BY DEF IInv, TypeOK

Lasts == {"none", "passed", "healed", "failed"}

(* What the invariant says of one call, and of what is left alone. *)
LEMMA CallFacts ==
  ASSUME IInv, NEW c \in Calls
  PROVE  /\ calls[c] \in CallRecords
         /\ tried[c] \in SUBSET Selectors
         /\ CallOK(calls[c], tried[c])
         /\ Good(calls[c].state)
         /\ calls[c].state \in AgentStates
         /\ tried = [tried EXCEPT ![c] = tried[c]]
         /\ faults \in Nat
         /\ status \in [Executions -> Statuses]
         /\ workflows \in [Executions -> AgentStates]
         /\ \A e \in Executions : Good(workflows[e])
BY DEF IInv, TypeOK, CallOK, Good

LEMMA CallNumbers ==
  ASSUME NEW k \in CallRecords
  PROVE  /\ k.runs \in Nat
         /\ k.retries \in Nat
         /\ k.tries \in Nat
         /\ k.runs + 1 \in Nat
         /\ k.retries + 1 \in Nat
         /\ k.tries + 1 \in Nat
         /\ k.state.retries \in Nat
BY DEF CallRecords, AgentStates

(* One more heal within its limit keeps the runs within theirs. *)
LEMMA OneMoreHeal ==
  ASSUME NEW runs \in Nat, NEW retries \in Nat, NEW tries \in Nat,
         NEW bound \in Nat, NEW heals \in Nat,
         runs = 1 + retries + tries, retries <= bound, tries < heals
  PROVE  /\ runs + 1 = 1 + retries + (tries + 1)
         /\ tries + 1 <= heals
         /\ runs + 1 <= 1 + bound + heals
OBVIOUS

LEMMA Limits == MaxHealing \in Nat /\ MaxRetries \in Nat /\ MaxRetryRuns \in Nat
BY RecoveryPolicyAssumption, AgentWorkflowAssumption

LEMMA StateNumbers ==
  ASSUME NEW st, Good(st)
  PROVE  st \in AgentStates /\ st.retries \in Nat /\ st.retries <= MaxRetries
BY DEF Good, AgentStates

(* A call that ends, or is dropped, keeps its count of browser runs. *)
LEMMA EndsOK ==
  ASSUME NEW k \in CallRecords, NEW t, CallOK(k, t), NEW p \in {"done", "lost"}, NEW l \in Lasts
  PROVE  LET n == [k EXCEPT !.pc = p, !.state = NewState, !.last = l]
         IN  n \in CallRecords /\ CallOK(n, t)
<1> DEFINE n == [k EXCEPT !.pc = p, !.state = NewState, !.last = l]
<1>1. Good(NewState) /\ NewState \in AgentStates
  BY NewStateGood DEF Good
<1>2. n \in CallRecords /\ n.pc = p /\ n.state = NewState /\ n.runs = k.runs
  BY <1>1 DEF CallRecords, Lasts
<1> HIDE DEF n
<1>3. CallOK(n, t)
  BY <1>1, <1>2 DEF CallOK, Flying
<1> QED
  BY <1>2, <1>3 DEF n

(* Call c ends with pc p, its last browser result being l. *)
Ended(c, p, l) == calls' = [calls EXCEPT ![c] = [calls[c] EXCEPT !.pc = p, !.state = NewState, !.last = l]]

(* The steps that end a call. *)
LEMMA EndStep ==
  ASSUME IInv, NEW c \in Calls, NEW p \in {"done", "lost"}, NEW l \in Lasts,
         Ended(c, p, l),
         tried' = tried,
         status' \in [Executions -> Statuses],
         workflows' \in [Executions -> AgentStates],
         \A e \in Executions : Good(workflows'[e]),
         faults' \in Nat
  PROVE  IInv'
<1> DEFINE n == [calls[c] EXCEPT !.pc = p, !.state = NewState, !.last = l]
<1>1. n \in CallRecords /\ CallOK(n, tried[c])
  BY CallFacts, EndsOK
<1>2. tried' = [tried EXCEPT ![c] = tried[c]] /\ tried[c] \in SUBSET Selectors
  BY CallFacts
<1>3. calls' = [calls EXCEPT ![c] = n]
  BY DEF Ended
<1> HIDE DEF n
<1> QED
  BY <1>1, <1>2, <1>3, CallStep

(* The update End makes, written as one new record. *)
LEMMA EndRecord ==
  ASSUME IInv, NEW c \in Calls, NEW p,
         calls' = [calls EXCEPT ![c].pc = p, ![c].state = NewState]
  PROVE  Ended(c, p, calls[c].last) /\ calls[c].last \in Lasts
<1>1. calls[c] \in CallRecords /\ calls \in [Calls -> CallRecords]
  BY CallFacts DEF IInv, TypeOK
<1> QED
  BY <1>1 DEF CallRecords, Lasts, Ended

LEMMA EndLastRecord ==
  ASSUME IInv, NEW c \in Calls, NEW p, NEW l,
         calls' = [calls EXCEPT ![c].pc = p, ![c].last = l, ![c].state = NewState]
  PROVE  Ended(c, p, l)
<1>1. calls[c] \in CallRecords /\ calls \in [Calls -> CallRecords]
  BY CallFacts DEF IInv, TypeOK
<1> QED
  BY <1>1 DEF CallRecords, Ended

LEMMA FaultStep ==
  ASSUME IInv, NEW kind, Fault(kind)
  PROVE  faults' \in Nat
BY DEF IInv, TypeOK, Fault

-----------------------------------------------------------------------------
(* Init and each action. *)

LEMMA InitInv == Init => IInv
<1> SUFFICES ASSUME Init PROVE IInv
  OBVIOUS
<1>1. Idle \in CallRecords /\ Idle.state = NewState /\ Idle.pc = "idle" /\ Idle.runs = 0
  <2>1. NewState \in AgentStates
    BY NewStateGood DEF Good
  <2>2. (CHOOSE e \in Executions : TRUE) \in Executions
    BY AgentWorkflowAssumption
  <2> QED
    BY <2>1, <2>2 DEF Idle, CallRecords
<1>2. CallOK(Idle, {})
  BY <1>1, NewStateGood, RecoveryPolicyAssumption, AgentWorkflowAssumption DEF CallOK, Flying
<1> QED
  BY <1>1, <1>2, NewStateGood DEF Init, IInv, TypeOK, Statuses, Good

LEMMA BeginInv ==
  ASSUME IInv, NEW c \in Calls, NEW e \in Executions, Begin(c, e), faults' \in Nat
  PROVE  IInv'
<1> DEFINE k == [Idle EXCEPT !.pc = "run", !.exec = e, !.runs = 1, !.state = workflows[e]]
<1>1. Good(workflows[e]) /\ workflows[e] \in AgentStates
  BY DEF IInv, TypeOK
<1>2. /\ k \in CallRecords /\ k.pc = "run" /\ k.state = workflows[e]
      /\ k.runs = 1 /\ k.retries = 0 /\ k.tries = 0
  BY <1>1 DEF Idle, CallRecords, Flying
<1>3. calls' = [calls EXCEPT ![c] = k] /\ calls[c].pc = "idle"
  BY DEF Begin
<1>4. tried[c] = {} /\ tried' = [tried EXCEPT ![c] = {}]
  BY <1>3, CallFacts DEF CallOK, Begin
<1> HIDE DEF k
<1>5. CallOK(k, {})
  BY <1>1, <1>2, RecoveryPolicyAssumption, AgentWorkflowAssumption DEF CallOK, Good, AgentStates
<1>6. status' \in [Executions -> Statuses]
  BY CallFacts DEF Begin, Statuses
<1>7. workflows' = workflows
  BY DEF Begin
<1> QED
  BY <1>2, <1>3, <1>4, <1>5, <1>6, <1>7, CallFacts, CallStep

LEMMA StartUnreadableInv ==
  ASSUME IInv, NEW c \in Calls, NEW e \in Executions, StartUnreadable(c, e)
  PROVE  IInv'
<1> DEFINE k == [calls[c] EXCEPT !.pc = "done", !.exec = e]
<1>1. calls[c] \in CallRecords /\ calls \in [Calls -> CallRecords]
  BY CallFacts DEF IInv, TypeOK
<1>2. k \in CallRecords /\ k.pc = "done" /\ k.state = calls[c].state /\ k.runs = calls[c].runs
  BY <1>1 DEF CallRecords
<1>3. calls' = [calls EXCEPT ![c] = k]
  BY <1>1 DEF StartUnreadable, CallRecords
<1> HIDE DEF k
<1>4. CallOK(k, tried[c])
  BY <1>2, CallFacts DEF CallOK, Flying
<1>5. status' \in [Executions -> Statuses] /\ workflows' = workflows /\ tried' = tried /\ faults' = faults
  BY CallFacts DEF StartUnreadable, Statuses
<1> QED
  BY <1>2, <1>3, <1>4, <1>5, CallFacts, CallStep

LEMMA RunPassesInv ==
  ASSUME IInv, NEW c \in Calls, NEW result \in {"passed", "healed"}, RunPasses(c, result)
  PROVE  IInv'
<1>1. workflows' \in [Executions -> AgentStates] /\ \A e \in Executions : Good(workflows'[e])
  BY CallFacts, SucceededGood, StoreStep DEF RunPasses
<1>2. status' \in [Executions -> Statuses]
  BY CallFacts DEF RunPasses, Statuses
<1>3. Ended(c, "done", result)
  BY EndLastRecord DEF RunPasses
<1>4. result \in Lasts /\ tried' = tried /\ faults' = faults
  BY DEF RunPasses, Lasts
<1> QED
  BY <1>1, <1>2, <1>3, <1>4, CallFacts, EndStep

LEMMA RunUnrecordedInv ==
  ASSUME IInv, NEW c \in Calls, NEW result \in {"passed", "healed"}, RunUnrecorded(c, result)
  PROVE  IInv'
<1>1. workflows' \in [Executions -> AgentStates] /\ \A e \in Executions : Good(workflows'[e])
  BY CallFacts, SucceededGood, StoreStep DEF RunUnrecorded
<1>2. faults' \in Nat
  BY FaultStep DEF RunUnrecorded
<1>3. result \in Lasts /\ tried' = tried
  BY DEF RunUnrecorded, Lasts
<1>4. PICK recorded \in BOOLEAN :
        /\ status' = IF recorded THEN [status EXCEPT ![calls[c].exec] = "FAILED"] ELSE status
        /\ calls' = [calls EXCEPT ![c].pc = IF recorded THEN "done" ELSE "lost",
                                  ![c].last = result, ![c].state = NewState]
  BY DEF RunUnrecorded
<1>5. CASE recorded
  <2>1. Ended(c, "done", result)
    BY <1>4, <1>5, EndLastRecord
  <2>2. status' \in [Executions -> Statuses]
    BY <1>4, <1>5, CallFacts DEF Statuses
  <2> QED
    BY <2>1, <2>2, <1>1, <1>2, <1>3, EndStep
<1>6. CASE ~recorded
  <2>1. Ended(c, "lost", result)
    BY <1>4, <1>6, EndLastRecord
  <2>2. status' \in [Executions -> Statuses]
    BY <1>4, <1>6, CallFacts
  <2> QED
    BY <2>1, <2>2, <1>1, <1>2, <1>3, EndStep
<1> QED
  BY <1>5, <1>6

LEMMA RunRefusedInv ==
  ASSUME IInv, NEW c \in Calls, NEW result \in {"passed", "healed", "failed"}, RunRefused(c, result)
  PROVE  IInv'
<1>1. status' \in [Executions -> Statuses]
  BY CallFacts DEF RunRefused, Statuses
<1>2. Ended(c, "done", result)
  BY EndLastRecord DEF RunRefused
<1>3. result \in Lasts /\ tried' = tried /\ faults' = faults /\ workflows' = workflows
  BY DEF RunRefused, Lasts
<1> QED
  BY <1>1, <1>2, <1>3, CallFacts, EndStep

LEMMA RunFailsInv ==
  ASSUME IInv, NEW c \in Calls, RunFails(c)
  PROVE  IInv'
<1> DEFINE st == Detected(calls[c].state)
           k == [calls[c] EXCEPT !.pc = "analyze", !.last = "failed", !.state = st]
<1>1. calls[c] \in CallRecords /\ calls \in [Calls -> CallRecords]
  BY CallFacts DEF IInv, TypeOK
<1>2. Good(st) /\ st.retries = calls[c].state.retries /\ st.attempted = calls[c].state.attempted
  BY CallFacts, DetectedGood
<1>3. calls' = [calls EXCEPT ![c] = k]
  BY <1>1 DEF RunFails, CallRecords
<1> HIDE DEF st
<1>4. /\ k \in CallRecords /\ k.pc = "analyze" /\ k.state = st /\ k.runs = calls[c].runs
      /\ k.retries = calls[c].retries /\ k.tries = calls[c].tries
  BY <1>1, <1>2 DEF CallRecords, Flying, Good
<1> HIDE DEF k
<1>5. CallOK(k, tried[c])
  BY <1>2, <1>4, CallFacts DEF CallOK, Flying, RunFails
<1>6. workflows' = workflows /\ tried' = tried /\ faults' = faults /\ status' = status
  BY DEF RunFails
<1> QED
  BY <1>3, <1>4, <1>5, <1>6, CallFacts, CallStep

LEMMA AnalyzedRetryInv ==
  ASSUME IInv, NEW c \in Calls, NEW type \in SeenFailures, AnalyzedRetry(c, type)
  PROVE  IInv'
<1> DEFINE st == Classified(calls[c].state, type)
           k == [calls[c] EXCEPT !.pc = "run", !.state = st, !.retries = @ + 1, !.runs = @ + 1]
<1>1. calls[c] \in CallRecords /\ calls \in [Calls -> CallRecords]
  BY CallFacts DEF IInv, TypeOK
<1>2. type \in FailureTypes
  BY AgentWorkflowAssumption
<1>3. /\ Good(st)
      /\ st.attempted = calls[c].state.attempted
      /\ st.step = "EXECUTION_PENDING" => st.retries = calls[c].state.retries + 1
  BY <1>2, CallFacts, ClassifiedGood
<1>4. st.step = "EXECUTION_PENDING" /\ calls[c].retries < MaxRetryRuns /\ calls[c].pc = "analyze"
  BY DEF AnalyzedRetry, RunsAgain, Accepts
<1>5. calls' = [calls EXCEPT ![c] = k]
  BY <1>1 DEF AnalyzedRetry, CallRecords
<1>6. Store(c, st) /\ tried' = tried /\ faults' = faults /\ status' = status
  BY DEF AnalyzedRetry
<1> HIDE DEF st
<1>n. /\ calls[c].runs \in Nat
      /\ calls[c].retries \in Nat
      /\ calls[c].tries \in Nat
      /\ calls[c].runs + 1 \in Nat
      /\ calls[c].retries + 1 \in Nat
      /\ calls[c].state.retries \in Nat
  BY <1>1, CallNumbers
<1>s. st \in AgentStates /\ st.retries \in Nat /\ st.retries <= MaxRetries
  BY <1>3, StateNumbers
<1>7. /\ k \in CallRecords /\ k.pc = "run" /\ k.state = st /\ k.runs = calls[c].runs + 1
      /\ k.retries = calls[c].retries + 1 /\ k.tries = calls[c].tries
  BY <1>1, <1>n, <1>s DEF CallRecords, Flying
<1> HIDE DEF k
<1>8. /\ calls[c].runs = 1 + calls[c].retries + calls[c].tries
      /\ calls[c].retries <= calls[c].state.retries
      /\ calls[c].tries = 0
      /\ tried[c] \subseteq calls[c].state.attempted
  BY <1>4, CallFacts DEF CallOK, Flying
<1>9. /\ k.runs = 1 + k.retries + k.tries
      /\ k.retries <= st.retries
      /\ k.retries <= MaxRetryRuns
      /\ k.tries = 0
      /\ k.runs <= 1 + MaxRetries + MaxHealing
      /\ k.runs <= 1 + MaxRetryRuns + MaxHealing
  <2>1. MaxRetries \in Nat /\ MaxHealing \in Nat /\ MaxRetryRuns \in Nat
    BY RecoveryPolicyAssumption, AgentWorkflowAssumption
  <2>2. k.tries = 0 /\ k.runs = 1 + k.retries + k.tries /\ k.retries \in Nat
    BY <1>n, <1>7, <1>8
  <2>3. k.retries <= st.retries /\ k.retries <= MaxRetryRuns
    BY <1>n, <1>s, <1>3, <1>4, <1>7, <1>8, <2>1
  <2> QED
    BY <1>s, <2>1, <2>2, <2>3
<1>10. CallOK(k, tried[c])
  BY <1>3, <1>7, <1>8, <1>9, RecoveryPolicyAssumption DEF CallOK, Flying
<1> QED
  BY <1>3, <1>5, <1>6, <1>7, <1>10, CallFacts, CallStep, StoreStep

LEMMA AnalyzedHealableInv ==
  ASSUME IInv, NEW c \in Calls, NEW type \in SeenFailures, AnalyzedHealable(c, type)
  PROVE  IInv'
<1> DEFINE st == Classified(calls[c].state, type)
           k == [calls[c] EXCEPT !.pc = "candidates", !.state = st]
<1>1. calls[c] \in CallRecords /\ calls \in [Calls -> CallRecords]
  BY CallFacts DEF IInv, TypeOK
<1>2. type \in FailureTypes
  BY AgentWorkflowAssumption
<1>3. Good(st) /\ st.attempted = calls[c].state.attempted /\ st.retries >= calls[c].state.retries
  BY <1>2, CallFacts, ClassifiedGood
<1>4. calls' = [calls EXCEPT ![c] = k] /\ calls[c].pc = "analyze"
  BY <1>1 DEF AnalyzedHealable, CallRecords
<1>5. workflows' = workflows /\ tried' = tried /\ faults' = faults /\ status' = status
  BY DEF AnalyzedHealable
<1> HIDE DEF st
<1>6. /\ k \in CallRecords /\ k.pc = "candidates" /\ k.state = st /\ k.runs = calls[c].runs
      /\ k.retries = calls[c].retries /\ k.tries = calls[c].tries
      /\ {calls[c].retries, st.retries, calls[c].state.retries} \subseteq Nat
  BY <1>1, <1>3 DEF CallRecords, Flying, Good, AgentStates
<1> HIDE DEF k
<1>7. CallOK(k, tried[c])
  BY <1>3, <1>4, <1>6, CallFacts DEF CallOK, Flying
<1> QED
  BY <1>4, <1>5, <1>6, <1>7, CallFacts, CallStep

LEMMA AnalyzedEndInv ==
  ASSUME IInv, NEW c \in Calls, NEW type \in SeenFailures, AnalyzedEnd(c, type)
  PROVE  IInv'
<1>1. type \in FailureTypes
  BY AgentWorkflowAssumption
<1>2. Good(Classified(calls[c].state, type))
  BY <1>1, CallFacts, ClassifiedGood
<1>3. workflows' \in [Executions -> AgentStates] /\ \A e \in Executions : Good(workflows'[e])
  BY <1>2, StoreStep DEF AnalyzedEnd
<1>4. End(c, "FAILED") /\ tried' = tried /\ faults' = faults
  BY DEF AnalyzedEnd
<1>5. Ended(c, "done", calls[c].last) /\ calls[c].last \in Lasts /\ status' \in [Executions -> Statuses]
  BY <1>4, EndRecord, StatusStep DEF End, Statuses
<1> QED
  BY <1>3, <1>4, <1>5, CallFacts, EndStep

(* A validation run starts: the selector is new to the call, and the count  *)
(* of attempts is still within the limits.                                  *)
LEMMA ValidateInv ==
  ASSUME IInv, NEW c \in Calls, calls[c].pc \in Flying, calls[c].tries < MaxHealing,
         NEW st, Good(st), Store(c, st), Validate(c, st), faults' = faults,
         st.retries = calls[c].state.retries, st.selected \in Selectors,
         calls[c].state.attempted \union {st.selected} \subseteq st.attempted
  PROVE  IInv'
<1> DEFINE k == [calls[c] EXCEPT !.pc = "validate", !.state = st, !.tries = @ + 1, !.runs = @ + 1]
<1>1. calls[c] \in CallRecords /\ calls \in [Calls -> CallRecords]
  BY CallFacts DEF IInv, TypeOK
<1>2. calls' = [calls EXCEPT ![c] = k]
  BY <1>1 DEF Validate, CallRecords
<1>n. /\ calls[c].runs \in Nat
      /\ calls[c].retries \in Nat
      /\ calls[c].tries \in Nat
      /\ calls[c].runs + 1 \in Nat
      /\ calls[c].tries + 1 \in Nat
  BY <1>1, CallNumbers
<1>s. st \in AgentStates /\ st.retries \in Nat /\ st.retries <= MaxRetries
  BY StateNumbers
<1>3. /\ k \in CallRecords /\ k.pc = "validate" /\ k.state = st /\ k.runs = calls[c].runs + 1
      /\ k.retries = calls[c].retries /\ k.tries = calls[c].tries + 1
  BY <1>1, <1>n, <1>s DEF CallRecords, Flying
<1> HIDE DEF k
<1>4. /\ calls[c].runs = 1 + calls[c].retries + calls[c].tries
      /\ calls[c].retries <= st.retries
      /\ calls[c].retries <= MaxRetryRuns
      /\ tried[c] \subseteq calls[c].state.attempted
  BY CallFacts DEF CallOK
<1>5. /\ k.runs = 1 + k.retries + k.tries
      /\ k.tries <= MaxHealing
      /\ k.runs <= 1 + MaxRetries + MaxHealing
      /\ k.runs <= 1 + MaxRetryRuns + MaxHealing
  <2>1. calls[c].retries <= MaxRetries
    BY <1>n, <1>s, <1>4, Limits
  <2>2. /\ calls[c].runs + 1 = 1 + calls[c].retries + (calls[c].tries + 1)
        /\ calls[c].tries + 1 <= MaxHealing
        /\ calls[c].runs + 1 <= 1 + MaxRetries + MaxHealing
    BY <1>n, <1>4, <2>1, Limits, OneMoreHeal
  <2>3. calls[c].runs + 1 <= 1 + MaxRetryRuns + MaxHealing
    BY <1>n, <1>4, Limits, OneMoreHeal
  <2> QED
    BY <1>3, <2>2, <2>3
<1> DEFINE t == tried[c] \union {st.selected}
<1>6. CallOK(k, t)
  BY <1>3, <1>4, <1>5 DEF CallOK, Flying
<1>7. t \in SUBSET Selectors /\ tried' = [tried EXCEPT ![c] = t] /\ status' = status
  BY CallFacts DEF Validate
<1> HIDE DEF t
<1> QED
  BY <1>2, <1>3, <1>6, <1>7, CallFacts, CallStep, StoreStep

(* The offer of the first candidate. *)
LEMMA RecommendedTryFacts ==
  ASSUME IInv, NEW c \in Calls, NEW ranked \in Rankings, NEW d \in Decisions, RecommendedTry(c, ranked, d)
  PROVE  LET st == Routed(Ranked(calls[c].state, ranked), d)
         IN  /\ Good(st)
             /\ st.retries = calls[c].state.retries
             /\ st.selected = d.selected
             /\ d.selected \in Selectors
             /\ d.selected \notin calls[c].state.attempted
             /\ calls[c].state.attempted \union {st.selected} \subseteq st.attempted
             /\ Store(c, st)
             /\ Validate(c, st)
<1> DEFINE old == calls[c].state
           mid == Ranked(old, ranked)
<1>1. ranked \in Seq(Candidates) /\ d.action = "TRY_HEALING"
  BY AgentWorkflowAssumption DEF RecommendedTry
<1>2. Good(old) /\ old.count \in Nat
  BY CallFacts DEF AgentStates
<1>3. evaluate(old.type, ranked, old.count, old.retries, old.attempted, d)
  BY DEF RecommendedTry, Recommended
<1>4. old.count < MaxHealing /\ d.selected \in Selectors /\ d.selected \notin old.attempted
  BY <1>1, <1>2, <1>3, EvaluateOffer
<1>5. Good(mid) /\ mid.count = old.count /\ mid.retries = old.retries /\ mid.attempted = old.attempted
  BY <1>1, <1>2, RankedGood
<1>6. Routed(mid, d) = Sent(mid, d)
  BY <1>1, TriedGood
<1>7. Store(c, Routed(mid, d)) /\ Validate(c, Routed(mid, d))
  BY DEF RecommendedTry
<1> HIDE DEF mid, old
<1>8. /\ Good(Sent(mid, d))
      /\ Sent(mid, d).retries = mid.retries
      /\ Sent(mid, d).attempted = mid.attempted \union {d.selected}
      /\ Sent(mid, d).selected = d.selected
  BY <1>4, <1>5, SentGood
<1>9. /\ Good(Routed(mid, d))
      /\ Routed(mid, d).retries = old.retries
      /\ Routed(mid, d).attempted = old.attempted \union {d.selected}
      /\ Routed(mid, d).selected = d.selected
  BY <1>5, <1>6, <1>8
<1> QED
  BY <1>4, <1>7, <1>9 DEF mid, old

LEMMA RecommendedTryInv ==
  ASSUME IInv, NEW c \in Calls, NEW ranked \in Rankings, NEW d \in Decisions, RecommendedTry(c, ranked, d)
  PROVE  IInv'
<1> DEFINE st == Routed(Ranked(calls[c].state, ranked), d)
<1>1. /\ Good(st) /\ st.retries = calls[c].state.retries /\ st.selected \in Selectors
      /\ calls[c].state.attempted \union {st.selected} \subseteq st.attempted
      /\ Store(c, st) /\ Validate(c, st)
  BY RecommendedTryFacts
<1>2. calls[c].pc = "candidates" /\ faults' = faults
  BY DEF RecommendedTry, Recommended
<1>3. calls[c].tries < MaxHealing
  BY <1>2, CallFacts, RecoveryPolicyAssumption DEF CallOK
<1>4. calls[c].pc \in Flying
  BY <1>2 DEF Flying
<1> HIDE DEF st
<1> QED
  BY <1>1, <1>2, <1>3, <1>4, ValidateInv

LEMMA RecommendedEndInv ==
  ASSUME IInv, NEW c \in Calls, NEW ranked \in Rankings, NEW d \in Decisions, RecommendedEnd(c, ranked, d)
  PROVE  IInv'
<1>1. ranked \in Seq(Candidates) /\ d.action # "TRY_HEALING"
  BY AgentWorkflowAssumption DEF RecommendedEnd
<1>2. Good(Ranked(calls[c].state, ranked))
  BY <1>1, CallFacts, RankedGood
<1>3. Good(Routed(Ranked(calls[c].state, ranked), d))
  BY <1>1, <1>2, StoppedGood
<1>4. workflows' \in [Executions -> AgentStates] /\ \A e \in Executions : Good(workflows'[e])
  BY <1>3, StoreStep DEF RecommendedEnd
<1>5. End(c, "FAILED") /\ tried' = tried /\ faults' = faults
  BY DEF RecommendedEnd
<1>6. Ended(c, "done", calls[c].last) /\ calls[c].last \in Lasts /\ status' \in [Executions -> Statuses]
  BY <1>5, EndRecord, StatusStep DEF End, Statuses
<1> QED
  BY <1>4, <1>5, <1>6, CallFacts, EndStep

LEMMA HealPassesInv ==
  ASSUME IInv, NEW c \in Calls, HealPasses(c)
  PROVE  IInv'
<1>1. workflows' \in [Executions -> AgentStates] /\ \A e \in Executions : Good(workflows'[e])
  BY CallFacts, HealedGood, StoreStep DEF HealPasses
<1>2. status' \in [Executions -> Statuses]
  BY CallFacts DEF HealPasses, Statuses
<1>3. Ended(c, "done", "passed")
  BY EndLastRecord DEF HealPasses
<1>4. "passed" \in Lasts /\ tried' = tried /\ faults' = faults
  BY DEF HealPasses, Lasts
<1> QED
  BY <1>1, <1>2, <1>3, <1>4, CallFacts, EndStep

(* After a failed heal: the state with the selector marked as tried, and,  *)
(* when the policy offers another, the state with that one sent.           *)
LEMMA HealFailedFacts ==
  ASSUME IInv, NEW c \in Calls, NEW d \in Decisions, HealFailed(c, d)
  PROVE  /\ Good(Failed(calls[c].state))
         /\ d.action = "TRY_HEALING" =>
              LET st == _try_next_candidate(Failed(calls[c].state), d)
              IN  /\ Good(st)
                  /\ st.retries = calls[c].state.retries
                  /\ st.selected = d.selected
                  /\ d.selected \in Selectors
                  /\ d.selected \notin calls[c].state.attempted
                  /\ calls[c].state.attempted \union {st.selected} \subseteq st.attempted
<1> DEFINE old == calls[c].state
           mid == Failed(old)
<1>1. calls[c].pc = "validate" /\ evaluate_continuation(mid.ranked, mid.count, mid.attempted, d)
  BY DEF HealFailed
<1>2. Good(old) /\ old.selected \in Selectors /\ old.count \in Nat /\ old.ranked \in Seq(Candidates)
  BY <1>1, CallFacts DEF CallOK, AgentStates
<1>3. /\ Good(mid)
      /\ old.attempted \subseteq mid.attempted
      /\ mid.count = old.count
      /\ mid.retries = old.retries
      /\ mid.ranked = old.ranked
  BY <1>2, FailedGood
<1> HIDE DEF mid, old
<1>4. ASSUME d.action = "TRY_HEALING"
      PROVE  /\ Good(_try_next_candidate(mid, d))
             /\ _try_next_candidate(mid, d).retries = old.retries
             /\ _try_next_candidate(mid, d).selected = d.selected
             /\ d.selected \in Selectors
             /\ d.selected \notin old.attempted
             /\ old.attempted \union {d.selected} \subseteq _try_next_candidate(mid, d).attempted
  <2>1. mid.count < MaxHealing /\ d.selected \in Selectors /\ d.selected \notin mid.attempted
    BY <1>1, <1>2, <1>3, <1>4, ContinuationOffer
  <2>2. /\ Good(Sent(mid, d))
        /\ Sent(mid, d).retries = mid.retries
        /\ Sent(mid, d).attempted = mid.attempted \union {d.selected}
        /\ Sent(mid, d).selected = d.selected
    BY <1>3, <2>1, SentGood
  <2>3. _try_next_candidate(mid, d) = Sent(mid, d)
    BY <1>4, TriedGood
  <2> QED
    BY <1>3, <2>1, <2>2, <2>3
<1> QED
  BY <1>3, <1>4 DEF mid, old

LEMMA HealNextFacts ==
  ASSUME IInv, NEW c \in Calls, NEW d \in Decisions, HealNext(c, d)
  PROVE  LET st == _try_next_candidate(Failed(calls[c].state), d)
         IN  /\ Good(st)
             /\ st.retries = calls[c].state.retries
             /\ st.selected = d.selected
             /\ d.selected \in Selectors
             /\ d.selected \notin calls[c].state.attempted
             /\ calls[c].state.attempted \union {st.selected} \subseteq st.attempted
             /\ Store(c, st)
             /\ Validate(c, st)
<1> DEFINE st == _try_next_candidate(Failed(calls[c].state), d)
<1>1. HealFailed(c, d) /\ d.action = "TRY_HEALING" /\ Store(c, st) /\ Validate(c, st)
  BY DEF HealNext
<1> QED
  BY <1>1, HealFailedFacts

LEMMA HealNextInv ==
  ASSUME IInv, NEW c \in Calls, NEW d \in Decisions, HealNext(c, d)
  PROVE  IInv'
<1> DEFINE st == _try_next_candidate(Failed(calls[c].state), d)
<1>1. /\ Good(st) /\ st.retries = calls[c].state.retries /\ st.selected \in Selectors
      /\ calls[c].state.attempted \union {st.selected} \subseteq st.attempted
      /\ Store(c, st) /\ Validate(c, st)
  BY HealNextFacts
<1>2. calls[c].pc = "validate" /\ calls[c].tries < MaxHealing /\ faults' = faults
  BY DEF HealNext, HealFailed
<1>3. calls[c].pc \in Flying
  BY <1>2 DEF Flying
<1> HIDE DEF st
<1> QED
  BY <1>1, <1>2, <1>3, ValidateInv

LEMMA HealStopInv ==
  ASSUME IInv, NEW c \in Calls, NEW d \in Decisions, HealStop(c, d)
  PROVE  IInv'
<1> DEFINE mid == Failed(calls[c].state)
<1>1. HealFailed(c, d)
  BY DEF HealStop
<1>2. Good(mid) /\ (d.action = "TRY_HEALING" => Good(_try_next_candidate(mid, d)))
  BY <1>1, HealFailedFacts
<1>3. Good(_try_next_candidate(mid, d))
  BY <1>2, StoppedGood
<1>4. workflows' \in [Executions -> AgentStates] /\ \A e \in Executions : Good(workflows'[e])
  BY <1>3, StoreStep DEF HealStop
<1>5. End(c, "FAILED") /\ tried' = tried /\ faults' = faults
  BY DEF HealStop
<1>6. Ended(c, "done", calls[c].last) /\ calls[c].last \in Lasts /\ status' \in [Executions -> Statuses]
  BY <1>5, EndRecord, StatusStep DEF End, Statuses
<1> QED
  BY <1>4, <1>5, <1>6, CallFacts, EndStep

LEMMA CrashInv ==
  ASSUME IInv, NEW c \in Calls, Crash(c)
  PROVE  IInv'
<1>1. End(c, "FAILED") /\ tried' = tried /\ workflows' = workflows /\ Fault("crash")
  BY DEF Crash
<1>2. Ended(c, "done", calls[c].last) /\ calls[c].last \in Lasts /\ status' \in [Executions -> Statuses]
  BY <1>1, EndRecord, StatusStep DEF End, Statuses
<1>3. faults' \in Nat
  BY <1>1, FaultStep
<1> QED
  BY <1>1, <1>2, <1>3, CallFacts, EndStep

LEMMA CancelInv ==
  ASSUME IInv, NEW c \in Calls, Cancel(c)
  PROVE  IInv'
<1>1. tried' = tried /\ workflows' = workflows /\ status' = status /\ Fault("cancel")
  BY DEF Cancel
<1>2. Ended(c, "lost", calls[c].last) /\ calls[c].last \in Lasts
  BY EndRecord DEF Cancel
<1>3. faults' \in Nat
  BY <1>1, FaultStep
<1> QED
  BY <1>1, <1>2, <1>3, CallFacts, EndStep

LEMMA RestartInv ==
  ASSUME IInv, Restart
  PROVE  IInv'
<1>1. faults' \in Nat /\ tried' = tried /\ status' = status /\ workflows' = [e \in Executions |-> NewState]
  BY FaultStep DEF Restart
<1>2. Good(NewState) /\ NewState \in AgentStates
  BY NewStateGood DEF Good
<1>3. ASSUME NEW c \in Calls
      PROVE  calls'[c] \in CallRecords /\ CallOK(calls'[c], tried[c])
  <2>1. calls[c] \in CallRecords /\ CallOK(calls[c], tried[c])
    BY CallFacts
  <2>2. CASE InFlight(c)
    <3> DEFINE n == [calls[c] EXCEPT !.pc = "lost", !.state = NewState, !.last = calls[c].last]
    <3>1. calls[c].last \in Lasts
      BY <2>1 DEF CallRecords, Lasts
    <3>2. n \in CallRecords /\ CallOK(n, tried[c])
      BY <2>1, <3>1, EndsOK
    <3>3. calls'[c] = n
      BY <2>1, <2>2 DEF Restart, CallRecords
    <3> HIDE DEF n
    <3> QED
      BY <3>2, <3>3
  <2>3. CASE ~InFlight(c)
    <3>1. calls'[c] = calls[c]
      BY <2>3 DEF Restart
    <3> QED
      BY <2>1, <3>1
  <2> QED
    BY <2>2, <2>3
<1>4. calls' \in [Calls -> CallRecords]
  <2>1. calls' = [c \in Calls |-> calls'[c]]
    BY DEF Restart
  <2> QED
    BY <1>3, <2>1
<1>5. TypeOK'
  BY <1>1, <1>2, <1>4 DEF IInv, TypeOK
<1> QED
  BY <1>1, <1>2, <1>3, <1>5 DEF IInv

LEMMA StutterInv ==
  ASSUME IInv, UNCHANGED vars
  PROVE  IInv'
BY DEF IInv, TypeOK, vars

LEMMA NextInv ==
  ASSUME IInv, Next
  PROVE  IInv'
<1>1. ASSUME NEW c \in Calls, NEW e \in Executions, Start(c, e)
      PROVE  IInv'
  <2>1. Begin(c, e) /\ faults' \in Nat
    BY <1>1, CallFacts DEF Start
  <2> QED
    BY <2>1, BeginInv
<1>2. ASSUME NEW c \in Calls, NEW e \in Executions, StartSecond(c, e)
      PROVE  IInv'
  <2>1. Begin(c, e) /\ faults' \in Nat
    BY <1>2, FaultStep DEF StartSecond
  <2> QED
    BY <2>1, BeginInv
<1>3. ASSUME NEW c \in Calls, Advance(c)
      PROVE  IInv'
  BY <1>3, RunPassesInv, RunFailsInv, RunRefusedInv, AnalyzedRetryInv, AnalyzedHealableInv, AnalyzedEndInv,
     RecommendedTryInv, RecommendedEndInv, HealPassesInv, HealNextInv, HealStopInv DEF Advance
<1> QED
  BY <1>1, <1>2, <1>3, StartUnreadableInv, RunUnrecordedInv, CrashInv, CancelInv, RestartInv DEF Next

-----------------------------------------------------------------------------
LEMMA InvariantHolds == Spec => []IInv
<1>1. IInv /\ [Next]_vars => IInv'
  BY NextInv, StutterInv
<1> QED
  BY <1>1, InitInv, PTL DEF Spec

(* Every reachable state of the executions, their workflow states and the   *)
(* calls is well typed, whatever fails or is cancelled on the way.          *)
THEOREM WorkflowTypes == Spec => []TypeOK
<1>1. IInv => TypeOK
  BY DEF IInv
<1> QED
  BY <1>1, InvariantHolds, PTL

(* No workflow counts more heals than max_healing_attempts and no call runs *)
(* the browser more often than once, the retries and the heals, for every   *)
(* configuration of the policy and every ranking the healing engine returns. *)
THEOREM LimitsHold == Spec => []WithinLimits
<1>1. IInv => WithinLimits
  <2> SUFFICES ASSUME IInv PROVE WithinLimits
    OBVIOUS
  <2>1. ASSUME NEW e \in Executions PROVE workflows[e].count <= MaxHealing
    BY DEF IInv, Good
  <2>2. ASSUME NEW c \in Calls
        PROVE  /\ calls[c].state.count <= MaxHealing
               /\ calls[c].runs <= 1 + MaxRetries + MaxHealing
               /\ calls[c].runs <= 1 + MaxRetryRuns + MaxHealing
    BY CallFacts DEF CallOK, Good
  <2> QED
    BY <2>1, <2>2 DEF WithinLimits
<1> QED
  BY <1>1, InvariantHolds, PTL

-----------------------------------------------------------------------------
(* Only a validation run raises the number of tries. *)
SameTries == \A x \in Calls : ~(calls'[x].tries > calls[x].tries)

LEMMA NoMoreTries ==
  ASSUME IInv, NEW c \in Calls, NEW k \in CallRecords, k.tries <= calls[c].tries,
         calls' = [calls EXCEPT ![c] = k]
  PROVE  SameTries
<1> SUFFICES ASSUME NEW x \in Calls PROVE ~(calls'[x].tries > calls[x].tries)
  BY DEF SameTries
<1>1. calls[x].tries \in Nat /\ calls[c].tries \in Nat /\ k.tries \in Nat
  BY CallFacts, CallNumbers
<1>2. CASE x = c
  <2>1. calls'[x] = k
    BY <1>2 DEF IInv, TypeOK
  <2> QED
    BY <1>1, <1>2, <2>1
<1>3. CASE x # c
  <2>1. calls'[x] = calls[x]
    BY <1>3 DEF IInv, TypeOK
  <2> QED
    BY <1>1, <2>1
<1> QED
  BY <1>2, <1>3

LEMMA EndedTries ==
  ASSUME IInv, NEW c \in Calls, NEW p \in {"done", "lost"}, NEW l \in Lasts, Ended(c, p, l)
  PROVE  SameTries
<1> DEFINE k == [calls[c] EXCEPT !.pc = p, !.state = NewState, !.last = l]
<1>1. k \in CallRecords /\ calls[c] \in CallRecords
  BY CallFacts, EndsOK
<1>2. k.tries = calls[c].tries /\ calls' = [calls EXCEPT ![c] = k]
  BY <1>1 DEF CallRecords, Ended
<1>3. k.tries <= calls[c].tries
  BY <1>1, <1>2, CallNumbers
<1> HIDE DEF k
<1> QED
  BY <1>1, <1>2, <1>3, NoMoreTries

LEMMA EndTries ==
  ASSUME IInv, NEW c \in Calls, NEW p \in {"done", "lost"},
         calls' = [calls EXCEPT ![c].pc = p, ![c].state = NewState]
  PROVE  SameTries
BY EndRecord, EndedTries

LEMMA EndLastTries ==
  ASSUME IInv, NEW c \in Calls, NEW l \in Lasts, NEW p \in {"done", "lost"},
         calls' = [calls EXCEPT ![c].pc = p, ![c].last = l, ![c].state = NewState]
  PROVE  SameTries
BY EndLastRecord, EndedTries

LEMMA BeginTries ==
  ASSUME IInv, NEW c \in Calls, NEW e \in Executions, Begin(c, e)
  PROVE  SameTries
<1> DEFINE k == [Idle EXCEPT !.pc = "run", !.exec = e, !.runs = 1, !.state = workflows[e]]
<1>1. workflows[e] \in AgentStates
  BY DEF IInv, TypeOK
<1>2. k \in CallRecords /\ k.tries = 0
  BY <1>1 DEF Idle, CallRecords, Flying
<1>3. calls' = [calls EXCEPT ![c] = k]
  BY DEF Begin
<1>4. calls[c].tries \in Nat
  BY CallFacts, CallNumbers
<1> HIDE DEF k
<1>5. k.tries <= calls[c].tries
  BY <1>2, <1>4
<1> QED
  BY <1>2, <1>3, <1>5, NoMoreTries

(* The other steps of a call that do not end it. *)
LEMMA QuietTries ==
  ASSUME IInv, NEW c \in Calls,
         \/ RunFails(c)
         \/ \E type \in SeenFailures : AnalyzedRetry(c, type) \/ AnalyzedHealable(c, type)
         \/ \E e \in Executions : StartUnreadable(c, e)
  PROVE  SameTries
<1>1. calls \in [Calls -> CallRecords] /\ calls[c] \in CallRecords
  BY CallFacts DEF IInv, TypeOK
<1>2. \A x \in Calls : calls'[x].tries = calls[x].tries
  <2>1. CASE RunFails(c)
    BY <1>1, <2>1 DEF RunFails, CallRecords
  <2>2. ASSUME NEW type \in SeenFailures, AnalyzedRetry(c, type)
        PROVE  \A x \in Calls : calls'[x].tries = calls[x].tries
    <3> DEFINE st == Classified(calls[c].state, type)
    <3>1. calls' = [calls EXCEPT ![c].pc = "run", ![c].state = st,
                                 ![c].retries = @ + 1, ![c].runs = @ + 1]
      BY <2>2 DEF AnalyzedRetry
    <3> HIDE DEF st
    <3> QED
      BY <1>1, <3>1 DEF CallRecords
  <2>3. ASSUME NEW type \in SeenFailures, AnalyzedHealable(c, type)
        PROVE  \A x \in Calls : calls'[x].tries = calls[x].tries
    BY <1>1, <2>3 DEF AnalyzedHealable, CallRecords
  <2>4. ASSUME NEW e \in Executions, StartUnreadable(c, e)
        PROVE  \A x \in Calls : calls'[x].tries = calls[x].tries
    BY <1>1, <2>4 DEF StartUnreadable, CallRecords
  <2> QED
    BY <2>1, <2>2, <2>3, <2>4
<1>3. \A x \in Calls : calls[x].tries \in Nat
  BY CallFacts, CallNumbers
<1> QED
  BY <1>2, <1>3 DEF SameTries

(* The two steps that send a selector to the browser. *)
Sends(x) ==
  \/ \E ranked \in Rankings, d \in Decisions : RecommendedTry(x, ranked, d)
  \/ \E d \in Decisions : HealNext(x, d)

LEMMA SendsTries ==
  ASSUME IInv, NEW c \in Calls, Sends(c), NEW x \in Calls, calls'[x].tries > calls[x].tries
  PROVE  x = c
<1>1. PICK st : Validate(c, st)
  BY DEF Sends, RecommendedTry, HealNext
<1>2. calls \in [Calls -> CallRecords] /\ calls[x].tries \in Nat
  BY CallFacts, CallNumbers DEF IInv, TypeOK
<1>3. ASSUME x # c PROVE FALSE
  <2>1. calls'[x] = calls[x]
    BY <1>1, <1>2, <1>3 DEF Validate
  <2> QED
    BY <1>2, <2>1
<1> QED
  BY <1>3

LEMMA NextTries ==
  ASSUME IInv, Next
  PROVE  SameTries \/ \E c \in Calls : Sends(c)
<1>1. ASSUME NEW c \in Calls, NEW e \in Executions, Start(c, e) \/ StartSecond(c, e)
      PROVE  SameTries
  BY <1>1, BeginTries DEF Start, StartSecond
<1>2. ASSUME NEW c \in Calls, NEW r \in {"passed", "healed", "failed"},
             RunPasses(c, r) \/ RunRefused(c, r) \/ RunUnrecorded(c, r)
      PROVE  SameTries
  BY <1>2, EndLastTries DEF RunPasses, RunRefused, RunUnrecorded, Lasts
<1>3. ASSUME NEW c \in Calls, HealPasses(c)
      PROVE  SameTries
  BY <1>3, EndLastTries DEF HealPasses, Lasts
<1>4. ASSUME NEW c \in Calls, End(c, "FAILED") \/ Cancel(c)
      PROVE  SameTries
  BY <1>4, EndTries DEF End, Cancel
<1>5. CASE Restart
  <2>1. ASSUME NEW x \in Calls PROVE calls'[x].tries = calls[x].tries /\ calls[x].tries \in Nat
    <3>1. calls[x] \in CallRecords /\ calls[x].tries \in Nat
      BY CallFacts, CallNumbers
    <3> QED
      BY <1>5, <3>1 DEF Restart, CallRecords
  <2> QED
    BY <2>1 DEF SameTries
<1>6. ASSUME NEW c \in Calls, Advance(c)
      PROVE  SameTries \/ Sends(c)
  <2>1. CASE \E type \in SeenFailures : AnalyzedEnd(c, type)
    BY <2>1, <1>4 DEF AnalyzedEnd
  <2>2. CASE \E ranked \in Rankings, d \in Decisions : RecommendedEnd(c, ranked, d)
    BY <2>2, <1>4 DEF RecommendedEnd
  <2>3. CASE \E d \in Decisions : HealStop(c, d)
    BY <2>3, <1>4 DEF HealStop
  <2> QED
    BY <1>6, <2>1, <2>2, <2>3, <1>2, <1>3, QuietTries DEF Advance, Sends
<1>7. ASSUME NEW c \in Calls, Crash(c)
      PROVE  SameTries
  BY <1>7, <1>4 DEF Crash
<1> QED
  BY <1>1, <1>2, <1>4, <1>5, <1>6, <1>7, QuietTries DEF Next

(* What a call sends is new to its workflow state, and its workflow state   *)
(* remembers everything the call validated.                                 *)
Untried == \A c \in Calls : calls'[c].tries > calls[c].tries => calls'[c].state.selected \notin tried[c]

LEMMA SendsUntried ==
  ASSUME IInv, NEW c \in Calls, Sends(c)
  PROVE  calls'[c].state.selected \notin tried[c]
<1>1. PICK st : Validate(c, st) /\ st.selected \notin calls[c].state.attempted
  BY RecommendedTryFacts, HealNextFacts DEF Sends
<1>2. calls[c].pc \in Flying
  BY DEF Sends, RecommendedTry, Recommended, HealNext, HealFailed, Flying
<1>3. calls \in [Calls -> CallRecords] /\ calls[c] \in CallRecords
  BY CallFacts DEF IInv, TypeOK
<1>4. calls'[c].state = st
  BY <1>1, <1>3 DEF Validate, CallRecords
<1>5. tried[c] \subseteq calls[c].state.attempted
  BY <1>2, CallFacts DEF CallOK
<1> QED
  BY <1>1, <1>4, <1>5

(* A call never validates the same selector twice: attempted_selectors     *)
(* survives every re-ranking and retry of a call, for every ranking        *)
(* (repeated selectors included) and every policy.                         *)
THEOREM NoSelectorTwice == Spec => NeverTriedTwice
<1>1. IInv /\ [Next]_vars => [Untried]_vars
  BY NextTries, SendsTries, SendsUntried DEF Untried, SameTries
<1>2. [][Untried]_vars => NeverTriedTwice
  BY DEF Untried, NeverTriedTwice
<1> QED
  BY <1>1, <1>2, InvariantHolds, PTL DEF Spec

-----------------------------------------------------------------------------
(* Steps: where the workflow of a call is, given what the call waits for.   *)

(* A stored state can be taken up again only before any heal was tried. *)
WorkflowFits(st) ==
  /\ st.step # "INVALID"
  /\ st.step = "EXECUTION_PENDING" => st.attempted = {}

CallFits(k, t) ==
  /\ WorkflowFits(k.state)
  /\ k.pc = "analyze" => k.state.step = "ANALYZING_FAILURE" /\ k.state.attempted = {}
  /\ k.pc = "candidates" => k.state.step = "GENERATING_CANDIDATES" /\ k.state.attempted = {}
  /\ k.pc = "validate" => /\ k.state.step = "HEALING_PENDING_VALIDATION"
                          /\ k.state.attempted = t /\ k.state.selected \in t
                          /\ k.state.ranked \in Rankings

FInv ==
  /\ \A e \in Executions : WorkflowFits(workflows[e])
  /\ \A c \in Calls : CallFits(calls[c], tried[c])

LEMMA Moves ==
  ASSUME NEW st, Good(st), NEW target \in Steps, target \in ValidTransitions[st.step]
  PROVE  _transition(st, target).step = target
BY DEF _transition, Good, AgentStates

LEMMA Table ==
  /\ ValidTransitions["EXECUTION_PENDING"] = {"EXECUTION_SUCCESS", "FAILURE_DETECTED"}
  /\ ValidTransitions["EXECUTION_SUCCESS"] = {"COMPLETED"}
  /\ ValidTransitions["FAILURE_DETECTED"] = {"ANALYZING_FAILURE"}
  /\ ValidTransitions["ANALYZING_FAILURE"] = {"GENERATING_CANDIDATES", "RETRYING", "COMPLETED", "ABORTED"}
  /\ "RANKING_CANDIDATES" \in ValidTransitions["GENERATING_CANDIDATES"]
  /\ ValidTransitions["RANKING_CANDIDATES"] = {"DECIDING_HEALING"}
  /\ {"HEALING_PENDING_VALIDATION", "COMPLETED", "ABORTED"} \subseteq ValidTransitions["DECIDING_HEALING"]
  /\ ValidTransitions["RETRYING"] = {"EXECUTION_PENDING"}
  /\ {"HEALING_SUCCEEDED", "HEALING_FAILED", "HEALING_PENDING_VALIDATION"}
       \subseteq ValidTransitions["HEALING_PENDING_VALIDATION"]
  /\ ValidTransitions["HEALING_SUCCEEDED"] = {"COMPLETED"}
  /\ ValidTransitions["HEALING_FAILED"] = {"COMPLETED"}
BY DEF ValidTransitions

(* Two transitions in a row. *)
LEMMA MovesTwice ==
  ASSUME NEW st, Good(st), NEW a \in Steps, NEW b \in Steps,
         a \in ValidTransitions[st.step], b \in ValidTransitions[a]
  PROVE  /\ _transition(_transition(st, a), b).step = b
         /\ _transition(_transition(st, a), b).attempted = st.attempted
         /\ _transition(_transition(st, a), b).ranked = st.ranked
<1> DEFINE n == _transition(st, a)
<1>1. Good(n) /\ n.step = a /\ n.attempted = st.attempted /\ n.ranked = st.ranked
  BY Moves, TransitionGood
<1> HIDE DEF n
<1>2. _transition(n, b).step = b /\ _transition(n, b).attempted = n.attempted /\ _transition(n, b).ranked = n.ranked
  BY <1>1, Moves, TransitionGood
<1> QED
  BY <1>1, <1>2 DEF n

LEMMA PendingSteps ==
  ASSUME NEW st, Good(st), Accepts(st)
  PROVE  /\ Succeeded(st).step = "COMPLETED"
         /\ Detected(st).step = "ANALYZING_FAILURE"
         /\ Detected(st).attempted = st.attempted
BY StepNames, Table, MovesTwice DEF Accepts, Succeeded, Detected

LEMMA RetryMoves ==
  ASSUME NEW s, Good(s), s.step = "ANALYZING_FAILURE"
  PROVE  _transition(_transition(s, "RETRYING"), "EXECUTION_PENDING").step = "EXECUTION_PENDING"
BY StepNames, Table, MovesTwice

LEMMA EndMoves ==
  ASSUME NEW s, Good(s), s.step = "ANALYZING_FAILURE"
  PROVE  /\ _transition(s, "COMPLETED").step = "COMPLETED"
         /\ _transition(s, "GENERATING_CANDIDATES").step = "GENERATING_CANDIDATES"
BY StepNames, Table, Moves

LEMMA ClassifiedSteps ==
  ASSUME NEW st, Good(st), NEW type \in FailureTypes, st.step = "ANALYZING_FAILURE"
  PROVE  Classified(st, type).step \in {"ABORTED", "EXECUTION_PENDING", "COMPLETED", "GENERATING_CANDIDATES"}
<1> DEFINE policy == get_failure_policy(type)
           known == [st EXCEPT !.type = type]
<1>1. /\ Good(known) /\ known.step = "ANALYZING_FAILURE" /\ known.retries = st.retries
      /\ known.retries \in Nat
  BY DEF Good, AgentStates
<1>2. ASSUME NEW a \in RecoveryActions
      PROVE  Good([known EXCEPT !.decision = a]) /\ [known EXCEPT !.decision = a].step = "ANALYZING_FAILURE"
  BY <1>1 DEF Good, AgentStates
<1>3. {"ABORT", "RETRY", "REQUIRE_FURTHER_ANALYSIS", "DO_NOT_HEAL"} \subseteq RecoveryActions
  BY DEF RecoveryActions
<1>4. CASE st.count >= MaxHealing
  <2> DEFINE s == [known EXCEPT !.decision = "ABORT"]
  <2>1. Classified(st, type) = _transition(s, "ABORTED")
    BY <1>4 DEF Classified
  <2>2. Good(s) /\ s.step = "ANALYZING_FAILURE"
    BY <1>2, <1>3
  <2> HIDE DEF s
  <2>3. _transition(s, "ABORTED").step = "ABORTED"
    BY <2>2, Table, StepNames, Moves
  <2> QED
    BY <2>1, <2>3
<1>5. CASE ~(st.count >= MaxHealing) /\ MayRetry(policy, st.retries)
  <2> DEFINE s == [known EXCEPT !.decision = "RETRY", !.retries = @ + 1]
  <2>1. Classified(st, type) = _transition(_transition(s, "RETRYING"), "EXECUTION_PENDING")
    BY <1>5 DEF Classified
  <2>2. known.retries + 1 \in Nat /\ known.retries + 1 <= MaxRetries /\ "RETRY" \in RecoveryActions
    BY <1>1, <1>3, <1>5, Limits DEF MayRetry
  <2>3. Good(s) /\ s.step = "ANALYZING_FAILURE"
    <3> HIDE DEF known
    <3> QED
      BY <1>1, <2>2 DEF Good, AgentStates
  <2> HIDE DEF s
  <2> QED
    BY <2>1, <2>3, RetryMoves
<1>6. CASE ~(st.count >= MaxHealing) /\ ~MayRetry(policy, st.retries) /\ ~policy.healable
  <2>1. PICK a \in RecoveryActions :
          Classified(st, type) = _transition([known EXCEPT !.decision = a], "COMPLETED")
    BY <1>3, <1>6 DEF Classified
  <2>2. Good([known EXCEPT !.decision = a]) /\ [known EXCEPT !.decision = a].step = "ANALYZING_FAILURE"
    BY <1>2
  <2>3. _transition([known EXCEPT !.decision = a], "COMPLETED").step = "COMPLETED"
    BY <2>2, EndMoves
  <2> QED
    BY <2>1, <2>3
<1>7. CASE ~(st.count >= MaxHealing) /\ ~MayRetry(policy, st.retries) /\ policy.healable
  <2>1. Classified(st, type) = _transition(known, "GENERATING_CANDIDATES")
    BY <1>7 DEF Classified
  <2>2. _transition(known, "GENERATING_CANDIDATES").step = "GENERATING_CANDIDATES"
    BY <1>1, EndMoves
  <2> QED
    BY <2>1, <2>2
<1> QED
  BY <1>4, <1>5, <1>6, <1>7

LEMMA RankedSteps ==
  ASSUME NEW st, Good(st), NEW ranked \in Seq(Candidates), st.step = "GENERATING_CANDIDATES"
  PROVE  Ranked(st, ranked).step = "DECIDING_HEALING" /\ Ranked(st, ranked).ranked = ranked
<1> DEFINE s == [st EXCEPT !.ranked = ranked]
<1>1. Good(s) /\ s.step = "GENERATING_CANDIDATES" /\ s.ranked = ranked
  BY DEF Good, AgentStates
<1>2. Ranked(st, ranked) = _transition(_transition(s, "RANKING_CANDIDATES"), "DECIDING_HEALING")
  BY DEF Ranked
<1> HIDE DEF s
<1> QED
  BY <1>1, <1>2, Table, StepNames, MovesTwice

LEMMA SentSteps ==
  ASSUME NEW st, Good(st), st.count < MaxHealing, NEW d \in Decisions, d.selected \in Selectors,
         st.step \in {"DECIDING_HEALING", "HEALING_PENDING_VALIDATION"}
  PROVE  Sent(st, d).step = "HEALING_PENDING_VALIDATION" /\ Sent(st, d).ranked = st.ranked
<1> DEFINE s == [st EXCEPT !.attempted = @ \union {d.selected}, !.count = @ + 1,
                           !.selected = d.selected, !.decision = d.action]
<1>1. st \in AgentStates /\ st.retries <= MaxRetries /\ st.count + 1 <= MaxHealing /\ st.count + 1 \in Nat
  BY RecoveryPolicyAssumption DEF Good, AgentStates
<1>2. d.selected \in Selectors /\ d.action \in RecoveryActions /\ st.attempted \union {d.selected} \in SUBSET Selectors
  BY <1>1 DEF Decisions, Decide, RecoveryActions, AgentStates
<1>3. s \in AgentStates /\ s.count = st.count + 1 /\ s.retries = st.retries /\ s.step = st.step /\ s.ranked = st.ranked
  BY <1>1, <1>2 DEF AgentStates
<1>4. Sent(st, d) = _transition(s, "HEALING_PENDING_VALIDATION")
  BY DEF Sent
<1> HIDE DEF s
<1>5. Good(s)
  BY <1>1, <1>3 DEF Good
<1>6. _transition(s, "HEALING_PENDING_VALIDATION").step = "HEALING_PENDING_VALIDATION"
  BY <1>3, <1>5, Table, StepNames, Moves
<1>7. _transition(s, "HEALING_PENDING_VALIDATION").ranked = s.ranked
  BY <1>5, StepNames, TransitionGood
<1> QED
  BY <1>3, <1>4, <1>6, <1>7

LEMMA StoppedSteps ==
  ASSUME NEW st, Good(st), NEW d \in Decisions, d.action # "TRY_HEALING"
  PROVE  /\ st.step = "DECIDING_HEALING" => Routed(st, d).step \in {"ABORTED", "COMPLETED"}
         /\ st.step = "HEALING_PENDING_VALIDATION" => _try_next_candidate(st, d).step = "COMPLETED"
<1>1. d.action \in RecoveryActions
  BY DEF Decisions, Decide, RecoveryActions
<1> DEFINE s == [st EXCEPT !.decision = d.action]
<1>2. Good(s) /\ s.step = st.step
  BY <1>1, DecidedGood DEF Good, AgentStates
<1>3. _try_next_candidate(st, d) = _transition(_transition(s, "HEALING_FAILED"), "COMPLETED")
  BY DEF _try_next_candidate
<1>4. \E t \in {"ABORTED", "COMPLETED"} : Routed(st, d) = _transition(s, t)
  BY DEF Routed
<1> HIDE DEF s
<1>5. ASSUME st.step = "DECIDING_HEALING" PROVE Routed(st, d).step \in {"ABORTED", "COMPLETED"}
  BY <1>2, <1>4, <1>5, Table, StepNames, Moves
<1>6. ASSUME st.step = "HEALING_PENDING_VALIDATION" PROVE _try_next_candidate(st, d).step = "COMPLETED"
  BY <1>2, <1>3, <1>6, Table, StepNames, MovesTwice
<1> QED
  BY <1>5, <1>6

LEMMA HealedSteps ==
  ASSUME NEW st, Good(st), st.step = "HEALING_PENDING_VALIDATION"
  PROVE  Healed(st).step = "COMPLETED"
BY StepNames, Table, MovesTwice DEF Healed

(* A step of one call. *)
LEMMA FitsCall ==
  ASSUME IInv, FInv, NEW c \in Calls, NEW k, NEW t, CallFits(k, t),
         calls' = [calls EXCEPT ![c] = k],
         tried' = [tried EXCEPT ![c] = t],
         \A e \in Executions : WorkflowFits(workflows'[e])
  PROVE  FInv'
<1>1. ASSUME NEW x \in Calls PROVE CallFits(calls'[x], tried'[x])
  <2>1. CASE x = c
    <3>1. calls'[x] = k /\ tried'[x] = t
      BY <2>1 DEF IInv, TypeOK
    <3> QED
      BY <3>1
  <2>2. CASE x # c
    <3>1. calls'[x] = calls[x] /\ tried'[x] = tried[x]
      BY <2>2 DEF IInv, TypeOK
    <3> QED
      BY <3>1 DEF FInv
  <2> QED
    BY <2>1, <2>2
<1> QED
  BY <1>1 DEF FInv

LEMMA FitsStore ==
  ASSUME IInv, FInv, NEW c \in Calls, NEW st, WorkflowFits(st), Store(c, st)
  PROVE  \A e \in Executions : WorkflowFits(workflows'[e])
BY DEF IInv, TypeOK, FInv, Store

LEMMA NewStateFits == WorkflowFits(NewState)
BY DEF WorkflowFits, NewState

LEMMA FitsEnded ==
  ASSUME IInv, FInv, NEW c \in Calls, NEW p \in {"done", "lost"}, NEW l, Ended(c, p, l), tried' = tried,
         \A e \in Executions : WorkflowFits(workflows'[e])
  PROVE  FInv'
<1> DEFINE k == [calls[c] EXCEPT !.pc = p, !.state = NewState, !.last = l]
<1>1. k.pc = p /\ k.state = NewState
  BY CallFacts DEF CallRecords
<1>2. calls' = [calls EXCEPT ![c] = k] /\ tried' = [tried EXCEPT ![c] = tried[c]]
  BY CallFacts DEF Ended
<1> HIDE DEF k
<1>3. CallFits(k, tried[c])
  BY <1>1, NewStateFits DEF CallFits
<1> QED
  BY <1>2, <1>3, FitsCall

LEMMA BeginFits ==
  ASSUME IInv, FInv, NEW c \in Calls, NEW e \in Executions, Begin(c, e)
  PROVE  FInv'
<1> DEFINE k == [Idle EXCEPT !.pc = "run", !.exec = e, !.runs = 1, !.state = workflows[e]]
<1>1. k.pc = "run" /\ k.state = workflows[e]
  BY DEF Idle
<1>2. calls' = [calls EXCEPT ![c] = k] /\ tried' = [tried EXCEPT ![c] = tried[c]] /\ workflows' = workflows
  BY CallFacts DEF Begin
<1> HIDE DEF k
<1>3. CallFits(k, tried[c])
  BY <1>1 DEF CallFits, FInv
<1> QED
  BY <1>2, <1>3, FitsCall DEF FInv

LEMMA StartUnreadableFits ==
  ASSUME IInv, FInv, NEW c \in Calls, NEW e \in Executions, StartUnreadable(c, e)
  PROVE  FInv'
<1> DEFINE k == [calls[c] EXCEPT !.pc = "done", !.exec = e]
<1>1. calls[c] \in CallRecords /\ calls \in [Calls -> CallRecords]
  BY CallFacts DEF IInv, TypeOK
<1>2. k.pc = "done" /\ k.state = calls[c].state
  BY <1>1 DEF CallRecords
<1>3. calls' = [calls EXCEPT ![c] = k] /\ tried' = [tried EXCEPT ![c] = tried[c]] /\ workflows' = workflows
  BY <1>1, CallFacts DEF StartUnreadable, CallRecords
<1> HIDE DEF k
<1>4. CallFits(k, tried[c])
  BY <1>2 DEF CallFits, FInv
<1> QED
  BY <1>3, <1>4, FitsCall DEF FInv

LEMMA RunFits ==
  ASSUME IInv, FInv, NEW c \in Calls, NEW result \in {"passed", "healed", "failed"},
         RunPasses(c, result) \/ RunUnrecorded(c, result) \/ RunRefused(c, result)
  PROVE  FInv'
<1>1. Good(calls[c].state)
  BY CallFacts
<1>2. tried' = tried /\ \E p \in {"done", "lost"} : Ended(c, p, result)
  BY EndLastRecord DEF RunPasses, RunUnrecorded, RunRefused
<1>3. CASE RunPasses(c, result) \/ RunUnrecorded(c, result)
  <2>1. Succeeded(calls[c].state).step = "COMPLETED"
    BY <1>1, <1>3, PendingSteps DEF RunPasses, RunUnrecorded
  <2>2. WorkflowFits(Succeeded(calls[c].state))
    BY <2>1 DEF WorkflowFits
  <2>3. \A e \in Executions : WorkflowFits(workflows'[e])
    BY <1>3, <2>2, FitsStore DEF RunPasses, RunUnrecorded
  <2> QED
    BY <1>2, <2>3, FitsEnded
<1>4. CASE RunRefused(c, result)
  <2>1. \A e \in Executions : WorkflowFits(workflows'[e])
    BY <1>4 DEF RunRefused, FInv
  <2> QED
    BY <1>2, <2>1, FitsEnded
<1> QED
  BY <1>3, <1>4

LEMMA RunFailsFits ==
  ASSUME IInv, FInv, NEW c \in Calls, RunFails(c)
  PROVE  FInv'
<1> DEFINE st == Detected(calls[c].state)
           k == [calls[c] EXCEPT !.pc = "analyze", !.last = "failed", !.state = st]
<1>1. calls[c] \in CallRecords /\ calls \in [Calls -> CallRecords] /\ Good(calls[c].state)
  BY CallFacts DEF IInv, TypeOK
<1>2. calls[c].state.attempted = {}
  BY DEF RunFails, Accepts, FInv, CallFits, WorkflowFits
<1>3. st.step = "ANALYZING_FAILURE" /\ st.attempted = {}
  BY <1>1, <1>2, PendingSteps DEF RunFails
<1>4. calls' = [calls EXCEPT ![c] = k]
  BY <1>1 DEF RunFails, CallRecords
<1> HIDE DEF st
<1>5. k.pc = "analyze" /\ k.state = st
  BY <1>1 DEF CallRecords
<1>6. tried' = [tried EXCEPT ![c] = tried[c]] /\ workflows' = workflows
  BY CallFacts DEF RunFails
<1> HIDE DEF k
<1>7. CallFits(k, tried[c])
  BY <1>3, <1>5 DEF CallFits, WorkflowFits
<1> QED
  BY <1>4, <1>6, <1>7, FitsCall DEF FInv

LEMMA AnalyzedFits ==
  ASSUME IInv, FInv, NEW c \in Calls, NEW type \in SeenFailures,
         AnalyzedRetry(c, type) \/ AnalyzedHealable(c, type) \/ AnalyzedEnd(c, type)
  PROVE  FInv'
<1> DEFINE st == Classified(calls[c].state, type)
<1>1. calls[c] \in CallRecords /\ calls \in [Calls -> CallRecords] /\ Good(calls[c].state) /\ type \in FailureTypes
  BY CallFacts, AgentWorkflowAssumption DEF IInv, TypeOK
<1>2. calls[c].state.step = "ANALYZING_FAILURE" /\ calls[c].state.attempted = {}
  BY DEF AnalyzedRetry, AnalyzedHealable, AnalyzedEnd, FInv, CallFits
<1>3. st.step \in {"ABORTED", "EXECUTION_PENDING", "COMPLETED", "GENERATING_CANDIDATES"} /\ st.attempted = {}
  BY <1>1, <1>2, ClassifiedSteps, ClassifiedGood
<1>4. WorkflowFits(st)
  BY <1>3 DEF WorkflowFits
<1>5. tried' = tried /\ tried = [tried EXCEPT ![c] = tried[c]]
  BY CallFacts DEF AnalyzedRetry, AnalyzedHealable, AnalyzedEnd
<1>6. CASE AnalyzedRetry(c, type)
  <2> DEFINE k == [calls[c] EXCEPT !.pc = "run", !.state = st, !.retries = @ + 1, !.runs = @ + 1]
  <2>1. calls' = [calls EXCEPT ![c] = k]
    BY <1>1, <1>6 DEF AnalyzedRetry, CallRecords
  <2>2. \A e \in Executions : WorkflowFits(workflows'[e])
    BY <1>4, <1>6, FitsStore DEF AnalyzedRetry
  <2> HIDE DEF st
  <2>3. k.pc = "run" /\ k.state = st
    BY <1>1 DEF CallRecords
  <2> HIDE DEF k
  <2>4. CallFits(k, tried[c])
    BY <1>4, <2>3 DEF CallFits
  <2> QED
    BY <1>5, <2>1, <2>2, <2>4, FitsCall
<1>7. CASE AnalyzedHealable(c, type)
  <2> DEFINE k == [calls[c] EXCEPT !.pc = "candidates", !.state = st]
  <2>1. calls' = [calls EXCEPT ![c] = k] /\ st.step = "GENERATING_CANDIDATES" /\ workflows' = workflows
    BY <1>1, <1>7 DEF AnalyzedHealable, CallRecords
  <2> HIDE DEF st
  <2>2. k.pc = "candidates" /\ k.state = st
    BY <1>1 DEF CallRecords
  <2> HIDE DEF k
  <2>3. CallFits(k, tried[c])
    BY <1>3, <1>4, <2>1, <2>2 DEF CallFits
  <2> QED
    BY <1>5, <2>1, <2>3, FitsCall DEF FInv
<1>8. CASE AnalyzedEnd(c, type)
  <2>1. \A e \in Executions : WorkflowFits(workflows'[e])
    BY <1>4, <1>8, FitsStore DEF AnalyzedEnd
  <2>2. Ended(c, "done", calls[c].last)
    BY <1>8, EndRecord DEF AnalyzedEnd, End
  <2> QED
    BY <1>5, <2>1, <2>2, FitsEnded
<1> QED
  BY <1>6, <1>7, <1>8

LEMMA ValidateFits ==
  ASSUME IInv, FInv, NEW c \in Calls, NEW st, Validate(c, st), Store(c, st),
         st.step = "HEALING_PENDING_VALIDATION", st.ranked \in Rankings,
         st.attempted = tried[c] \union {st.selected}
  PROVE  FInv'
<1> DEFINE k == [calls[c] EXCEPT !.pc = "validate", !.state = st, !.tries = @ + 1, !.runs = @ + 1]
           t == tried[c] \union {st.selected}
<1>1. calls[c] \in CallRecords /\ calls \in [Calls -> CallRecords]
  BY CallFacts DEF IInv, TypeOK
<1>2. k.pc = "validate" /\ k.state = st
  BY <1>1 DEF CallRecords
<1>3. calls' = [calls EXCEPT ![c] = k] /\ tried' = [tried EXCEPT ![c] = t]
  BY <1>1, CallFacts DEF Validate, CallRecords
<1>4. st.attempted = t /\ st.selected \in t
  OBVIOUS
<1> HIDE DEF k, t
<1>5. WorkflowFits(st)
  BY DEF WorkflowFits
<1>6. CallFits(k, t)
  BY <1>2, <1>4, <1>5 DEF CallFits
<1>7. \A e \in Executions : WorkflowFits(workflows'[e])
  BY <1>5, FitsStore
<1> QED
  BY <1>3, <1>6, <1>7, FitsCall

LEMMA RecommendedFits ==
  ASSUME IInv, FInv, NEW c \in Calls, NEW ranked \in Rankings, NEW d \in Decisions,
         RecommendedTry(c, ranked, d) \/ RecommendedEnd(c, ranked, d)
  PROVE  FInv'
<1> DEFINE old == calls[c].state
           mid == Ranked(old, ranked)
           st == Routed(mid, d)
<1>1. ranked \in Seq(Candidates) /\ Recommended(c, ranked, d) /\ calls[c].pc = "candidates"
  BY AgentWorkflowAssumption DEF RecommendedTry, RecommendedEnd, Recommended
<1>2. old.step = "GENERATING_CANDIDATES" /\ old.attempted = {} /\ Good(old) /\ old.count \in Nat
  BY <1>1, CallFacts DEF FInv, CallFits, AgentStates
<1>3. tried[c] = {}
  BY <1>1, <1>2, CallFacts DEF CallOK, Flying
<1>4. mid.step = "DECIDING_HEALING" /\ mid.ranked = ranked /\ Good(mid) /\ mid.attempted = {} /\ mid.count = old.count
  BY <1>1, <1>2, RankedSteps, RankedGood
<1>5. Store(c, st)
  BY DEF RecommendedTry, RecommendedEnd
<1>6. CASE d.action = "TRY_HEALING"
  <2>1. Validate(c, st)
    BY <1>6 DEF RecommendedTry, RecommendedEnd
  <2>2. old.count < MaxHealing /\ d.selected \in Selectors
    BY <1>1, <1>2, <1>6, EvaluateOffer DEF Recommended
  <2>3. st = Sent(mid, d)
    BY <1>6, TriedGood
  <2> HIDE DEF st, mid, old
  <2>4. st.step = "HEALING_PENDING_VALIDATION" /\ st.ranked = ranked
    BY <1>4, <2>2, <2>3, SentSteps
  <2>5. st.attempted = {d.selected} /\ st.selected = d.selected
    BY <1>4, <2>2, <2>3, SentGood
  <2>6. st.attempted = tried[c] \union {st.selected}
    BY <1>3, <2>5
  <2> QED
    BY <1>5, <2>1, <2>4, <2>6, ValidateFits
<1>7. CASE d.action # "TRY_HEALING"
  <2>1. End(c, "FAILED") /\ tried' = tried
    BY <1>7 DEF RecommendedTry, RecommendedEnd
  <2>2. st.step \in {"ABORTED", "COMPLETED"}
    BY <1>4, <1>7, StoppedSteps
  <2> HIDE DEF st
  <2>3. WorkflowFits(st)
    BY <2>2 DEF WorkflowFits
  <2>4. \A e \in Executions : WorkflowFits(workflows'[e])
    BY <1>5, <2>3, FitsStore
  <2>5. Ended(c, "done", calls[c].last)
    BY <2>1, EndRecord DEF End
  <2> QED
    BY <2>1, <2>4, <2>5, FitsEnded
<1> QED
  BY <1>6, <1>7

LEMMA HealPassesFits ==
  ASSUME IInv, FInv, NEW c \in Calls, HealPasses(c)
  PROVE  FInv'
<1>1. Healed(calls[c].state).step = "COMPLETED"
  BY CallFacts, HealedSteps DEF HealPasses, FInv, CallFits
<1>2. WorkflowFits(Healed(calls[c].state))
  BY <1>1 DEF WorkflowFits
<1>3. \A e \in Executions : WorkflowFits(workflows'[e])
  BY <1>2, FitsStore DEF HealPasses
<1>4. Ended(c, "done", "passed") /\ tried' = tried
  BY EndLastRecord DEF HealPasses
<1> QED
  BY <1>3, <1>4, FitsEnded

LEMMA HealFailedFits ==
  ASSUME IInv, FInv, NEW c \in Calls, NEW d \in Decisions, HealNext(c, d) \/ HealStop(c, d)
  PROVE  FInv'
<1> DEFINE old == calls[c].state
           mid == Failed(old)
           st == _try_next_candidate(mid, d)
<1>1. HealFailed(c, d) /\ Store(c, st) /\ calls[c].pc = "validate"
  BY DEF HealNext, HealStop, HealFailed
<1>2. /\ old.step = "HEALING_PENDING_VALIDATION" /\ old.attempted = tried[c] /\ old.selected \in tried[c]
      /\ old.ranked \in Rankings /\ Good(old) /\ old.selected \in Selectors /\ old.count \in Nat
  BY <1>1, CallFacts DEF FInv, CallFits, CallOK, AgentStates
<1>3. mid.step = "HEALING_PENDING_VALIDATION" /\ mid.attempted = tried[c] /\ Good(mid)
  BY <1>2, FailedGood DEF Failed, Good, AgentStates
<1>4. mid.ranked = old.ranked /\ mid.count = old.count /\ old.ranked \in Seq(Candidates)
  BY <1>2, FailedGood DEF Good, AgentStates
<1>5. ASSUME d.action = "TRY_HEALING"
      PROVE  /\ st.step = "HEALING_PENDING_VALIDATION" /\ st.ranked \in Rankings
             /\ st.attempted = tried[c] \union {st.selected}
  <2>1. evaluate_continuation(mid.ranked, mid.count, mid.attempted, d)
    BY <1>1 DEF HealFailed
  <2> HIDE DEF mid, old
  <2>2. mid.count < MaxHealing /\ d.selected \in Selectors
    BY <1>2, <1>4, <1>5, <2>1, ContinuationOffer
  <2>3. st = Sent(mid, d)
    BY <1>5, TriedGood
  <2> HIDE DEF st
  <2> QED
    BY <1>2, <1>3, <1>4, <2>2, <2>3, SentSteps, SentGood
<1>6. CASE HealNext(c, d)
  <2>1. Validate(c, st) /\ d.action = "TRY_HEALING"
    BY <1>6 DEF HealNext
  <2> HIDE DEF st
  <2> QED
    BY <1>1, <1>5, <2>1, ValidateFits
<1>7. CASE HealStop(c, d)
  <2>1. st.step \in {"HEALING_PENDING_VALIDATION", "COMPLETED"}
    BY <1>3, <1>5, StoppedSteps
  <2>2. End(c, "FAILED") /\ tried' = tried
    BY <1>7 DEF HealStop
  <2> HIDE DEF st
  <2>3. WorkflowFits(st)
    BY <2>1 DEF WorkflowFits
  <2>4. \A e \in Executions : WorkflowFits(workflows'[e])
    BY <1>1, <2>3, FitsStore
  <2>5. Ended(c, "done", calls[c].last)
    BY <2>2, EndRecord DEF End
  <2> QED
    BY <2>2, <2>4, <2>5, FitsEnded
<1> QED
  BY <1>6, <1>7

LEMMA LostFits ==
  ASSUME IInv, FInv, NEW c \in Calls, Crash(c) \/ Cancel(c)
  PROVE  FInv'
<1>1. \E p \in {"done", "lost"} : Ended(c, p, calls[c].last)
  BY EndRecord DEF Crash, Cancel, End
<1>2. tried' = tried /\ workflows' = workflows
  BY DEF Crash, Cancel
<1> QED
  BY <1>1, <1>2, FitsEnded DEF FInv

LEMMA RestartFits ==
  ASSUME IInv, FInv, Restart
  PROVE  FInv'
<1>1. ASSUME NEW c \in Calls PROVE CallFits(calls'[c], tried'[c])
  <2>1. calls[c] \in CallRecords /\ CallFits(calls[c], tried[c]) /\ tried' = tried
    BY CallFacts DEF FInv, Restart
  <2>2. CASE InFlight(c)
    <3>1. calls'[c].pc = "lost" /\ calls'[c].state = NewState
      BY <2>1, <2>2 DEF Restart, CallRecords
    <3> QED
      BY <3>1, NewStateFits DEF CallFits
  <2>3. CASE ~InFlight(c)
    <3>1. calls'[c] = calls[c]
      BY <2>3 DEF Restart
    <3> QED
      BY <2>1, <3>1
  <2> QED
    BY <2>2, <2>3
<1>2. \A e \in Executions : WorkflowFits(workflows'[e])
  BY NewStateFits DEF Restart
<1> QED
  BY <1>1, <1>2 DEF FInv

LEMMA NextFits ==
  ASSUME IInv, FInv, Next
  PROVE  FInv'
<1>1. ASSUME NEW c \in Calls, Advance(c)
      PROVE  FInv'
  BY <1>1, RunFits, RunFailsFits, AnalyzedFits, RecommendedFits, HealPassesFits, HealFailedFits DEF Advance
<1> QED
  BY <1>1, BeginFits, StartUnreadableFits, RunFits, LostFits, RestartFits DEF Next, Start, StartSecond

LEMMA InitFits == Init => FInv
<1>1. Idle.state = NewState /\ Idle.pc = "idle"
  BY DEF Idle
<1>2. CallFits(Idle, {})
  BY <1>1, NewStateFits DEF CallFits
<1> QED
  BY <1>2, NewStateFits DEF Init, FInv

LEMMA FitsHolds == Spec => []FInv
<1>1. IInv /\ FInv /\ [Next]_vars => FInv'
  BY NextFits DEF vars, FInv
<1> QED
  BY <1>1, InitFits, InvariantHolds, PTL DEF Spec

(* _transition never raises: for every policy, every ranking and any number *)
(* of overlapping, crashing, cancelled and restarted calls, each operation  *)
(* of the agent orchestrator finds the workflow in a step from which its    *)
(* own transitions are in the table.                                        *)
THEOREM TransitionsAreValid == Spec => []NoInvalidTransition
<1>1. FInv => NoInvalidTransition
  BY DEF FInv, CallFits, WorkflowFits, NoInvalidTransition
<1> QED
  BY <1>1, FitsHolds, PTL

-----------------------------------------------------------------------------
(* Guesses. *)

LEMMA Least ==
  ASSUME NEW T, T \subseteq Nat, T # {}
  PROVE  \E x \in T : \A y \in T : x <= y
<1> DEFINE R == OpToRel(<, Nat)
<1>1. IsWellFoundedOn(R, Nat)
  BY NatLessThanWellFounded
<1> HIDE DEF R
<1>2. PICK x \in T : \A y \in T : ~(<<y, x>> \in R)
  BY <1>1, WFMin
<1>3. \A a, b \in Nat : a < b => <<a, b>> \in R
  BY DEF R, OpToRel
<1>4. \A y \in T : y \in Nat /\ x \in Nat /\ ~(y < x)
  BY <1>2, <1>3
<1>5. \A y \in T : x <= y
  BY <1>4
<1> QED
  BY <1>2, <1>5

(* The selector sent is trusted and stands clear of every other selector of *)
(* the ranking that is good enough and not in the set tr.                   *)
Sure(ranked, sel, tr) ==
  \E i \in DOMAIN ranked :
    /\ ranked[i].selector = sel
    /\ Trusted(ranked[i])
    /\ \A j \in DOMAIN ranked :
         (j # i /\ ranked[j].selector \notin tr)
           => ranked[i].confidence > ranked[j].confidence + Margin
              \/ ranked[j].confidence < MinScore

(* The policy compares the best candidate with the runner-up only: because  *)
(* the ranking is sorted, the rest of the candidates is further away.       *)
LEMMA OfferIsSure ==
  ASSUME NEW ranked \in Rankings, NEW tr, NEW d \in Decisions, d.action = "TRY_HEALING",
         _evaluate_healing(ranked, _filter_eligible_candidates(ranked, tr), d)
  PROVE  Sure(ranked, d.selected, tr)
<1> DEFINE eligible == _filter_eligible_candidates(ranked, tr)
<1>1. ranked \in Seq(Candidates) /\ \A i, j \in DOMAIN ranked : i < j => ranked[i].confidence >= ranked[j].confidence
  BY AgentWorkflowAssumption
<1>2. \A i \in DOMAIN ranked : i \in Nat /\ ranked[i].confidence \in Int
  <2>1. \A i \in DOMAIN ranked : i \in Nat /\ ranked[i] \in Candidates
    BY <1>1
  <2>2. \A k \in Candidates : k.confidence \in Int
    BY DEF Candidates
  <2> QED
    BY <2>1, <2>2
<1>3. \A i : i \in eligible <=> i \in DOMAIN ranked /\ ranked[i].selector \notin tr /\ ranked[i].confidence >= MinScore
  BY DEF _filter_eligible_candidates
<1>4. PICK best \in eligible :
        /\ RankedFirst(best, eligible)
        /\ ~Ambiguous(ranked, best, eligible \ {best})
        /\ Trusted(ranked[best])
        /\ d.selected = ranked[best].selector
  <2>1. \A a : a # "TRY_HEALING" => d # Decide(a)
    BY DEF Decide
  <2>2. PICK best \in eligible :
          /\ RankedFirst(best, eligible)
          /\ d = IF Ambiguous(ranked, best, eligible \ {best})
                 THEN Decide("REQUIRE_FURTHER_ANALYSIS")
                 ELSE IF Trusted(ranked[best])
                 THEN [action |-> "TRY_HEALING", selected |-> ranked[best].selector]
                 ELSE Decide("DO_NOT_HEAL")
    BY DEF _evaluate_healing
  <2>3. ~Ambiguous(ranked, best, eligible \ {best}) /\ Trusted(ranked[best])
    BY <2>1, <2>2
  <2> QED
    BY <2>2, <2>3
<1>5. Margin \in Int /\ MinScore \in Int
  BY RecoveryPolicyAssumption
<1> HIDE DEF eligible
<1>6. ASSUME NEW j \in DOMAIN ranked, j # best, ranked[j].selector \notin tr, ~(ranked[j].confidence < MinScore)
      PROVE  ranked[best].confidence > ranked[j].confidence + Margin
  <2> DEFINE others == eligible \ {best}
  <2>1. j \in others /\ others \subseteq Nat
    BY <1>2, <1>3, <1>5, <1>6
  <2>2. PICK second \in others : \A y \in others : second <= y
    BY <2>1, Least
  <2>3. ~(ranked[best].confidence - ranked[second].confidence <= Margin)
    BY <1>4, <2>2 DEF Ambiguous, RankedFirst
  <2>4. second \in DOMAIN ranked /\ second <= j /\ best \in DOMAIN ranked
    BY <1>3, <1>4, <2>1, <2>2
  <2>5. ranked[second].confidence >= ranked[j].confidence
    <3>1. CASE second = j
      BY <1>2, <3>1
    <3>2. CASE second # j
      <4>1. second < j
        BY <1>2, <2>4, <3>2
      <4> QED
        BY <1>1, <2>4, <4>1
    <3> QED
      BY <3>1, <3>2
  <2>6. /\ ranked[best].confidence \in Int /\ ranked[second].confidence \in Int
        /\ ranked[j].confidence \in Int
    BY <1>2, <2>4
  <2> QED
    BY <1>5, <2>3, <2>5, <2>6
<1> QED
  BY <1>3, <1>4, <1>6 DEF Sure

LEMMA OffersAreSure ==
  ASSUME NEW ranked \in Rankings, NEW tr, NEW d \in Decisions, d.action = "TRY_HEALING", NEW count,
         \/ evaluate_continuation(ranked, count, tr, d)
         \/ \E type, retries : evaluate(type, ranked, count, retries, tr, d)
  PROVE  Sure(ranked, d.selected, tr)
<1>1. _evaluate_healing(ranked, _filter_eligible_candidates(ranked, tr), d)
  BY DEF evaluate, evaluate_continuation, Decide
<1> QED
  BY <1>1, OfferIsSure

SureStep == \A c \in Calls : calls'[c].tries > calls[c].tries
              => Sure(calls'[c].state.ranked, calls'[c].state.selected, tried[c])

(* The selectors a workflow state excludes are those its call validated. *)
LEMMA SendsSure ==
  ASSUME IInv, FInv, NEW c \in Calls, Sends(c)
  PROVE  Sure(calls'[c].state.ranked, calls'[c].state.selected, tried[c])
<1> DEFINE old == calls[c].state
<1>1. calls \in [Calls -> CallRecords] /\ calls[c] \in CallRecords /\ Good(old) /\ old.count \in Nat
  BY CallFacts DEF IInv, TypeOK, AgentStates
<1>2. ASSUME NEW ranked \in Rankings, NEW d \in Decisions, RecommendedTry(c, ranked, d)
      PROVE  Sure(calls'[c].state.ranked, calls'[c].state.selected, tried[c])
  <2> DEFINE mid == Ranked(old, ranked)
             st == Routed(mid, d)
  <2>1. ranked \in Seq(Candidates) /\ calls[c].pc = "candidates" /\ d.action = "TRY_HEALING" /\ Validate(c, st)
    BY <1>2, AgentWorkflowAssumption DEF RecommendedTry, Recommended
  <2>2. old.step = "GENERATING_CANDIDATES" /\ old.attempted = {}
    BY <2>1 DEF FInv, CallFits
  <2>3. tried[c] = old.attempted
    BY <2>1, <2>2, CallFacts DEF CallOK, Flying
  <2>4. evaluate(old.type, ranked, old.count, old.retries, old.attempted, d)
    BY <1>2 DEF RecommendedTry, Recommended
  <2>5. old.count < MaxHealing /\ d.selected \in Selectors
    BY <1>1, <2>1, <2>4, EvaluateOffer
  <2>6. Sure(ranked, d.selected, tried[c])
    BY <2>1, <2>3, <2>4, OffersAreSure
  <2>7. mid.step = "DECIDING_HEALING" /\ mid.ranked = ranked /\ Good(mid) /\ mid.count = old.count
    BY <1>1, <2>1, <2>2, RankedSteps, RankedGood
  <2>8. st = Sent(mid, d)
    BY <2>1, TriedGood
  <2> HIDE DEF st, mid, old
  <2>9. st.ranked = ranked /\ st.selected = d.selected
    BY <2>5, <2>7, <2>8, SentSteps, SentGood
  <2>10. calls'[c].state = st
    BY <1>1, <2>1 DEF Validate, CallRecords
  <2> QED
    BY <2>6, <2>9, <2>10
<1>3. ASSUME NEW d \in Decisions, HealNext(c, d)
      PROVE  Sure(calls'[c].state.ranked, calls'[c].state.selected, tried[c])
  <2> DEFINE mid == Failed(old)
             st == _try_next_candidate(mid, d)
  <2>1. /\ calls[c].pc = "validate" /\ d.action = "TRY_HEALING" /\ Validate(c, st)
        /\ evaluate_continuation(mid.ranked, mid.count, mid.attempted, d)
    BY <1>3 DEF HealNext, HealFailed
  <2>2. /\ old.step = "HEALING_PENDING_VALIDATION" /\ old.attempted = tried[c] /\ old.selected \in tried[c]
        /\ old.ranked \in Rankings /\ old.selected \in Selectors
    BY <2>1, CallFacts DEF FInv, CallFits, CallOK
  <2>3. mid.step = "HEALING_PENDING_VALIDATION" /\ mid.attempted = tried[c] /\ Good(mid)
    <3>1. Good(mid)
      BY <1>1, <2>2, FailedGood
    <3>2. mid.step = old.step /\ mid.attempted = old.attempted \union {old.selected}
      BY <1>1 DEF Failed, Good, AgentStates
    <3> QED BY <2>2, <3>1, <3>2
  <2>4. mid.ranked = old.ranked /\ mid.count = old.count /\ old.ranked \in Seq(Candidates)
    <3>1. mid.ranked = old.ranked /\ mid.count = old.count
      BY <1>1, <2>2, FailedGood
    <3>2. old.ranked \in Seq(Candidates)
      BY <1>1 DEF Good, AgentStates
    <3> QED BY <3>1, <3>2
  <2>5. st = Sent(mid, d)
    BY <2>1, TriedGood
  <2> HIDE DEF st, mid, old
  <2>6. mid.count < MaxHealing /\ d.selected \in Selectors
    BY <1>1, <2>1, <2>4, ContinuationOffer
  <2>7. Sure(old.ranked, d.selected, tried[c])
    BY <2>1, <2>2, <2>3, <2>4, OffersAreSure
  <2>8. st.ranked = old.ranked /\ st.selected = d.selected
    BY <2>3, <2>4, <2>5, <2>6, SentSteps, SentGood
  <2>9. calls'[c].state = st
    BY <1>1, <2>1 DEF Validate, CallRecords
  <2> QED
    BY <2>7, <2>8, <2>9
<1> QED
  BY <1>2, <1>3 DEF Sends

(* A selector goes to the browser only when the policy trusts it and every  *)
(* selector the call has not validated yet is worse by more than the        *)
(* ambiguity margin or below the score that counts, for every sorted        *)
(* ranking, in the first recommendation and in every continuation after a   *)
(* failed heal.                                                             *)
THEOREM HealsAreNoGuess == Spec => NeverOnAGuess
<1>1. IInv /\ FInv /\ [Next]_vars => [SureStep]_vars
  BY NextTries, SendsTries, SendsSure DEF SureStep, SameTries
<1>2. [][SureStep]_vars => NeverOnAGuess
  BY DEF SureStep, Sure, NeverOnAGuess
<1> QED
  BY <1>1, <1>2, InvariantHolds, FitsHolds, PTL DEF Spec

-----------------------------------------------------------------------------
(* The record of an execution. *)

(* Another call than c has taken up execution e. *)
Taken(ks, c, e) == \E d \in Calls \ {c} : ks[d].pc # "idle" /\ ks[d].exec = e

(* A record that shows s fits a call that last saw l, f faults so far. *)
Honest(s, l, f) ==
  /\ s \in {"PASSED", "HEALED"} => l \in {"passed", "healed"}
  /\ f = 0 => (l \in {"passed", "healed"} => s \in {"PASSED", "HEALED"})

LastFits(k) ==
  /\ k.pc \in {"analyze", "candidates", "validate"} => k.last = "failed"
  /\ k.pc = "idle" => k.last = "none"

(* A workflow that no longer accepts a result was moved on by a call that   *)
(* has taken up the execution, so a call whose result is refused is not the *)
(* only one of its execution.                                               *)
HInv ==
  /\ \A c \in Calls : LastFits(calls[c])
  /\ \A e \in Executions : ~Accepts(workflows[e]) => \E d \in Calls : calls[d].pc # "idle" /\ calls[d].exec = e
  /\ \A c \in Calls : calls[c].pc = "run" /\ ~Accepts(calls[c].state) => Taken(calls, c, calls[c].exec)
  /\ \A c \in Calls : calls[c].pc = "done" /\ ~Taken(calls, c, calls[c].exec)
                        => Honest(status[calls[c].exec], calls[c].last, faults)

(* A step of call c, whose record becomes k. *)
LEMMA HonestStep ==
  ASSUME IInv, HInv, NEW c \in Calls, NEW k, LastFits(k), k.pc # "idle", k.exec \in Executions,
         calls' = [calls EXCEPT ![c] = k],
         calls[c].pc # "idle" => k.exec = calls[c].exec,
         \A e \in Executions \ {k.exec} : status'[e] = status[e] /\ workflows'[e] = workflows[e],
         k.pc = "run" /\ ~Accepts(k.state) => Taken(calls, c, k.exec),
         k.pc = "done" /\ ~Taken(calls, c, k.exec) => Honest(status'[k.exec], k.last, faults'),
         faults' = 0 => faults = 0
  PROVE  HInv'
<1>1. calls'[c] = k /\ \A x \in Calls \ {c} : calls'[x] = calls[x]
  BY DEF IInv, TypeOK
<1>2. \A e : Taken(calls', c, e) <=> Taken(calls, c, e)
  BY <1>1 DEF Taken
<1>3. ASSUME NEW x \in Calls \ {c}, NEW e PROVE (Taken(calls, x, e) => Taken(calls', x, e)) /\ (e = k.exec => Taken(calls', x, e))
  BY <1>1 DEF Taken
<1>4. \A x \in Calls : LastFits(calls'[x])
  BY <1>1 DEF HInv
<1>5. \A e \in Executions : ~Accepts(workflows'[e]) => \E d \in Calls : calls'[d].pc # "idle" /\ calls'[d].exec = e
  <2> SUFFICES ASSUME NEW e \in Executions, e # k.exec, ~Accepts(workflows'[e])
               PROVE  \E d \in Calls : calls'[d].pc # "idle" /\ calls'[d].exec = e
    BY <1>1
  <2>1. PICK d \in Calls : calls[d].pc # "idle" /\ calls[d].exec = e
    BY DEF HInv
  <2> QED
    BY <1>1, <2>1
<1>6. ASSUME NEW x \in Calls PROVE calls'[x].pc = "run" /\ ~Accepts(calls'[x].state) => Taken(calls', x, calls'[x].exec)
  <2>1. CASE x = c
    BY <1>1, <1>2, <2>1
  <2>2. CASE x # c
    BY <1>1, <1>3, <2>2 DEF HInv
  <2> QED
    BY <2>1, <2>2
<1>7. ASSUME NEW x \in Calls, calls'[x].pc = "done", ~Taken(calls', x, calls'[x].exec)
      PROVE  Honest(status'[calls'[x].exec], calls'[x].last, faults')
  <2>1. CASE x = c
    BY <1>1, <1>2, <1>7, <2>1
  <2>2. CASE x # c
    <3>1. calls'[x] = calls[x] /\ calls[x].exec \in Executions /\ calls[x].exec # k.exec
      BY <1>1, <1>3, <1>7, <2>2, CallFacts DEF CallRecords
    <3>2. ~Taken(calls, x, calls[x].exec)
      BY <1>3, <1>7, <2>2, <3>1
    <3>3. Honest(status[calls[x].exec], calls[x].last, faults)
      BY <1>7, <3>1, <3>2 DEF HInv
    <3>4. status'[calls[x].exec] = status[calls[x].exec]
      BY <3>1
    <3> QED
      BY <3>1, <3>3, <3>4 DEF Honest
  <2> QED
    BY <2>1, <2>2
<1> QED
  BY <1>4, <1>5, <1>6, <1>7 DEF HInv

(* A call ends. *)
LEMMA HonestEnd ==
  ASSUME IInv, HInv, NEW c \in Calls, calls[c].pc # "idle", NEW p \in {"done", "lost"}, NEW l \in Lasts,
         Ended(c, p, l),
         \A e \in Executions \ {calls[c].exec} : status'[e] = status[e] /\ workflows'[e] = workflows[e],
         p = "done" /\ ~Taken(calls, c, calls[c].exec) => Honest(status'[calls[c].exec], l, faults'),
         faults' = 0 => faults = 0
  PROVE  HInv'
<1> DEFINE k == [calls[c] EXCEPT !.pc = p, !.state = NewState, !.last = l]
<1>1. calls[c] \in CallRecords /\ calls[c].exec \in Executions
  BY CallFacts DEF CallRecords
<1>2. k.pc = p /\ k.exec = calls[c].exec /\ k.last = l /\ calls' = [calls EXCEPT ![c] = k]
  BY <1>1 DEF CallRecords, Ended
<1> HIDE DEF k
<1>3. LastFits(k) /\ k.pc # "idle" /\ k.pc # "run"
  BY <1>2 DEF LastFits
<1> QED
  BY <1>1, <1>2, <1>3, HonestStep

LEMMA FaultCounts ==
  ASSUME IInv, NEW kind, Fault(kind)
  PROVE  faults' # 0
BY DEF IInv, TypeOK, Fault

LEMMA BeginHonest ==
  ASSUME IInv, HInv, NEW c \in Calls, NEW e \in Executions, Begin(c, e), faults' = 0 => faults = 0
  PROVE  HInv'
<1> DEFINE k == [Idle EXCEPT !.pc = "run", !.exec = e, !.runs = 1, !.state = workflows[e]]
<1>1. k.pc = "run" /\ k.exec = e /\ k.state = workflows[e]
  BY DEF Idle
<1>2. calls[c].pc = "idle" /\ calls' = [calls EXCEPT ![c] = k] /\ workflows' = workflows
  BY DEF Begin
<1>3. \A f \in Executions \ {e} : status'[f] = status[f]
  BY DEF Begin, IInv, TypeOK
<1> HIDE DEF k
<1>4. ~Accepts(workflows[e]) => Taken(calls, c, e)
  BY <1>2 DEF HInv, Taken
<1>5. LastFits(k)
  BY <1>1 DEF LastFits
<1> QED
  BY <1>1, <1>2, <1>3, <1>4, <1>5, HonestStep

LEMMA StartUnreadableHonest ==
  ASSUME IInv, HInv, NEW c \in Calls, NEW e \in Executions, StartUnreadable(c, e)
  PROVE  HInv'
<1> DEFINE k == [calls[c] EXCEPT !.pc = "done", !.exec = e]
<1>1. calls[c] \in CallRecords /\ calls \in [Calls -> CallRecords] /\ calls[c].pc = "idle"
  BY CallFacts DEF IInv, TypeOK, StartUnreadable
<1>2. k.pc = "done" /\ k.exec = e /\ k.last = "none"
  BY <1>1 DEF CallRecords, HInv, LastFits
<1>3. calls' = [calls EXCEPT ![c] = k] /\ workflows' = workflows /\ faults' = faults
  BY <1>1 DEF StartUnreadable, CallRecords
<1>4. status'[e] = "FAILED" /\ \A f \in Executions \ {e} : status'[f] = status[f]
  BY DEF StartUnreadable, IInv, TypeOK
<1> HIDE DEF k
<1>5. LastFits(k) /\ Honest(status'[e], k.last, faults')
  BY <1>2, <1>4 DEF LastFits, Honest
<1> QED
  BY <1>1, <1>2, <1>3, <1>4, <1>5, HonestStep

(* What a call writes: its own execution's record and workflow state. *)
LEMMA OwnStatus ==
  ASSUME IInv, NEW c \in Calls, NEW s, status' = [status EXCEPT ![calls[c].exec] = s]
  PROVE  status'[calls[c].exec] = s /\ \A e \in Executions \ {calls[c].exec} : status'[e] = status[e]
<1>1. calls[c].exec \in Executions /\ status \in [Executions -> Statuses]
  BY CallFacts DEF IInv, TypeOK, CallRecords
<1> QED
  BY <1>1

LEMMA OwnWorkflow ==
  ASSUME IInv, NEW c \in Calls, NEW st, Store(c, st)
  PROVE  \A e \in Executions \ {calls[c].exec} : workflows'[e] = workflows[e]
BY DEF Store, IInv, TypeOK

LEMMA RunPassesHonest ==
  ASSUME IInv, HInv, NEW c \in Calls, NEW result \in {"passed", "healed"}, RunPasses(c, result)
  PROVE  HInv'
<1>1. Ended(c, "done", result) /\ result \in Lasts /\ calls[c].pc # "idle" /\ faults' = faults
  BY EndLastRecord DEF RunPasses, Lasts
<1>2. /\ status'[calls[c].exec] \in {"PASSED", "HEALED"}
      /\ \A e \in Executions \ {calls[c].exec} : status'[e] = status[e]
  BY OwnStatus DEF RunPasses
<1>3. \A e \in Executions \ {calls[c].exec} : workflows'[e] = workflows[e]
  BY OwnWorkflow DEF RunPasses
<1>4. Honest(status'[calls[c].exec], result, faults')
  BY <1>2 DEF Honest
<1> QED
  BY <1>1, <1>2, <1>3, <1>4, HonestEnd

LEMMA RunUnrecordedHonest ==
  ASSUME IInv, HInv, NEW c \in Calls, NEW result \in {"passed", "healed"}, RunUnrecorded(c, result)
  PROVE  HInv'
<1>1. result \in Lasts /\ calls[c].pc # "idle" /\ faults' # 0
  BY FaultCounts DEF RunUnrecorded, Lasts
<1>2. \A e \in Executions \ {calls[c].exec} : workflows'[e] = workflows[e]
  BY OwnWorkflow DEF RunUnrecorded
<1>3. CASE status' = [status EXCEPT ![calls[c].exec] = "FAILED"] /\ Ended(c, "done", result)
  <2>1. /\ status'[calls[c].exec] = "FAILED"
        /\ \A e \in Executions \ {calls[c].exec} : status'[e] = status[e]
    BY <1>3, OwnStatus
  <2>2. Honest(status'[calls[c].exec], result, faults')
    BY <1>1, <2>1 DEF Honest
  <2> QED
    BY <1>1, <1>2, <1>3, <2>1, <2>2, HonestEnd
<1>4. CASE status' = status /\ Ended(c, "lost", result)
  BY <1>1, <1>2, <1>4, HonestEnd
<1> QED
  BY <1>3, <1>4, EndLastRecord DEF RunUnrecorded

LEMMA RunRefusedHonest ==
  ASSUME IInv, HInv, NEW c \in Calls, NEW result \in {"passed", "healed", "failed"}, RunRefused(c, result)
  PROVE  HInv'
<1>1. Ended(c, "done", result) /\ result \in Lasts /\ calls[c].pc = "run" /\ faults' = faults /\ workflows' = workflows
  BY EndLastRecord DEF RunRefused, Lasts
<1>2. \A e \in Executions \ {calls[c].exec} : status'[e] = status[e]
  BY OwnStatus DEF RunRefused
<1>3. Taken(calls, c, calls[c].exec)
  BY DEF RunRefused, HInv
<1> QED
  BY <1>1, <1>2, <1>3, HonestEnd

(* A call that saw its test fail ends as FAILED. *)
LEMMA FailedHonest ==
  ASSUME IInv, HInv, NEW c \in Calls, calls[c].pc \in {"analyze", "candidates", "validate"},
         End(c, "FAILED"), NEW st, Store(c, st), faults' = faults
  PROVE  HInv'
<1>1. Ended(c, "done", "failed") /\ "failed" \in Lasts
  BY EndRecord DEF End, HInv, LastFits, Lasts
<1>2. /\ status'[calls[c].exec] = "FAILED"
      /\ \A e \in Executions \ {calls[c].exec} : status'[e] = status[e]
  BY OwnStatus DEF End
<1>3. \A e \in Executions \ {calls[c].exec} : workflows'[e] = workflows[e]
  BY OwnWorkflow
<1>4. Honest(status'[calls[c].exec], "failed", faults')
  BY <1>2 DEF Honest
<1> QED
  BY <1>1, <1>2, <1>3, <1>4, HonestEnd

(* A call moves on without ending. *)
LEMMA MovedHonest ==
  ASSUME IInv, HInv, NEW c \in Calls, calls[c].pc # "idle", NEW k, k.exec = calls[c].exec, LastFits(k),
         k.pc \in Flying, k.pc = "run" => Accepts(k.state),
         calls' = [calls EXCEPT ![c] = k], status' = status, faults' = faults,
         \A e \in Executions \ {calls[c].exec} : workflows'[e] = workflows[e]
  PROVE  HInv'
<1>1. k.exec \in Executions /\ k.pc # "idle" /\ k.pc # "done"
  BY CallFacts DEF CallRecords, Flying
<1> QED
  BY <1>1, HonestStep

LEMMA RunFailsHonest ==
  ASSUME IInv, HInv, NEW c \in Calls, RunFails(c)
  PROVE  HInv'
<1> DEFINE k == [calls[c] EXCEPT !.pc = "analyze", !.last = "failed", !.state = Detected(calls[c].state)]
<1>1. calls[c] \in CallRecords /\ calls \in [Calls -> CallRecords]
  BY CallFacts DEF IInv, TypeOK
<1>2. k.pc = "analyze" /\ k.exec = calls[c].exec /\ k.last = "failed" /\ calls' = [calls EXCEPT ![c] = k]
  BY <1>1 DEF CallRecords, RunFails
<1>3. calls[c].pc # "idle" /\ status' = status /\ faults' = faults /\ workflows' = workflows
  BY DEF RunFails
<1> HIDE DEF k
<1>4. LastFits(k) /\ k.pc \in Flying
  BY <1>2 DEF LastFits, Flying
<1> QED
  BY <1>2, <1>3, <1>4, MovedHonest

LEMMA AnalyzedHonest ==
  ASSUME IInv, HInv, NEW c \in Calls, NEW type \in SeenFailures,
         AnalyzedRetry(c, type) \/ AnalyzedHealable(c, type) \/ AnalyzedEnd(c, type)
  PROVE  HInv'
<1> DEFINE st == Classified(calls[c].state, type)
<1>1. calls[c] \in CallRecords /\ calls \in [Calls -> CallRecords] /\ calls[c].pc = "analyze" /\ calls[c].last = "failed"
  BY CallFacts DEF IInv, TypeOK, AnalyzedRetry, AnalyzedHealable, AnalyzedEnd, HInv, LastFits
<1>2. faults' = faults
  BY DEF AnalyzedRetry, AnalyzedHealable, AnalyzedEnd
<1>3. CASE AnalyzedRetry(c, type)
  <2> DEFINE k == [calls[c] EXCEPT !.pc = "run", !.state = st, !.retries = @ + 1, !.runs = @ + 1]
  <2>1. calls' = [calls EXCEPT ![c] = k] /\ status' = status /\ Accepts(st) /\ Store(c, st)
    BY <1>1, <1>3 DEF AnalyzedRetry, CallRecords, RunsAgain
  <2> HIDE DEF st
  <2>2. k.pc = "run" /\ k.exec = calls[c].exec /\ k.state = st
    BY <1>1 DEF CallRecords
  <2> HIDE DEF k
  <2>3. LastFits(k) /\ k.pc \in Flying
    BY <2>2 DEF LastFits, Flying
  <2>4. \A e \in Executions \ {calls[c].exec} : workflows'[e] = workflows[e]
    BY <2>1, OwnWorkflow
  <2> QED
    BY <1>1, <1>2, <2>1, <2>2, <2>3, <2>4, MovedHonest
<1>4. CASE AnalyzedHealable(c, type)
  <2> DEFINE k == [calls[c] EXCEPT !.pc = "candidates", !.state = st]
  <2>1. calls' = [calls EXCEPT ![c] = k] /\ status' = status /\ workflows' = workflows
    BY <1>1, <1>4 DEF AnalyzedHealable, CallRecords
  <2> HIDE DEF st
  <2>2. k.pc = "candidates" /\ k.exec = calls[c].exec /\ k.last = "failed"
    BY <1>1 DEF CallRecords
  <2> HIDE DEF k
  <2>3. LastFits(k) /\ k.pc \in Flying
    BY <2>2 DEF LastFits, Flying
  <2> QED
    BY <1>1, <1>2, <2>1, <2>2, <2>3, MovedHonest
<1>5. CASE AnalyzedEnd(c, type)
  BY <1>1, <1>2, <1>5, FailedHonest DEF AnalyzedEnd
<1> QED
  BY <1>3, <1>4, <1>5

LEMMA ValidateHonest ==
  ASSUME IInv, HInv, NEW c \in Calls, calls[c].pc \in {"candidates", "validate"}, NEW st, Store(c, st),
         Validate(c, st), faults' = faults
  PROVE  HInv'
<1> DEFINE k == [calls[c] EXCEPT !.pc = "validate", !.state = st, !.tries = @ + 1, !.runs = @ + 1]
<1>1. calls[c] \in CallRecords /\ calls \in [Calls -> CallRecords] /\ calls[c].last = "failed"
  BY CallFacts DEF IInv, TypeOK, HInv, LastFits
<1>2. calls' = [calls EXCEPT ![c] = k] /\ status' = status
  BY <1>1 DEF Validate, CallRecords
<1>3. k.pc = "validate" /\ k.exec = calls[c].exec /\ k.last = "failed"
  BY <1>1 DEF CallRecords
<1> HIDE DEF k
<1>4. LastFits(k) /\ k.pc \in Flying
  BY <1>3 DEF LastFits, Flying
<1>5. \A e \in Executions \ {calls[c].exec} : workflows'[e] = workflows[e]
  BY OwnWorkflow
<1> QED
  BY <1>2, <1>3, <1>4, <1>5, MovedHonest

LEMMA HealingHonest ==
  ASSUME IInv, HInv, NEW c \in Calls, NEW d \in Decisions,
         \/ \E ranked \in Rankings : RecommendedTry(c, ranked, d) \/ RecommendedEnd(c, ranked, d)
         \/ HealNext(c, d)
         \/ HealStop(c, d)
  PROVE  HInv'
<1>1. calls[c].pc \in {"candidates", "validate"} /\ faults' = faults
  BY DEF RecommendedTry, RecommendedEnd, HealNext, HealStop, Recommended, HealFailed
<1>2. \E st : Store(c, st) /\ (Validate(c, st) \/ End(c, "FAILED"))
  BY DEF RecommendedTry, RecommendedEnd, HealNext, HealStop
<1> QED
  BY <1>1, <1>2, ValidateHonest, FailedHonest

LEMMA HealPassesHonest ==
  ASSUME IInv, HInv, NEW c \in Calls, HealPasses(c)
  PROVE  HInv'
<1>1. Ended(c, "done", "passed") /\ "passed" \in Lasts /\ calls[c].pc # "idle" /\ faults' = faults
  BY EndLastRecord DEF HealPasses, Lasts
<1>2. /\ status'[calls[c].exec] = "HEALED"
      /\ \A e \in Executions \ {calls[c].exec} : status'[e] = status[e]
  BY OwnStatus DEF HealPasses
<1>3. \A e \in Executions \ {calls[c].exec} : workflows'[e] = workflows[e]
  BY OwnWorkflow DEF HealPasses
<1>4. Honest(status'[calls[c].exec], "passed", faults')
  BY <1>2 DEF Honest
<1> QED
  BY <1>1, <1>2, <1>3, <1>4, HonestEnd

LEMMA LostHonest ==
  ASSUME IInv, HInv, NEW c \in Calls, Crash(c) \/ Cancel(c)
  PROVE  HInv'
<1>1. calls[c].pc # "idle" /\ faults' # 0 /\ workflows' = workflows
  BY FaultCounts DEF Crash, Cancel, InFlight, Flying
<1>2. CASE Crash(c)
  <2>1. Ended(c, "done", calls[c].last) /\ calls[c].last \in Lasts
    BY <1>2, EndRecord DEF Crash, End
  <2>2. /\ status'[calls[c].exec] = "FAILED"
        /\ \A e \in Executions \ {calls[c].exec} : status'[e] = status[e]
    BY <1>2, OwnStatus DEF Crash, End
  <2>3. Honest(status'[calls[c].exec], calls[c].last, faults')
    BY <1>1, <2>2 DEF Honest
  <2> QED
    BY <1>1, <2>1, <2>2, <2>3, HonestEnd
<1>3. CASE Cancel(c)
  <2>1. Ended(c, "lost", calls[c].last) /\ calls[c].last \in Lasts /\ status' = status
    BY <1>3, EndRecord DEF Cancel
  <2> QED
    BY <1>1, <2>1, HonestEnd
<1> QED
  BY <1>2, <1>3

LEMMA RestartHonest ==
  ASSUME IInv, HInv, Restart
  PROVE  HInv'
<1>1. faults' # 0 /\ status' = status /\ workflows' = [e \in Executions |-> NewState]
  BY FaultCounts DEF Restart
<1>2. ASSUME NEW x \in Calls
      PROVE  /\ calls'[x].exec = calls[x].exec /\ calls'[x].last = calls[x].last
             /\ calls'[x].pc = IF calls[x].pc \in Flying THEN "lost" ELSE calls[x].pc
  <2>1. calls[x] \in CallRecords
    BY CallFacts
  <2> QED
    BY <2>1 DEF Restart, InFlight, CallRecords
<1>3. \A x \in Calls : calls'[x].pc = "idle" <=> calls[x].pc = "idle"
  BY <1>2 DEF Flying
<1>4. \A x \in Calls : \A e : Taken(calls', x, e) <=> Taken(calls, x, e)
  BY <1>2, <1>3 DEF Taken
<1>5. \A x \in Calls : LastFits(calls'[x]) /\ calls'[x].pc # "run"
  BY <1>2 DEF HInv, LastFits, Flying
<1>6. \A e \in Executions : Accepts(workflows'[e])
  BY <1>1 DEF Accepts, NewState
<1>7. ASSUME NEW x \in Calls, calls'[x].pc = "done", ~Taken(calls', x, calls'[x].exec)
      PROVE  Honest(status'[calls'[x].exec], calls'[x].last, faults')
  <2>1. calls[x].pc = "done" /\ ~Taken(calls, x, calls[x].exec)
    BY <1>2, <1>4, <1>7
  <2>2. Honest(status[calls[x].exec], calls[x].last, faults)
    BY <2>1 DEF HInv
  <2> QED
    BY <1>1, <1>2, <2>2 DEF Honest
<1> QED
  BY <1>5, <1>6, <1>7 DEF HInv

LEMMA NextHonest ==
  ASSUME IInv, HInv, Next
  PROVE  HInv'
<1>1. ASSUME NEW c \in Calls, Advance(c)
      PROVE  HInv'
  BY <1>1, RunPassesHonest, RunFailsHonest, RunRefusedHonest, AnalyzedHonest, HealingHonest, HealPassesHonest
     DEF Advance
<1>2. ASSUME NEW c \in Calls, NEW e \in Executions, Start(c, e) \/ StartSecond(c, e)
      PROVE  HInv'
  BY <1>2, BeginHonest, FaultCounts DEF Start, StartSecond
<1> QED
  BY <1>1, <1>2, StartUnreadableHonest, RunUnrecordedHonest, LostHonest, RestartHonest DEF Next

LEMMA InitHonest == Init => HInv
<1>1. Idle.pc = "idle" /\ Idle.last = "none" /\ Accepts(NewState)
  BY DEF Idle, Accepts, NewState
<1> QED
  BY <1>1 DEF Init, HInv, LastFits

LEMMA HonestHolds == Spec => []HInv
<1>1. IInv /\ HInv /\ [Next]_vars => HInv'
  BY NextHonest DEF vars, HInv
<1> QED
  BY <1>1, InitHonest, InvariantHolds, PTL DEF Spec

(* The record of an execution that one call handled says what that call saw *)
(* in the browser last: never PASSED or HEALED without a passing run, and   *)
(* always one of them after a passing run while nothing but the test        *)
(* failed.  The result of the only call of an execution is never refused.   *)
THEOREM RecordsAreHonest == Spec => []RecordIsHonest
<1>1. HInv => RecordIsHonest
  <2> SUFFICES ASSUME HInv, NEW c \in Calls, calls[c].pc = "done", Sole(c)
               PROVE  Honest(status[calls[c].exec], calls[c].last, faults)
    BY DEF RecordIsHonest, Honest
  <2>1. ~Taken(calls, c, calls[c].exec)
    BY DEF Taken, Sole
  <2> QED
    BY <2>1 DEF HInv
<1> QED
  BY <1>1, HonestHolds, PTL
=============================================================================
