-------------------------- MODULE TestEngineProofs --------------------------
(***************************************************************************)
(* TestEngine for every number of executions, every plan, application and  *)
(* setting: no browser slot is lost, a run reported as passed ran every    *)
(* step, a failed check is a failure, a locator chosen by the healer is    *)
(* safe and no guess, and the next execution chooses it at once.           *)
(***************************************************************************)
EXTENDS TestEngine, FiniteSetTheorems, SequenceTheorems, WellFoundedInduction, TLAPS

-----------------------------------------------------------------------------
(* Pages and scores. *)

LEMMA Smallest ==
  ASSUME NEW T, T \subseteq Nat, T # {}
  PROVE  \E x \in T : \A y \in T : x <= y
<1> DEFINE R == OpToRel(<, Nat)
<1>1. IsWellFoundedOn(R, Nat)
  BY NatLessThanWellFounded
<1> HIDE DEF R
<1>2. PICK x \in T : \A y \in T : ~(<<y, x>> \in R)
  BY <1>1, WFMin
<1>3. \A a, b \in Nat : a < b => <<a, b>> \in R
  BY DEF R, OpToRel
<1>4. \A y \in T : y \in Nat /\ x \in Nat /\ ~(y < x)
  BY <1>2, <1>3
<1>5. \A y \in T : x <= y
  BY <1>4
<1> QED
  BY <1>2, <1>5

LEMMA Placed ==
  ASSUME NEW e \in Elements
  PROVE  e.at \in Nat
BY HealerAssumption DEF Elements

LEMMA FirstIsThere ==
  ASSUME NEW page \in SUBSET Elements, NEW l, Matches(page, l) # {}
  PROVE  First(page, l) \in Matches(page, l)
<1> DEFINE M == Matches(page, l)
           T == {e.at : e \in M}
<1>1. M \subseteq Elements
  BY DEF Matches
<1>2. T \subseteq Nat /\ T # {}
  BY <1>1, Placed
<1>3. PICK x \in T : \A y \in T : x <= y
  BY <1>2, Smallest
<1>4. \E e \in M : \A f \in M : e.at <= f.at
  BY <1>3
<1> HIDE DEF M
<1>5. (CHOOSE e \in M : \A f \in M : e.at <= f.at) \in M
  BY <1>4
<1> QED
  BY <1>5 DEF First, M

LEMMA SeenFits ==
  ASSUME NEW page \in SUBSET Elements, NEW l
  PROVE  build_fingerprint(page, l) \in Fingerprints
<1>1. Matches(page, l) \subseteq Elements
  BY DEF Matches
<1> QED
  BY <1>1, FirstIsThere DEF build_fingerprint, Fingerprints

LEMMA UniqueIsFirst ==
  ASSUME NEW page \in SUBSET Elements, IsFiniteSet(page), NEW l, _resolve_unique(page, l)
  PROVE  \E e \in page : Matches(page, l) = {e} /\ e.visible /\ First(page, l) = e
<1>1. Matches(page, l) \subseteq page
  BY DEF Matches
<1>2. IsFiniteSet(Matches(page, l)) /\ Cardinality(Matches(page, l)) = 1
  BY <1>1, FS_Subset DEF _resolve_unique
<1>3. PICK e : Matches(page, l) = {e}
  BY <1>2, FS_Singleton
<1>4. e \in page /\ e.visible
  BY <1>1, <1>3 DEF _resolve_unique
<1>5. First(page, l) \in Matches(page, l)
  BY <1>3, FirstIsThere
<1> QED
  BY <1>3, <1>4, <1>5

LEMMA FiniteNames == IsFiniteSet({"id", "name", "cls"})
<1>1. IsFiniteSet({"id"})
  BY FS_Singleton
<1>2. IsFiniteSet({"id"} \union {"name"})
  BY <1>1, FS_AddElement
<1>3. IsFiniteSet({"id"} \union {"name"} \union {"cls"})
  BY <1>2, FS_AddElement
<1>4. {"id"} \union {"name"} \union {"cls"} = {"id", "name", "cls"}
  OBVIOUS
<1> QED
  BY <1>3, <1>4

LEMMA ScoreIsNumber ==
  ASSUME NEW stored \in Elements, NEW live \in Elements, NEW ignore
  PROVE  Weighted(stored, live, ignore) \in Int
<1>1. _attribute_signal(stored, live, ignore) \in Int
  <2> DEFINE known == Known(stored, ignore) \union (IF stored.cls # None THEN {"cls"} ELSE {})
             same == {a \in known : Same(stored, live, a)}
  <2>1. known \subseteq {"id", "name", "cls"} /\ same \subseteq {"id", "name", "cls"}
    BY DEF Known
  <2>2. IsFiniteSet(known) /\ Cardinality(known) \in Nat /\ Cardinality(same) \in Nat
    BY <2>1, FiniteNames, FS_Subset, FS_CardinalityType
  <2>3. _attribute_signal(stored, live, ignore) = IF known = {} THEN 50 ELSE (100 * Cardinality(same)) \div Cardinality(known)
    BY DEF _attribute_signal
  <2>4. known # {} => Cardinality(known) > 0
    BY <2>2, FS_EmptySet
  <2> HIDE DEF known, same
  <2>5. ASSUME NEW a \in Nat, NEW b \in Nat, b > 0 PROVE (100 * a) \div b \in Int
    BY <2>5
  <2> QED
    BY <2>2, <2>3, <2>4, <2>5
<1>2. _text_signal(stored, live) \in Int
  BY DEF _text_signal, ratio
<1>3. stored.at \in Int /\ live.at \in Int
  BY Placed
<1>4. _position_signal(stored, live) \in Int /\ _structure_signal(stored, live) \in Int
  BY <1>3 DEF _position_signal, _structure_signal, Distance
<1> QED
  BY <1>1, <1>2, <1>4 DEF Weighted

(* Above the cap for look-alikes, a score says: the same tag and a shared   *)
(* feature, if there was one to share.                                      *)
LEMMA CapHolds ==
  ASSUME NEW stored \in Elements, NEW live \in Elements, NEW ignore, Threshold > NO_IDENTITY_CAP,
         score_fingerprint(stored, live, ignore) >= Threshold
  PROVE  /\ live.tag = stored.tag
         /\ Features(stored, ignore) # {} => Shared(stored, live, ignore) # {}
<1> DEFINE score == Weighted(stored, live, ignore)
<1>1. score \in Int
  BY ScoreIsNumber
<1>2. Threshold \in Int /\ NO_IDENTITY_CAP = 60
  BY HealerAssumption DEF NO_IDENTITY_CAP
<1> HIDE DEF score
<1>3. ~(0 >= Threshold) /\ ~(Least(score, NO_IDENTITY_CAP) >= Threshold)
  BY <1>1, <1>2 DEF Least
<1> QED
  BY <1>3 DEF score_fingerprint, score

-----------------------------------------------------------------------------
(* What the healer chooses. *)

SafeChoice(page, l, fp, ignore) ==
  \E e \in page : /\ Matches(page, l) = {e} /\ e.visible
                  /\ fp # NoFingerprint => /\ e.tag = fp.tag
                                           /\ Features(fp, ignore) # {} => Shared(fp, e, ignore) # {}

LEMMA ChosenScores ==
  ASSUME NEW page, NEW primary, NEW target, NEW l \in attempt_healing(page, primary, target)
  PROVE  /\ _resolve_unique(page, l) /\ Score(page, primary, target, l) >= Threshold
         /\ \/ \E k \in DOMAIN target.fallbacks : target.fallbacks[k] = l
            \/ l \in Scanned(page, primary, target) /\ target.fp # NoFingerprint
<1>1. CASE l \in Fallbacks(page, primary, target)
  BY <1>1 DEF Fallbacks
<1>2. CASE l \in Scanned(page, primary, target) /\ target.fp # NoFingerprint
  BY <1>2 DEF Scanned
<1> QED
  BY <1>1, <1>2 DEF attempt_healing

LEMMA ChosenIsSafe ==
  ASSUME NEW page \in SUBSET Elements, IsFiniteSet(page), NEW primary, NEW target,
         target.fp \in Fingerprints, Threshold > NO_IDENTITY_CAP,
         NEW l \in attempt_healing(page, primary, target)
  PROVE  SafeChoice(page, l, target.fp, broken_attributes(primary))
<1>1. _resolve_unique(page, l) /\ Score(page, primary, target, l) >= Threshold
  BY ChosenScores
<1>2. PICK e \in page : Matches(page, l) = {e} /\ e.visible /\ First(page, l) = e
  BY <1>1, UniqueIsFirst
<1>3. CASE target.fp = NoFingerprint
  BY <1>2, <1>3 DEF SafeChoice
<1>4. CASE target.fp # NoFingerprint
  <2>1. target.fp \in Elements /\ e \in Elements
    BY <1>4 DEF Fingerprints
  <2>2. score_fingerprint(target.fp, e, broken_attributes(primary)) >= Threshold
    BY <1>1, <1>2, <1>4 DEF Score
  <2> QED
    BY <1>2, <2>1, <2>2, CapHolds DEF SafeChoice
<1> QED
  BY <1>3, <1>4

LEMMA BestMatches ==
  ASSUME NEW page, NEW e \in page, _best_locator(e) # NoLocator
  PROVE  e \in Matches(page, _best_locator(e))
BY DEF _best_locator, Matches

LEMMA NoLocatorMatches ==
  ASSUME NEW page
  PROVE  Matches(page, NoLocator) = {}
BY DEF Matches, NoLocator

(* The locators of a finite set of elements are no more than the elements. *)
LEMMA LocatorsBound ==
  ASSUME NEW S, IsFiniteSet(S)
  PROVE  Cardinality({_best_locator(f) : f \in S} \ {NoLocator}) <= Cardinality(S)
<1> DEFINE T == {_best_locator(f) : f \in S}
           g == [f \in S |-> _best_locator(f)]
<1>1. g \in Surjection(S, T)
  BY DEF Surjection
<1> HIDE DEF g, T
<1>2. IsFiniteSet(T) /\ Cardinality(T) <= Cardinality(S) /\ Cardinality(S) \in Nat
  BY <1>1, FS_Surjection, FS_CardinalityType
<1>3. IsFiniteSet(T \ {NoLocator}) /\ Cardinality(T \ {NoLocator}) <= Cardinality(T)
  BY <1>2, FS_Subset
<1>4. Cardinality(T) \in Nat /\ Cardinality(T \ {NoLocator}) \in Nat
  BY <1>2, <1>3, FS_CardinalityType
<1>5. Cardinality(T \ {NoLocator}) <= Cardinality(S)
  BY <1>2, <1>3, <1>4
<1> QED
  BY <1>5 DEF T

(* A page with no more elements than the scan looks at is looked at whole. *)
LEMMA AllScanned ==
  ASSUME NEW page \in SUBSET Elements, IsFiniteSet(page), Cardinality(page) <= MaxCandidates, NEW fp,
         NEW e \in page, _best_locator(e) # NoLocator
  PROVE  _best_locator(e) \in extract_candidates(page, fp)
<1> DEFINE before == {f \in page : IF (f.tag = fp.tag) = (e.tag = fp.tag) THEN f.at < e.at ELSE f.tag = fp.tag}
           earlier == {_best_locator(f) : f \in before} \ {NoLocator}
<1>1. e \notin before
  BY Placed
<1>2. before \subseteq page \ {e}
  BY <1>1
<1>3. IsFiniteSet(page \ {e}) /\ Cardinality(page \ {e}) = Cardinality(page) - 1 /\ Cardinality(page) \in Nat
  BY FS_RemoveElement, FS_CardinalityType
<1>4. IsFiniteSet(before) /\ Cardinality(before) <= Cardinality(page \ {e})
  BY <1>2, <1>3, FS_Subset
<1>5. Cardinality(earlier) <= Cardinality(before) /\ Cardinality(before) \in Nat
  BY <1>4, LocatorsBound, FS_CardinalityType
<1>6. IsFiniteSet(earlier)
  <2> DEFINE g == [f \in before |-> _best_locator(f)]
             T == {_best_locator(f) : f \in before}
  <2>1. g \in Surjection(before, T)
    BY DEF Surjection
  <2> HIDE DEF g, T
  <2>2. IsFiniteSet(T)
    BY <1>4, <2>1, FS_Surjection
  <2>3. IsFiniteSet(T \ {NoLocator})
    BY <2>2, FS_Subset
  <2> QED
    BY <2>3 DEF T
<1>7. Cardinality(earlier) \in Nat
  BY <1>6, FS_CardinalityType
<1>8. Cardinality(earlier) < MaxCandidates
  <2> HIDE DEF before, earlier
  <2> QED
    BY <1>3, <1>4, <1>5, <1>7, HealerAssumption
<1> QED
  BY <1>8 DEF extract_candidates

ClearChoice(page, l, target, primary) ==
  LET ignore == broken_attributes(primary)
      score(e) == score_fingerprint(target.fp, e, ignore)
  IN Cardinality(page) <= MaxCandidates =>
       \/ \E k \in DOMAIN target.fallbacks : target.fallbacks[k] = l
       \/ \A e \in page : \/ e \in Matches(page, l)
                          \/ _best_locator(e) = primary \/ ~_resolve_unique(page, _best_locator(e))
                          \/ score(First(page, l)) - score(e) >= AMBIGUITY_MARGIN

LEMMA ChosenIsClear ==
  ASSUME NEW page \in SUBSET Elements, IsFiniteSet(page), NEW primary, NEW target,
         NEW l \in attempt_healing(page, primary, target)
  PROVE  ClearChoice(page, l, target, primary)
<1> DEFINE score(e) == score_fingerprint(target.fp, e, broken_attributes(primary))
<1>1. CASE \E k \in DOMAIN target.fallbacks : target.fallbacks[k] = l
  BY <1>1 DEF ClearChoice
<1>2. CASE l \in Scanned(page, primary, target) /\ target.fp # NoFingerprint
  <2> SUFFICES ASSUME Cardinality(page) <= MaxCandidates, NEW e \in page, e \notin Matches(page, l),
                      _best_locator(e) # primary, _resolve_unique(page, _best_locator(e))
               PROVE  score(First(page, l)) - score(e) >= AMBIGUITY_MARGIN
    BY DEF ClearChoice
  <2> DEFINE m == _best_locator(e)
  <2>1. PICK only \in page : Matches(page, m) = {only} /\ First(page, m) = only
    BY UniqueIsFirst
  <2>2. m # NoLocator
    BY <2>1, NoLocatorMatches
  <2>3. e \in Matches(page, m)
    BY <2>2, BestMatches
  <2>4. First(page, m) = e /\ m # l
    BY <2>1, <2>3
  <2>5. m \in extract_candidates(page, target.fp)
    BY <2>2, AllScanned
  <2> HIDE DEF m
  <2>6. Score(page, primary, target, l) - Score(page, primary, target, m) >= AMBIGUITY_MARGIN
    BY <1>2, <2>4, <2>5 DEF Scanned, m
  <2> QED
    BY <1>2, <2>4, <2>6 DEF Score
<1> QED
  BY <1>1, <1>2, ChosenScores

-----------------------------------------------------------------------------
(* Lists and what is picked from them. *)

Rank(I, i) == Cardinality({j \in I : j <= i})

(* Every rank is taken: the k-th position is one of I. *)
LEMMA NthFits ==
  ASSUME NEW I, I \subseteq Nat, IsFiniteSet(I), NEW k \in 1..Cardinality(I)
  PROVE  Nth(I, k) \in I
<1> DEFINE n == Cardinality(I)
           Unranked == {m \in 1..n : \A i \in I : Rank(I, i) # m}
<1>1. n \in Nat /\ \A i \in I : i \in Nat
  BY FS_CardinalityType
<1>2. ASSUME NEW m \in Unranked, \A l \in Unranked : m <= l
      PROVE  FALSE
  <2>1. CASE m = 1
    <3>1. I # {}
      BY <2>1, <1>1, FS_EmptySet
    <3>2. PICK i \in I : \A j \in I : i <= j
      BY <3>1, Smallest
    <3>3. \A j \in I : j <= i <=> j = i
      BY <1>1, <3>2
    <3>4. {j \in I : j <= i} = {i}
      BY <3>3
    <3>5. Rank(I, i) = 1
      BY <3>4, FS_Singleton DEF Rank
    <3> QED BY <3>5, <2>1
  <2>2. CASE m # 1
    <3>1. m - 1 \in 1..n /\ m - 1 \notin Unranked
      BY <1>1, <1>2, <2>2
    <3>2. PICK i \in I : Rank(I, i) = m - 1
      BY <3>1
    <3> DEFINE Below == {j \in I : j <= i}
               Above == {j \in I : j > i}
    <3>3. Above # {}
      <4> SUFFICES ASSUME Above = {}
                   PROVE  FALSE
        OBVIOUS
      <4>1. \A j \in I : ~(j > i) /\ j \in Nat /\ i \in Nat
        BY <1>1
      <4>2. \A j \in I : j <= i
        BY <4>1
      <4>3. Below = I
        BY <4>2
      <4> QED BY <4>3, <3>2, <1>1, <3>1 DEF Rank
    <3>4. PICK j \in Above : \A l \in Above : j <= l
      BY <3>3, Smallest
    <3>5. {x \in I : x <= j} = Below \union {j}
      <4>1. \A x \in I : x <= j <=> x <= i \/ x = j
        BY <1>1, <3>4
      <4> QED BY <4>1, <3>4
    <3>6. IsFiniteSet(Below) /\ j \notin Below
      BY FS_Subset, <3>4
    <3>7. Cardinality(Below \union {j}) = Cardinality(Below) + 1
      BY <3>6, FS_AddElement
    <3>8. Rank(I, j) = m
      BY <3>2, <3>5, <3>7, <1>1, <3>1 DEF Rank
    <3> QED BY <3>8, <3>4
  <2> QED BY <2>1, <2>2
<1>3. Unranked = {}
  <2>1. Unranked \subseteq Nat
    BY <1>1
  <2> HIDE DEF Unranked
  <2> QED BY <2>1, <1>2, Smallest
<1>4. \E i \in I : Rank(I, i) = k
  BY <1>3
<1> QED BY <1>4 DEF Nth, Rank

LEMMA ListFits ==
  ASSUME NEW s, IsList(s)
  PROVE  Len(s) \in Nat /\ DOMAIN s = 1..Len(s) /\ DOMAIN s \subseteq Nat /\ IsFiniteSet(DOMAIN s)
<1>1. Len(s) \in Nat /\ DOMAIN s = 1..Len(s)
  BY DEF IsList
<1>2. IsFiniteSet(1..Len(s))
  BY <1>1, FS_Interval
<1> QED BY <1>1, <1>2

LEMMA ListOf ==
  ASSUME NEW n \in Nat, NEW s, DOMAIN s = 1..n, s = [i \in 1..n |-> s[i]]
  PROVE  IsList(s) /\ Len(s) = n
<1>1. s \in [1..n -> {s[i] : i \in 1..n}]
  OBVIOUS
<1> QED BY <1>1 DEF IsList

LEMMA PickedFits ==
  ASSUME NEW s, IsList(s), NEW I, I \subseteq DOMAIN s
  PROVE  /\ IsList(Picked(s, I))
         /\ \A k \in DOMAIN Picked(s, I) : Nth(I, k) \in I /\ Picked(s, I)[k] = s[Nth(I, k)]
<1>1. I \subseteq Nat /\ IsFiniteSet(I)
  BY ListFits, FS_Subset
<1>2. Cardinality(I) \in Nat
  BY <1>1, FS_CardinalityType
<1>3. DOMAIN Picked(s, I) = 1..Cardinality(I)
  BY DEF Picked
<1>4. \A k \in 1..Cardinality(I) : Picked(s, I)[k] = s[Nth(I, k)]
  BY DEF Picked
<1>5. IsList(Picked(s, I))
  <2>1. Picked(s, I) = [k \in 1..Cardinality(I) |-> Picked(s, I)[k]]
    BY DEF Picked
  <2> QED BY <2>1, <1>2, <1>3, ListOf
<1>6. \A k \in 1..Cardinality(I) : Nth(I, k) \in I
  BY <1>1, NthFits
<1> QED BY <1>3, <1>4, <1>5, <1>6

LEMMA SeqIsList ==
  ASSUME NEW S, NEW s \in Seq(S)
  PROVE  IsList(s)
<1>1. Len(s) \in Nat /\ DOMAIN s = 1..Len(s)
  OBVIOUS
<1>2. s = [i \in 1..Len(s) |-> s[i]]
  BY <1>1
<1> QED BY <1>1, <1>2, ListOf

LEMMA JoinedFits ==
  ASSUME NEW s, NEW t, IsList(s), IsList(t)
  PROVE  /\ IsList(s \o t) /\ Len(s \o t) = Len(s) + Len(t)
         /\ \A i \in DOMAIN (s \o t) :
              \/ i \in DOMAIN s /\ (s \o t)[i] = s[i]
              \/ i - Len(s) \in DOMAIN t /\ i \notin DOMAIN s /\ (s \o t)[i] = t[i - Len(s)]
<1>1. Len(s) \in Nat /\ DOMAIN s = 1..Len(s) /\ Len(t) \in Nat /\ DOMAIN t = 1..Len(t)
  BY ListFits
<1>2. PICK S : s \in Seq(S) /\ t \in Seq(S)
  <2>1. s \in Seq({s[i] : i \in DOMAIN s} \union {t[i] : i \in DOMAIN t})
        /\ t \in Seq({s[i] : i \in DOMAIN s} \union {t[i] : i \in DOMAIN t})
    BY <1>1 DEF IsList
  <2> QED BY <2>1
<1> DEFINE u == s \o t
<1>3. u \in Seq(S) /\ Len(u) = Len(s) + Len(t)
      /\ \A i \in 1..(Len(s) + Len(t)) : u[i] = IF i <= Len(s) THEN s[i] ELSE t[i - Len(s)]
  BY <1>2, ConcatProperties
<1> HIDE DEF u
<1>4. DOMAIN u = 1..(Len(s) + Len(t)) /\ IsList(u)
  BY <1>3, SeqIsList, ListFits
<1>5. u = s \o t
  BY DEF u
<1>6. \A i \in DOMAIN u :
        (i \in DOMAIN s /\ u[i] = s[i]) \/ (i - Len(s) \in DOMAIN t /\ i \notin DOMAIN s /\ u[i] = t[i - Len(s)])
  BY <1>1, <1>3, <1>4
<1> QED BY <1>3, <1>4, <1>5, <1>6, Zenon

-----------------------------------------------------------------------------
(* The calls of run_test. *)

Stepping == {"look", "early", "act", "learn", "heal", "retry"}
Pcs == {"idle", "wait", "end"} \union HasBrowser \union Over

(* A record with the fields of a call; what the targets list as fallbacks   *)
(* is of no concern here.                                                   *)
Fields == {"pc", "loaded", "reruns", "page", "i", "targets", "pre", "heal", "checked", "results", "heals", "broken"}

IsCall(c) == c = [f \in Fields |-> c[f]]

IsTarget(x) == x = [f \in {"fallbacks", "fp"} |-> x[f]] /\ x.fp \in Fingerprints

TargetsFit(targets) ==
  /\ targets = [i \in Steps |-> targets[i]]
  /\ \A i \in Steps : IsTarget(targets[i])

HasFailed(results) == \E k \in DOMAIN results : results[k] = "FAILED"

Fresh(c) == c.i = 1 /\ c.results = << >> /\ c.heals = << >> /\ c.broken = FALSE

Shape(c) ==
  /\ IsCall(c)
  /\ c.pc \in Pcs
  /\ c.i \in Steps
  /\ c.page \in Sites \union {{}}
  /\ c.pre \in Fingerprints
  /\ TargetsFit(c.targets)
  /\ c.results \in Seq(Statuses)
  /\ IsList(c.heals)
  /\ c.broken \in BOOLEAN

(* How far the call came: the step it is at, the results so far, and why it *)
(* stopped where it did.                                                    *)
Ran(c) ==
  /\ c.pc \in {"idle", "wait", "open"} => Fresh(c)
  /\ c.pc \in Stepping => Len(c.results) = c.i - 1 /\ c.broken = FALSE /\ ~HasFailed(c.results)
  /\ c.pc \in Stepping \union {"close"} => Len(c.heals) = Len(c.results)
  /\ c.pc = "close" => c.broken = TRUE \/ HasFailed(c.results) \/ Len(c.results) = Len(Plan)
  /\ c.pc = "end" => \/ HasFailed(c.results)
                     \/ Len(c.results) = Len(Plan) /\ Len(c.heals) = Len(Plan) /\ c.broken = FALSE
  /\ \A k \in DOMAIN c.heals : k \in DOMAIN c.results /\ (c.results[k] # "HEALED" => c.heals[k] = NoHeal)

(* A failed check of a text or of what is hidden is settled when it is seen. *)
Settled(c) == c.checked => Plan[c.i].action \notin {"assert_text", "assert_hidden"}

(* What was chosen in place of the step's locator. *)
Chosen(c) ==
  c.pc \in {"early", "retry"} =>
    /\ ClearChoice(c.heal.page, c.heal.locator, c.targets[c.i], Plan[c.i].primary)
    /\ Threshold > NO_IDENTITY_CAP =>
         SafeChoice(c.heal.page, c.heal.locator, c.targets[c.i].fp, broken_attributes(Plan[c.i].primary))

CallFits(c) == Shape(c) /\ Ran(c) /\ Settled(c) /\ Chosen(c)

LearnedFits(l) == l = [p \in Primaries |-> l[p]] /\ \A p \in Primaries : IsTarget(l[p])

Holding == {t \in Calls : call[t].pc \in HasBrowser}

EInv ==
  /\ slots \in Nat
  /\ call = [t \in Calls |-> call[t]]
  /\ \A t \in Calls : CallFits(call[t])
  /\ LearnedFits(learned)
  /\ SlotsKept

LEMMA PlanFacts ==
  /\ Len(Plan) \in Nat \ {0} /\ Steps = 1..Len(Plan) /\ 1 \in Steps
  /\ \A i \in Steps : i \in Nat /\ i >= 1 /\ i <= Len(Plan)
  /\ \A i \in Steps : i # Len(Plan) => i + 1 \in Steps
  /\ \A i \in Steps : Plan[i].action \in Actions
<1>1. Plan \in Seq([action : Actions, primary : Locators \union {NoLocator}, expected : Texts \union {None}]) /\ Plan # << >>
  BY EngineAssumption
<1>2. Len(Plan) \in Nat /\ Len(Plan) # 0 /\ Steps = 1..Len(Plan)
  BY <1>1 DEF Steps
<1>3. \A i \in Steps : Plan[i].action \in Actions
  <2> DEFINE R == [action : Actions, primary : Locators \union {NoLocator}, expected : Texts \union {None}]
  <2>1. \A r \in R : r.action \in Actions
    OBVIOUS
  <2> HIDE DEF R
  <2>2. Plan \in Seq(R)
    BY <1>1 DEF R
  <2>3. \A i \in Steps : Plan[i] \in R
    BY <2>2 DEF Steps
  <2> QED
    BY <2>1, <2>3
<1> QED
  BY <1>2, <1>3

LEMMA ListGrows ==
  ASSUME NEW s, IsList(s), NEW x
  PROVE  /\ IsList(Append(s, x)) /\ Len(Append(s, x)) = Len(s) + 1 /\ Len(s) \in Nat
         /\ DOMAIN s = 1..Len(s) /\ DOMAIN Append(s, x) = 1..(Len(s) + 1)
         /\ Append(s, x)[Len(s) + 1] = x /\ \A k \in 1..Len(s) : Append(s, x)[k] = s[k]
<1> DEFINE S == {s[i] : i \in DOMAIN s}
           T == S \union {x}
<1>1. s \in Seq(S)
  BY DEF IsList
<1> HIDE DEF S
<1>2. s \in Seq(T)
  <2>1. Len(s) \in Nat /\ s \in [1..Len(s) -> S]
    BY <1>1
  <2>2. s \in [1..Len(s) -> T]
    BY <2>1
  <2> QED
    BY <2>1, <2>2
<1>3. x \in T
  OBVIOUS
<1> HIDE DEF T
<1>4. Append(s, x) \in Seq(T)
  BY <1>2, <1>3
<1>5. /\ Len(Append(s, x)) = Len(s) + 1 /\ Len(s) \in Nat /\ DOMAIN s = 1..Len(s)
      /\ DOMAIN Append(s, x) = 1..(Len(s) + 1)
      /\ Append(s, x)[Len(s) + 1] = x /\ \A k \in 1..Len(s) : Append(s, x)[k] = s[k]
  BY <1>2, <1>3
<1>6. IsList(Append(s, x))
  BY <1>4, SeqIsList
<1> QED
  BY <1>5, <1>6

LEMMA NoTargetFits == IsTarget(NoTarget)
BY DEF IsTarget, NoTarget, Fingerprints

LEMMA EmptyList == IsList(<< >>) /\ << >> \in Seq(Statuses) /\ DOMAIN << >> = {} /\ Len(<< >>) = 0
<1> DEFINE u == << >>
<1>1. u \in Seq(Statuses) /\ DOMAIN u = {} /\ Len(u) = 0
  OBVIOUS
<1> HIDE DEF u
<1>2. IsList(u)
  BY <1>1, SeqIsList, Zenon
<1> QED
  BY <1>1, <1>2, Zenon DEF u

LEMMA NoCallFits ==
  /\ IsCall(NoCall) /\ NoCall.i = 1 /\ NoCall.results = << >> /\ NoCall.heals = << >> /\ NoCall.broken = FALSE
  /\ NoCall.page = {} /\ NoCall.pre = NoFingerprint /\ NoCall.checked = FALSE /\ NoCall.pc = "idle"
  /\ TargetsFit(NoCall.targets)
<1>1. NoCall.targets = [i \in Steps |-> NoTarget]
  BY DEF NoCall
<1>2. TargetsFit(NoCall.targets)
  BY <1>1, NoTargetFits DEF TargetsFit
<1> QED
  BY <1>2 DEF NoCall, IsCall, Fields

(* A call that has not come further than the browser. *)
LEMMA FreshFits ==
  ASSUME NEW c, IsCall(c), Fresh(c), c.pc \in {"idle", "wait", "open", "done", "lost"}, c.page = {},
         c.pre = NoFingerprint, c.checked = FALSE, TargetsFit(c.targets)
  PROVE  CallFits(c)
<1>1. Shape(c)
  BY PlanFacts, EmptyList DEF Shape, Fresh, Pcs, HasBrowser, Over, Fingerprints
<1>2. Ran(c)
  BY EmptyList DEF Ran, Fresh, Stepping
<1>3. Settled(c) /\ Chosen(c)
  BY DEF Settled, Chosen
<1> QED
  BY <1>1, <1>2, <1>3 DEF CallFits

(* A call moves on within a step of the plan. *)
LEMMA WithinFits ==
  ASSUME NEW c, Shape(c), Ran(c), c.pc \in Stepping,
         NEW n, IsCall(n), n.pc \in Stepping, n.i = c.i, n.results = c.results, n.heals = c.heals,
         n.broken = c.broken, TargetsFit(n.targets), n.page \in Sites \union {{}}, n.pre \in Fingerprints
  PROVE  Shape(n) /\ Ran(n) /\ (Settled(n) /\ Chosen(n) => CallFits(n))
<1>1. Shape(n)
  BY DEF Shape, Stepping, Pcs, HasBrowser
<1>2. Ran(n)
  BY DEF Ran, Stepping
<1> QED
  BY <1>1, <1>2 DEF CallFits

(* The result of a step. *)
LEMMA RecordedFits ==
  ASSUME NEW c, Shape(c), Ran(c), c.pc \in Stepping, NEW status \in Statuses
  PROVE  CallFits(Recorded(c, status)) /\ Recorded(c, status).pc \in {"look", "close"}
<1> DEFINE last == status = "FAILED" \/ c.i = Len(Plan)
           h == IF status = "HEALED" THEN c.heal ELSE NoHeal
           n == Recorded(c, status)
<1>1. IsCall(c) /\ c.i \in Steps /\ c.page \in Sites \union {{}} /\ TargetsFit(c.targets)
  BY DEF Shape
<1>2. /\ IsCall(n) /\ n.page = c.page /\ n.targets = c.targets /\ n.broken = c.broken
      /\ n.results = Append(c.results, status) /\ n.heals = Append(c.heals, h)
      /\ n.pc = (IF last THEN "close" ELSE "look") /\ n.i = (IF last THEN c.i ELSE c.i + 1)
      /\ n.pre = NoFingerprint /\ n.checked = FALSE
  BY <1>1 DEF Recorded, IsCall, Fields
<1>3. /\ c.results \in Seq(Statuses) /\ IsList(c.heals) /\ c.broken = FALSE
      /\ Len(c.results) = c.i - 1 /\ ~HasFailed(c.results) /\ Len(c.heals) = Len(c.results)
      /\ \A k \in DOMAIN c.heals : k \in DOMAIN c.results /\ (c.results[k] # "HEALED" => c.heals[k] = NoHeal)
  BY DEF Shape, Ran
<1> HIDE DEF n
<1>4. /\ IsList(n.heals) /\ Len(n.heals) = Len(c.heals) + 1 /\ Len(c.heals) \in Nat
      /\ DOMAIN n.heals = 1..(Len(c.heals) + 1) /\ DOMAIN c.heals = 1..Len(c.heals)
      /\ n.heals[Len(c.heals) + 1] = h /\ \A k \in 1..Len(c.heals) : n.heals[k] = c.heals[k]
  BY <1>2, <1>3, ListGrows
<1>5. /\ n.results \in Seq(Statuses) /\ Len(n.results) = Len(c.results) + 1 /\ Len(c.results) \in Nat
      /\ DOMAIN n.results = 1..(Len(c.results) + 1) /\ DOMAIN c.results = 1..Len(c.results)
      /\ n.results[Len(c.results) + 1] = status /\ \A k \in 1..Len(c.results) : n.results[k] = c.results[k]
  BY <1>2, <1>3
<1>6. n.i \in Steps /\ n.pc \in {"look", "close"}
  BY <1>1, <1>2, PlanFacts
<1>7. Shape(n)
  BY <1>1, <1>2, <1>3, <1>4, <1>5, <1>6 DEF Shape, Pcs, HasBrowser, Fingerprints
<1>8. \A k \in DOMAIN n.heals : k \in DOMAIN n.results /\ (n.results[k] # "HEALED" => n.heals[k] = NoHeal)
  <2> SUFFICES ASSUME NEW k \in DOMAIN n.heals
               PROVE  k \in DOMAIN n.results /\ (n.results[k] # "HEALED" => n.heals[k] = NoHeal)
    OBVIOUS
  <2>1. CASE k = Len(c.results) + 1
    BY <1>3, <1>4, <1>5, <2>1
  <2>2. CASE k \in 1..Len(c.results)
    BY <1>3, <1>4, <1>5, <2>2
  <2> QED
    BY <1>3, <1>4, <1>5, <2>1, <2>2
<1>9. n.pc = "look" => Len(n.results) = n.i - 1 /\ ~HasFailed(n.results)
  <2> SUFFICES ASSUME n.pc = "look" PROVE Len(n.results) = n.i - 1 /\ ~HasFailed(n.results)
    OBVIOUS
  <2>1. ~last /\ n.i = c.i + 1 /\ c.i \in Nat
    BY <1>1, <1>2, PlanFacts
  <2>2. Len(n.results) = n.i - 1
    BY <1>3, <1>5, <2>1
  <2>3. ASSUME NEW k \in DOMAIN n.results, n.results[k] = "FAILED" PROVE FALSE
    <3>1. k # Len(c.results) + 1
      BY <1>5, <2>1, <2>3
    <3>2. k \in DOMAIN c.results /\ c.results[k] = "FAILED"
      BY <1>5, <2>3, <3>1
    <3> QED
      BY <1>3, <3>2 DEF HasFailed
  <2> QED
    BY <2>2, <2>3 DEF HasFailed
<1>10. n.pc = "close" => HasFailed(n.results) \/ Len(n.results) = Len(Plan)
  <2> SUFFICES ASSUME n.pc = "close" PROVE HasFailed(n.results) \/ Len(n.results) = Len(Plan)
    OBVIOUS
  <2>1. last /\ c.i \in Nat
    BY <1>1, <1>2, PlanFacts
  <2>2. CASE status = "FAILED"
    BY <1>5, <2>2 DEF HasFailed
  <2>3. CASE c.i = Len(Plan)
    BY <1>3, <1>5, <2>1, <2>3
  <2> QED
    BY <2>1, <2>2, <2>3
<1>11. Len(n.heals) = Len(n.results) /\ n.broken = FALSE
  BY <1>2, <1>3, <1>4, <1>5
<1>12. Ran(n)
  BY <1>6, <1>8, <1>9, <1>10, <1>11 DEF Ran, Stepping
<1>13. Settled(n) /\ Chosen(n)
  BY <1>2, <1>6 DEF Settled, Chosen
<1> QED
  BY <1>6, <1>7, <1>12, <1>13 DEF CallFits, n

(* The end of a session, after the plan or after an exception. *)
LEMMA ReportedFits ==
  ASSUME NEW c, IsCall(c), c.i \in Steps, c.pre \in Fingerprints, TargetsFit(c.targets),
         c.results \in Seq(Statuses), IsList(c.heals), c.broken \in BOOLEAN, Settled(c),
         c.broken = TRUE \/ HasFailed(c.results) \/ (Len(c.results) = Len(Plan) /\ Len(c.heals) = Len(Plan)),
         \A k \in DOMAIN c.heals : k \in DOMAIN c.results /\ (c.results[k] # "HEALED" => c.heals[k] = NoHeal)
  PROVE  CallFits(Reported(c)) /\ Reported(c).pc = "end"
<1> DEFINE n == Reported(c)
<1>1. /\ IsCall(n) /\ n.page = {} /\ n.targets = c.targets /\ n.broken = c.broken /\ n.pc = "end" /\ n.i = c.i
      /\ n.heals = c.heals /\ n.pre = c.pre /\ n.checked = c.checked
      /\ n.results = IF c.broken THEN Append(c.results, "FAILED") ELSE c.results
  BY DEF Reported, IsCall, Fields
<1> HIDE DEF n
<1>2. CASE c.broken = TRUE
  <2>1. n.results = Append(c.results, "FAILED") /\ "FAILED" \in Statuses
    BY <1>1, <1>2 DEF Statuses
  <2>2. /\ n.results \in Seq(Statuses) /\ Len(c.results) \in Nat
        /\ DOMAIN n.results = 1..(Len(c.results) + 1) /\ DOMAIN c.results = 1..Len(c.results)
        /\ n.results[Len(c.results) + 1] = "FAILED" /\ \A k \in 1..Len(c.results) : n.results[k] = c.results[k]
    BY <2>1
  <2>3. HasFailed(n.results)
    BY <2>2 DEF HasFailed
  <2>4. \A k \in DOMAIN n.heals : k \in DOMAIN n.results /\ (n.results[k] # "HEALED" => n.heals[k] = NoHeal)
    BY <1>1, <2>2
  <2>5. Shape(n)
    BY <1>1, <2>2 DEF Shape, Pcs
  <2>6. Ran(n) /\ Settled(n) /\ Chosen(n)
    BY <1>1, <2>3, <2>4 DEF Ran, Settled, Chosen, Stepping
  <2> QED
    BY <1>1, <2>5, <2>6 DEF CallFits, n
<1>3. CASE c.broken = FALSE
  <2>1. n.results = c.results
    BY <1>1, <1>3
  <2>2. Shape(n)
    BY <1>1, <2>1 DEF Shape, Pcs
  <2>3. Ran(n) /\ Settled(n) /\ Chosen(n)
    BY <1>1, <1>3, <2>1 DEF Ran, Settled, Chosen, Stepping
  <2> QED
    BY <1>1, <2>2, <2>3 DEF CallFits, n
<1> QED
  BY <1>2, <1>3

(* A step of one call: it takes a slot, gives one back or leaves them. *)
SlotMoves(before, after) ==
  \/ (before \in HasBrowser <=> after \in HasBrowser) /\ slots' = slots
  \/ before \notin HasBrowser /\ after \in HasBrowser /\ slots' = slots - 1
  \/ before \in HasBrowser /\ after \notin HasBrowser /\ slots' = slots + 1

LEMMA CallStep ==
  ASSUME EInv, NEW t \in Calls, NEW c, CallFits(c), Become(t, c), LearnedFits(learned'), slots' \in Nat,
         SlotMoves(call[t].pc, c.pc)
  PROVE  EInv'
<1>1. call' = [call EXCEPT ![t] = c] /\ call = [x \in Calls |-> call[x]]
  BY DEF EInv, Become
<1>2. call'[t] = c /\ \A x \in Calls \ {t} : call'[x] = call[x]
  BY <1>1
<1>3. call' = [x \in Calls |-> call'[x]] /\ \A x \in Calls : CallFits(call'[x])
  BY <1>1, <1>2 DEF EInv
<1> DEFINE H == {x \in Calls : call[x].pc \in HasBrowser}
           N == {x \in Calls : call'[x].pc \in HasBrowser}
<1>4. IsFiniteSet(H) /\ Cardinality(H) \in Nat
  BY EngineAssumption, FS_Subset, FS_CardinalityType
<1>5. slots + Cardinality(H) = MAX_BROWSERS /\ slots \in Nat /\ MAX_BROWSERS \in Nat
  BY EngineAssumption DEF EInv, SlotsKept
<1>6. t \in H <=> call[t].pc \in HasBrowser
  OBVIOUS
<1>7. CASE c.pc \in HasBrowser
  <2>1. N = H \union {t}
    BY <1>2, <1>7
  <2> HIDE DEF H, N
  <2>2. Cardinality(N) = IF t \in H THEN Cardinality(H) ELSE Cardinality(H) + 1
    BY <1>4, <2>1, FS_AddElement
  <2>3. IF t \in H THEN slots' = slots ELSE slots' = slots - 1
    BY <1>6, <1>7 DEF SlotMoves
  <2>4. slots' + Cardinality(N) = MAX_BROWSERS
    <3>1. CASE t \in H
      BY <1>4, <1>5, <2>2, <2>3, <3>1
    <3>2. CASE t \notin H
      BY <1>4, <1>5, <2>2, <2>3, <3>2
    <3> QED
      BY <3>1, <3>2
  <2> QED
    BY <1>3, <2>4 DEF EInv, SlotsKept, N
<1>8. CASE c.pc \notin HasBrowser
  <2>1. N = H \ {t}
    BY <1>2, <1>8
  <2> HIDE DEF H, N
  <2>2. Cardinality(N) = IF t \in H THEN Cardinality(H) - 1 ELSE Cardinality(H)
    BY <1>4, <2>1, FS_RemoveElement
  <2>3. IF t \in H THEN slots' = slots + 1 ELSE slots' = slots
    BY <1>6, <1>8 DEF SlotMoves
  <2>4. slots' + Cardinality(N) = MAX_BROWSERS
    <3>1. CASE t \in H
      BY <1>4, <1>5, <2>2, <2>3, <3>1
    <3>2. CASE t \notin H
      BY <1>4, <1>5, <2>2, <2>3, <3>2
    <3> QED
      BY <3>1, <3>2
  <2> QED
    BY <1>3, <2>4 DEF EInv, SlotsKept, N
<1> QED
  BY <1>7, <1>8

LEMMA QuietStep ==
  ASSUME EInv, NEW t \in Calls, NEW c, CallFits(c), Become(t, c), UNCHANGED <<slots, learned>>,
         call[t].pc \in HasBrowser <=> c.pc \in HasBrowser
  PROVE  EInv'
<1>1. SlotMoves(call[t].pc, c.pc) /\ slots' \in Nat
  BY DEF SlotMoves, EInv
<1>2. LearnedFits(learned')
  BY DEF EInv
<1> QED
  BY <1>1, <1>2, CallStep

LEMMA Pages ==
  ASSUME NEW page \in Sites \union {{}}
  PROVE  page \in SUBSET Elements /\ IsFiniteSet(page)
BY EngineAssumption, FS_EmptySet

-----------------------------------------------------------------------------
(* The session. *)

LEMMA BeginInv ==
  ASSUME EInv, NEW t \in Calls, Begin(t)
  PROVE  EInv'
<1> DEFINE targets == [i \in Steps |-> IF Plan[i].primary = NoLocator THEN NoTarget
                                       ELSE create_engine_target(Plan[i].primary)]
           c == [NoCall EXCEPT !.pc = "wait", !.loaded = learned, !.targets = targets]
<1>1. Become(t, c) /\ call[t].pc = "idle" /\ UNCHANGED <<slots, learned>>
  BY DEF Begin
<1>2. TargetsFit(targets)
  <2>1. ASSUME NEW i \in Steps PROVE IsTarget(targets[i])
    <3>1. CASE Plan[i].primary = NoLocator
      BY <3>1, NoTargetFits
    <3>2. CASE Plan[i].primary # NoLocator
      <4>1. Plan[i].primary \in Primaries
        BY <3>2 DEF Primaries
      <4>2. IsTarget(learned[Plan[i].primary])
        BY <4>1 DEF EInv, LearnedFits
      <4>3. IsTarget(create_engine_target(Plan[i].primary))
        BY <4>2 DEF IsTarget, create_engine_target
      <4> QED
        BY <3>2, <4>3
    <3> QED
      BY <3>1, <3>2
  <2>2. targets = [i \in Steps |-> targets[i]]
    OBVIOUS
  <2> QED
    BY <2>1, <2>2 DEF TargetsFit
<1> HIDE DEF targets
<1>3. /\ IsCall(c) /\ Fresh(c) /\ c.pc = "wait" /\ c.page = {} /\ c.pre = NoFingerprint /\ c.checked = FALSE
      /\ c.targets = targets
  BY NoCallFits DEF IsCall, Fields, Fresh
<1> HIDE DEF c
<1>4. CallFits(c)
  BY <1>2, <1>3, FreshFits
<1> QED
  BY <1>1, <1>3, <1>4, QuietStep DEF HasBrowser

(* A slot is taken, the browser opens, the first step begins. *)
LEMMA OpeningFits ==
  ASSUME NEW c, CallFits(c), c.pc \in {"wait", "open"}, NEW p \in {"open", "look"}
  PROVE  CallFits([c EXCEPT !.pc = p]) /\ [c EXCEPT !.pc = p].pc = p
<1> DEFINE n == [c EXCEPT !.pc = p]
<1>1. IsCall(c) /\ Fresh(c)
  BY DEF CallFits, Shape, Ran
<1>2. /\ IsCall(n) /\ n.pc = p /\ n.page = c.page /\ n.i = c.i /\ n.targets = c.targets /\ n.pre = c.pre
      /\ n.checked = c.checked /\ n.results = c.results /\ n.heals = c.heals /\ n.broken = c.broken
  BY <1>1 DEF IsCall, Fields
<1> HIDE DEF n
<1>3. Shape(n)
  BY <1>2 DEF CallFits, Shape, Pcs, HasBrowser
<1>4. Ran(n)
  BY <1>1, <1>2, EmptyList DEF Ran, Fresh, Stepping, HasFailed
<1>5. Settled(n) /\ Chosen(n)
  BY <1>2 DEF CallFits, Settled, Chosen
<1> QED
  BY <1>2, <1>3, <1>4, <1>5 DEF CallFits, n

LEMMA AcquireInv ==
  ASSUME EInv, NEW t \in Calls, Acquire(t)
  PROVE  EInv'
<1>1. CallFits(call[t]) /\ call[t].pc = "wait" /\ LearnedFits(learned') /\ slots \in Nat /\ slots > 0 /\ slots' = slots - 1
  BY DEF EInv, Acquire
<1> DEFINE c == [call[t] EXCEPT !.pc = "open"]
<1>2. CallFits(c) /\ c.pc = "open" /\ Become(t, c)
  BY <1>1, OpeningFits DEF Acquire
<1> HIDE DEF c
<1>3. SlotMoves(call[t].pc, c.pc) /\ slots' \in Nat
  BY <1>1, <1>2 DEF SlotMoves, HasBrowser
<1> QED
  BY <1>1, <1>2, <1>3, CallStep

LEMMA OpenedInv ==
  ASSUME EInv, NEW t \in Calls, Opened(t)
  PROVE  EInv'
<1>1. CallFits(call[t]) /\ call[t].pc = "open" /\ UNCHANGED <<slots, learned>>
  BY DEF EInv, Opened
<1> DEFINE c == [call[t] EXCEPT !.pc = "look"]
<1>2. CallFits(c) /\ c.pc = "look" /\ Become(t, c)
  BY <1>1, OpeningFits DEF Opened
<1> HIDE DEF c
<1> QED
  BY <1>1, <1>2, QuietStep DEF HasBrowser

(* The call with the exception that broke its session. *)
LEMMA BrokenFacts ==
  ASSUME NEW c, CallFits(c), c.pc \in HasBrowser, NEW p
  PROVE  LET n == [c EXCEPT !.pc = p, !.broken = TRUE]
             b == [c EXCEPT !.broken = TRUE]
         IN /\ IsCall(n) /\ n.pc = p /\ n.i = c.i /\ n.page = c.page /\ n.pre = c.pre /\ n.targets = c.targets
            /\ n.results = c.results /\ n.heals = c.heals /\ n.broken = TRUE /\ n.checked = c.checked
            /\ IsCall(b) /\ b.i = c.i /\ b.pre = c.pre /\ b.targets = c.targets
            /\ b.results = c.results /\ b.heals = c.heals /\ b.broken = TRUE /\ b.checked = c.checked
<1>1. IsCall(c)
  BY DEF CallFits, Shape
<1> QED
  BY <1>1 DEF IsCall, Fields

LEMMA BrokenReported ==
  ASSUME NEW c, CallFits(c), c.pc \in HasBrowser
  PROVE  CallFits(Reported([c EXCEPT !.broken = TRUE])) /\ Reported([c EXCEPT !.broken = TRUE]).pc = "end"
<1> DEFINE b == [c EXCEPT !.broken = TRUE]
<1>1. /\ IsCall(b) /\ b.i = c.i /\ b.pre = c.pre /\ b.targets = c.targets
      /\ b.results = c.results /\ b.heals = c.heals /\ b.broken = TRUE /\ b.checked = c.checked
  BY BrokenFacts
<1> HIDE DEF b
<1>2. /\ b.i \in Steps /\ b.pre \in Fingerprints /\ TargetsFit(b.targets) /\ b.results \in Seq(Statuses)
      /\ IsList(b.heals) /\ b.broken \in BOOLEAN /\ Settled(b)
      /\ \A k \in DOMAIN b.heals : k \in DOMAIN b.results /\ (b.results[k] # "HEALED" => b.heals[k] = NoHeal)
  BY <1>1 DEF CallFits, Shape, Ran, Settled
<1>3. CallFits(Reported(b)) /\ Reported(b).pc = "end"
  BY <1>1, <1>2, ReportedFits
<1> QED
  BY <1>3 DEF b

LEMMA ClosedReported ==
  ASSUME NEW c, CallFits(c), c.pc = "close"
  PROVE  CallFits(Reported(c)) /\ Reported(c).pc = "end"
<1>1. /\ IsCall(c) /\ c.i \in Steps /\ c.pre \in Fingerprints /\ TargetsFit(c.targets) /\ c.results \in Seq(Statuses)
      /\ IsList(c.heals) /\ c.broken \in BOOLEAN /\ Settled(c)
      /\ \A k \in DOMAIN c.heals : k \in DOMAIN c.results /\ (c.results[k] # "HEALED" => c.heals[k] = NoHeal)
  BY DEF CallFits, Shape, Ran
<1>2. c.broken = TRUE \/ HasFailed(c.results) \/ (Len(c.results) = Len(Plan) /\ Len(c.heals) = Len(Plan))
  BY DEF CallFits, Ran
<1> QED
  BY <1>1, <1>2, ReportedFits

(* A slot is given back when the session ends. *)
LEMMA GivenBack ==
  ASSUME EInv, NEW t \in Calls, call[t].pc \in HasBrowser, NEW c, CallFits(c), c.pc \notin HasBrowser,
         Become(t, c), slots' = slots + 1, learned' = learned
  PROVE  EInv'
<1>1. SlotMoves(call[t].pc, c.pc) /\ slots' \in Nat /\ LearnedFits(learned')
  BY DEF SlotMoves, EInv
<1> QED
  BY <1>1, CallStep

LEMMA OpenFailsInv ==
  ASSUME EInv, NEW t \in Calls, OpenFails(t)
  PROVE  EInv'
<1> DEFINE c == Reported([call[t] EXCEPT !.broken = TRUE])
<1>1. CallFits(call[t]) /\ call[t].pc \in HasBrowser /\ Become(t, c) /\ slots' = slots + 1 /\ learned' = learned
  BY DEF EInv, OpenFails, HasBrowser
<1>2. CallFits(c) /\ c.pc = "end"
  BY <1>1, BrokenReported
<1> HIDE DEF c
<1>3. c.pc \notin HasBrowser
  BY <1>2 DEF HasBrowser
<1> QED
  BY <1>1, <1>2, <1>3, GivenBack

LEMMA CloseInv ==
  ASSUME EInv, NEW t \in Calls, Close(t)
  PROVE  EInv'
<1>1. CallFits(call[t]) /\ call[t].pc = "close" /\ call[t].pc \in HasBrowser /\ slots' = slots + 1 /\ learned' = learned
  BY DEF EInv, Close, HasBrowser
<1>2. PICK c : Become(t, c) /\ c \in {Reported(call[t]), Reported([call[t] EXCEPT !.broken = TRUE])}
  BY DEF Close
<1>3. CallFits(c) /\ c.pc = "end"
  BY <1>1, <1>2, BrokenReported, ClosedReported
<1>4. c.pc \notin HasBrowser
  BY <1>3 DEF HasBrowser
<1> QED
  BY <1>1, <1>2, <1>3, <1>4, GivenBack

LEMMA CrashInv ==
  ASSUME EInv, NEW t \in Calls, Crash(t)
  PROVE  EInv'
<1> DEFINE c == call[t]
           n == [c EXCEPT !.pc = "close", !.broken = TRUE]
<1>1. CallFits(c) /\ c.pc \in HasBrowser \ {"open", "close"} /\ Become(t, n) /\ UNCHANGED <<slots, learned>>
  BY DEF EInv, Crash
<1> HIDE DEF c
<1>2. /\ IsCall(n) /\ n.pc = "close" /\ n.i = c.i /\ n.page = c.page /\ n.pre = c.pre /\ n.targets = c.targets
      /\ n.results = c.results /\ n.heals = c.heals /\ n.broken = TRUE /\ n.checked = c.checked
  <2>1. IsCall(c)
    BY <1>1 DEF CallFits, Shape
  <2> QED
    BY <2>1 DEF IsCall, Fields
<1> HIDE DEF n
<1>3. Shape(n)
  BY <1>1, <1>2 DEF CallFits, Shape, Pcs, HasBrowser
<1>4. Ran(n) /\ Settled(n) /\ Chosen(n)
  BY <1>1, <1>2 DEF CallFits, Ran, Settled, Chosen, Stepping, HasBrowser
<1>5. CallFits(n) /\ (call[t].pc \in HasBrowser <=> n.pc \in HasBrowser)
  BY <1>1, <1>2, <1>3, <1>4 DEF CallFits, HasBrowser, c
<1> QED
  BY <1>1, <1>5, QuietStep

LEMMA OverFits ==
  ASSUME NEW p \in {"done", "lost"}
  PROVE  CallFits([NoCall EXCEPT !.pc = p]) /\ [NoCall EXCEPT !.pc = p].pc = p
<1> DEFINE c == [NoCall EXCEPT !.pc = p]
<1>1. /\ IsCall(c) /\ Fresh(c) /\ c.pc = p /\ c.page = {} /\ c.pre = NoFingerprint /\ c.checked = FALSE
      /\ c.targets = NoCall.targets
  BY NoCallFits DEF IsCall, Fields, Fresh
<1> HIDE DEF c
<1>2. CallFits(c)
  BY <1>1, NoCallFits, FreshFits
<1> QED
  BY <1>1, <1>2 DEF c

LEMMA CancelInv ==
  ASSUME EInv, NEW t \in Calls, Cancel(t)
  PROVE  EInv'
<1> DEFINE c == [NoCall EXCEPT !.pc = "lost"]
<1>1. CallFits(c) /\ c.pc = "lost" /\ Become(t, c) /\ learned' = learned
  BY OverFits DEF Cancel
<1>2. call[t].pc \in HasBrowser \union {"wait"} /\ slots' = IF call[t].pc \in HasBrowser THEN slots + 1 ELSE slots
  BY DEF Cancel
<1> HIDE DEF c
<1>3. c.pc \notin HasBrowser
  BY <1>1 DEF HasBrowser
<1>4. CASE call[t].pc \in HasBrowser
  BY <1>1, <1>2, <1>3, <1>4, GivenBack
<1>5. CASE call[t].pc \notin HasBrowser
  BY <1>1, <1>2, <1>3, <1>5, QuietStep
<1> QED
  BY <1>4, <1>5

-----------------------------------------------------------------------------
(* A step of the plan. *)

(* What all steps share: the call is in a step, and stays in the browser. *)
LEMMA StepKeeps ==
  ASSUME EInv, NEW t \in Calls, call[t].pc \in Stepping, NEW n, CallFits(n), n.pc \in Stepping \union {"close"},
         Become(t, n), UNCHANGED <<slots, learned>>
  PROVE  EInv'
<1>1. call[t].pc \in HasBrowser /\ n.pc \in HasBrowser
  BY DEF Stepping, HasBrowser
<1> QED
  BY <1>1, QuietStep

LEMMA StepFacts ==
  ASSUME EInv, NEW t \in Calls, call[t].pc \in Stepping
  PROVE  LET c == call[t]
         IN /\ CallFits(c) /\ Shape(c) /\ Ran(c) /\ IsCall(c) /\ c.i \in Steps /\ TargetsFit(c.targets)
            /\ c.page \in Sites \union {{}} /\ c.pre \in Fingerprints /\ Settled(c) /\ Chosen(c)
BY DEF EInv, CallFits, Shape

LEMMA RenderInv ==
  ASSUME EInv, NEW t \in Calls, Render(t)
  PROVE  EInv'
<1> DEFINE c == call[t]
<1>1. c.pc \in Stepping /\ UNCHANGED <<slots, learned>>
  BY DEF Render, HasBrowser, Stepping
<1>2. PICK page \in Sites : Become(t, [c EXCEPT !.page = page])
  BY DEF Render
<1>3. Shape(c) /\ Ran(c) /\ IsCall(c) /\ TargetsFit(c.targets) /\ c.pre \in Fingerprints /\ Settled(c) /\ Chosen(c)
  BY <1>1, StepFacts
<1> DEFINE n == [c EXCEPT !.page = page]
<1>4. /\ IsCall(n) /\ n.pc = c.pc /\ n.i = c.i /\ n.results = c.results /\ n.heals = c.heals /\ n.broken = c.broken
      /\ n.targets = c.targets /\ n.page = page /\ n.pre = c.pre /\ n.checked = c.checked /\ n.heal = c.heal
  BY <1>3 DEF IsCall, Fields
<1>5. Become(t, n)
  BY <1>2
<1> HIDE DEF c, n
<1>6. Settled(n) /\ Chosen(n)
  BY <1>3, <1>4 DEF Settled, Chosen
<1>7. CallFits(n)
  BY <1>1, <1>3, <1>4, <1>6, WithinFits
<1> QED
  BY <1>1, <1>4, <1>5, <1>7, StepKeeps DEF c

(* The healer's choice on the page of the call. *)
LEMMA HealingChosen ==
  ASSUME NEW c, Shape(c), NEW l \in attempt_healing(c.page, Plan[c.i].primary, c.targets[c.i]),
         NEW n, n.heal = [locator |-> l, page |-> c.page], n.targets = c.targets, n.i = c.i
  PROVE  Chosen(n)
<1>1. c.page \in SUBSET Elements /\ IsFiniteSet(c.page)
  BY Pages DEF Shape
<1>2. c.targets[c.i].fp \in Fingerprints
  BY DEF Shape, TargetsFit, IsTarget
<1>3. n.heal.locator = l /\ n.heal.page = c.page
  OBVIOUS
<1>4. ClearChoice(c.page, l, c.targets[c.i], Plan[c.i].primary)
  BY <1>1, ChosenIsClear
<1>5. Threshold > NO_IDENTITY_CAP =>
        SafeChoice(c.page, l, c.targets[c.i].fp, broken_attributes(Plan[c.i].primary))
  BY <1>1, <1>2, ChosenIsSafe
<1> QED
  BY <1>3, <1>4, <1>5 DEF Chosen

LEMMA HealedFits ==
  ASSUME NEW c, CallFits(c), c.pc \in Stepping, NEW p \in {"early", "retry"},
         NEW l \in attempt_healing(c.page, Plan[c.i].primary, c.targets[c.i])
  PROVE  LET n == [c EXCEPT !.pc = p, !.heal = [locator |-> l, page |-> c.page]]
         IN CallFits(n) /\ n.pc \in Stepping
<1> DEFINE n == [c EXCEPT !.pc = p, !.heal = [locator |-> l, page |-> c.page]]
<1>1. Shape(c) /\ Ran(c) /\ Settled(c) /\ IsCall(c) /\ TargetsFit(c.targets) /\ c.page \in Sites \union {{}} /\ c.pre \in Fingerprints
  BY DEF CallFits, Shape
<1>2. /\ IsCall(n) /\ n.pc = p /\ n.i = c.i /\ n.results = c.results /\ n.heals = c.heals /\ n.broken = c.broken
      /\ n.targets = c.targets /\ n.page = c.page /\ n.pre = c.pre /\ n.checked = c.checked
      /\ n.heal = [locator |-> l, page |-> c.page]
  BY <1>1 DEF IsCall, Fields
<1> HIDE DEF n
<1>3. Chosen(n)
  BY <1>1, <1>2, HealingChosen
<1>4. Settled(n) /\ n.pc \in Stepping
  BY <1>1, <1>2 DEF Settled, Stepping
<1>5. CallFits(n)
  BY <1>1, <1>2, <1>3, <1>4, WithinFits
<1> QED
  BY <1>4, <1>5 DEF n

LEMMA LookMissingInv ==
  ASSUME EInv, NEW t \in Calls, LookMissing(t)
  PROVE  EInv'
<1> DEFINE c == call[t]
<1>1. c.pc = "look" /\ c.pc \in Stepping /\ UNCHANGED <<slots, learned>>
  BY DEF LookMissing, Stepping
<1>2. PICK l \in _heal_missing_early(t) : Become(t, [c EXCEPT !.pc = "early", !.heal = [locator |-> l, page |-> c.page]])
  BY DEF LookMissing
<1>3. l \in attempt_healing(c.page, Plan[c.i].primary, c.targets[c.i])
  BY DEF _heal_missing_early, Step, Target
<1>4. CallFits(c)
  BY <1>1, StepFacts
<1> DEFINE n == [c EXCEPT !.pc = "early", !.heal = [locator |-> l, page |-> c.page]]
<1>5. CallFits(n) /\ n.pc \in Stepping
  BY <1>1, <1>3, <1>4, HealedFits
<1>6. Become(t, n)
  BY <1>2
<1> HIDE DEF n
<1> QED
  BY <1>1, <1>5, <1>6, StepKeeps

LEMMA LookInv ==
  ASSUME EInv, NEW t \in Calls, Look(t)
  PROVE  EInv'
<1> DEFINE c == call[t]
           fp == build_fingerprint(c.page, Step(t).primary)
           n == [c EXCEPT !.pc = "act", !.pre = fp]
<1>1. c.pc = "look" /\ c.pc \in Stepping /\ UNCHANGED <<slots, learned>> /\ Become(t, n)
  BY DEF Look, Stepping
<1>2. Shape(c) /\ Ran(c) /\ IsCall(c) /\ TargetsFit(c.targets) /\ c.page \in Sites \union {{}} /\ Settled(c)
  BY <1>1, StepFacts
<1>3. fp \in Fingerprints
  BY <1>2, Pages, SeenFits
<1> HIDE DEF fp
<1>4. /\ IsCall(n) /\ n.pc = "act" /\ n.i = c.i /\ n.results = c.results /\ n.heals = c.heals /\ n.broken = c.broken
      /\ n.targets = c.targets /\ n.page = c.page /\ n.pre = fp /\ n.checked = c.checked
  BY <1>2 DEF IsCall, Fields
<1> HIDE DEF c, n
<1>5. Settled(n) /\ Chosen(n) /\ n.pc \in Stepping
  BY <1>2, <1>4 DEF Settled, Chosen, Stepping
<1>6. CallFits(n)
  BY <1>1, <1>2, <1>3, <1>4, <1>5, WithinFits
<1> QED
  BY <1>1, <1>5, <1>6, StepKeeps DEF c

(* The page and what the check says, whatever the action's outcome. *)
Shown(c, page, checked) == [c EXCEPT !.page = page, !.checked = checked]

Moved(c, n, checked, p) ==
  LET m == [n EXCEPT !.pc = p]
  IN Shape(m) /\ Ran(m) /\ m.pc = p /\ m.i = c.i /\ m.checked = checked

LEMMA ShownFits ==
  ASSUME NEW c, Shape(c), Ran(c), c.pc \in Stepping, NEW page \in Sites \union {{}}, NEW checked,
         NEW n, n = Shown(c, page, checked)
  PROVE  Shape(n) /\ Ran(n) /\ n.pc = c.pc /\ \A p \in Stepping : Moved(c, n, checked, p)
<1>1. IsCall(c) /\ TargetsFit(c.targets) /\ c.pre \in Fingerprints
  BY DEF Shape
<1>2. /\ IsCall(n) /\ n.pc = c.pc /\ n.i = c.i /\ n.results = c.results /\ n.heals = c.heals /\ n.broken = c.broken
      /\ n.targets = c.targets /\ n.page = page /\ n.pre = c.pre /\ n.checked = checked
  BY <1>1 DEF IsCall, Fields, Shown
<1>3. Shape(n) /\ Ran(n)
  BY <1>1, <1>2, WithinFits
<1>4. ASSUME NEW p \in Stepping
      PROVE  Moved(c, n, checked, p)
  <2> DEFINE m == [n EXCEPT !.pc = p]
  <2>1. /\ IsCall(m) /\ m.pc = p /\ m.i = c.i /\ m.results = c.results /\ m.heals = c.heals /\ m.broken = c.broken
        /\ m.targets = c.targets /\ m.page = page /\ m.pre = c.pre /\ m.checked = checked
    BY <1>2 DEF IsCall, Fields
  <2> HIDE DEF m
  <2>2. Shape(m) /\ Ran(m)
    BY <1>1, <2>1, WithinFits
  <2> QED
    BY <2>1, <2>2 DEF m, Moved
<1> QED
  BY <1>2, <1>3, <1>4

(* A text or a hidden element that fails its check fails the action. *)
LEMMA CheckFails ==
  ASSUME NEW page, NEW step, NEW l, NEW outcome \in Outcomes(page, step, l), FailsCheck(page, step, l),
         step.action \in {"assert_text", "assert_hidden"}
  PROVE  outcome = "check"
<1>1. CASE step.action = "assert_text"
  BY <1>1 DEF Outcomes, FailsCheck
<1>2. CASE step.action = "assert_hidden"
  BY <1>2 DEF Outcomes, FailsCheck
<1> QED
  BY <1>1, <1>2

LEMMA PageAfterFits ==
  ASSUME NEW c, c.page \in Sites \union {{}}, NEW step, NEW outcome, NEW page \in PagesAfter(c, step, outcome)
  PROVE  page \in Sites \union {{}}
BY DEF PagesAfter

LEMMA ActInv ==
  ASSUME EInv, NEW t \in Calls, Act(t)
  PROVE  EInv'
<1> DEFINE c == call[t]
           l == Step(t).primary
           checked == FailsCheck(c.page, Step(t), l)
<1>1. c.pc = "act" /\ c.pc \in Stepping /\ UNCHANGED <<slots, learned>>
  BY DEF Act, Stepping
<1>2. PICK outcome \in Outcomes(c.page, Step(t), l) : \E page \in PagesAfter(c, Step(t), outcome) :
        LET after == [c EXCEPT !.page = page, !.checked = checked]
        IN Become(t, IF outcome # "ok" THEN Caught(after, outcome)
                     ELSE IF l = NoLocator THEN Recorded(after, "PASSED")
                     ELSE [after EXCEPT !.pc = "learn"])
  BY DEF Act
<1>3. PICK page \in PagesAfter(c, Step(t), outcome) :
        LET after == [c EXCEPT !.page = page, !.checked = checked]
        IN Become(t, IF outcome # "ok" THEN Caught(after, outcome)
                     ELSE IF l = NoLocator THEN Recorded(after, "PASSED")
                     ELSE [after EXCEPT !.pc = "learn"])
  BY <1>2
<1>a. checked \in BOOLEAN
  BY DEF FailsCheck
<1>b. PICK b \in BOOLEAN : b = checked
  BY <1>a
<1> DEFINE after == [c EXCEPT !.page = page, !.checked = b]
<1>4. Shape(c) /\ Ran(c) /\ c.page \in Sites \union {{}}
  BY <1>1, StepFacts
<1>5. page \in Sites \union {{}}
  BY <1>4, PageAfterFits
<1>6. outcome # "check" => ~(checked /\ Plan[c.i].action \in {"assert_text", "assert_hidden"})
  BY CheckFails DEF Step
<1>7. \/ \E status \in {"FAILED", "PASSED"} : Become(t, Recorded(after, status))
      \/ outcome # "check" /\ \E p \in {"heal", "learn"} : Become(t, [after EXCEPT !.pc = p])
  BY <1>3, <1>b DEF Caught
<1> HIDE DEF checked, l
<1>8. Shape(after) /\ Ran(after) /\ after.pc \in Stepping /\ \A p \in Stepping : Moved(c, after, b, p)
  <2>1. after = Shown(c, page, b)
    BY DEF Shown
  <2> HIDE DEF c, after
  <2>2. Shape(after) /\ Ran(after) /\ after.pc = c.pc /\ \A p \in Stepping : Moved(c, after, b, p)
    BY <1>1, <1>4, <1>5, <2>1, ShownFits
  <2> QED
    BY <1>1, <2>2
<1> HIDE DEF after
<1>9. ASSUME NEW p \in {"heal", "learn"}, outcome # "check"
      PROVE  CallFits([after EXCEPT !.pc = p]) /\ [after EXCEPT !.pc = p].pc = p
  <2> DEFINE m == [after EXCEPT !.pc = p]
  <2>1. p \in Stepping
    BY DEF Stepping
  <2>2. Shape(m) /\ Ran(m) /\ m.pc = p /\ m.i = c.i /\ m.checked = b
    BY <1>8, <2>1 DEF Moved
  <2> HIDE DEF m
  <2>3. Settled(m) /\ Chosen(m)
    BY <1>6, <1>9, <1>b, <2>2 DEF Settled, Chosen
  <2> QED
    BY <2>2, <2>3 DEF CallFits, m
<1>10. ASSUME NEW status \in {"FAILED", "PASSED"}
       PROVE  CallFits(Recorded(after, status)) /\ Recorded(after, status).pc \in {"look", "close"}
  <2>1. status \in Statuses
    BY DEF Statuses
  <2> QED
    BY <1>8, <2>1, RecordedFits
<1>11. PICK n : Become(t, n) /\ CallFits(n) /\ n.pc \in {"look", "close", "heal", "learn"}
  BY <1>7, <1>9, <1>10
<1>12. n.pc \in Stepping \union {"close"}
  BY <1>11 DEF Stepping
<1> QED
  BY <1>1, <1>11, <1>12, StepKeeps

LEMMA LearnInv ==
  ASSUME EInv, NEW t \in Calls, Learn(t)
  PROVE  EInv'
<1> DEFINE c == call[t]
           l == Step(t).primary
           fp == IF c.pre # NoFingerprint THEN c.pre ELSE build_fingerprint(c.page, l)
           target == _enrich_target(c.targets[c.i], l, fp)
           n == [c EXCEPT !.targets[c.i] = target]
<1>1. c.pc = "learn" /\ c.pc \in Stepping /\ UNCHANGED <<slots, learned>> /\ Become(t, Recorded(n, "PASSED"))
  BY DEF Learn, Stepping
<1>2. /\ Shape(c) /\ Ran(c) /\ IsCall(c) /\ TargetsFit(c.targets) /\ c.page \in Sites \union {{}}
      /\ c.pre \in Fingerprints /\ c.i \in Steps
  BY <1>1, StepFacts
<1>3. fp \in Fingerprints
  BY <1>2, Pages, SeenFits
<1> HIDE DEF fp
<1>4. IsTarget(target)
  <2>1. IsTarget(c.targets[c.i])
    BY <1>2 DEF TargetsFit
  <2> QED
    BY <1>3, <2>1 DEF _enrich_target, IsTarget
<1> HIDE DEF target
<1>5. /\ IsCall(n) /\ n.pc = c.pc /\ n.i = c.i /\ n.results = c.results /\ n.heals = c.heals /\ n.broken = c.broken
      /\ n.targets = [c.targets EXCEPT ![c.i] = target] /\ n.page = c.page /\ n.pre = c.pre
  BY <1>2 DEF IsCall, Fields
<1> HIDE DEF c, n
<1>6. TargetsFit(n.targets)
  BY <1>2, <1>4, <1>5 DEF TargetsFit
<1>7. Shape(n) /\ Ran(n) /\ n.pc \in Stepping
  BY <1>1, <1>2, <1>5, <1>6, WithinFits
<1>8. CallFits(Recorded(n, "PASSED")) /\ Recorded(n, "PASSED").pc \in {"look", "close"}
  <2>1. "PASSED" \in Statuses
    BY DEF Statuses
  <2> QED
    BY <1>7, <2>1, RecordedFits
<1>9. Recorded(n, "PASSED").pc \in Stepping \union {"close"}
  BY <1>8 DEF Stepping
<1> QED
  BY <1>1, <1>8, <1>9, StepKeeps DEF c

LEMMA PageFits ==
  ASSUME NEW c, CallFits(c), c.pc \in Stepping, NEW page \in Sites \union {{}}
  PROVE  LET n == [c EXCEPT !.page = page]
             m == [n EXCEPT !.pc = "heal"]
         IN Shape(n) /\ Ran(n) /\ n.pc = c.pc /\ CallFits(m) /\ m.pc = "heal"
<1> DEFINE n == [c EXCEPT !.page = page]
           m == [n EXCEPT !.pc = "heal"]
<1>1. Shape(c) /\ Ran(c) /\ Settled(c) /\ IsCall(c) /\ TargetsFit(c.targets) /\ c.pre \in Fingerprints
  BY DEF CallFits, Shape
<1>2. /\ IsCall(n) /\ n.pc = c.pc /\ n.i = c.i /\ n.results = c.results /\ n.heals = c.heals /\ n.broken = c.broken
      /\ n.targets = c.targets /\ n.page = page /\ n.pre = c.pre
  BY <1>1 DEF IsCall, Fields
<1>3. /\ IsCall(m) /\ m.pc = "heal" /\ m.i = c.i /\ m.results = c.results /\ m.heals = c.heals /\ m.broken = c.broken
      /\ m.targets = c.targets /\ m.page = page /\ m.pre = c.pre /\ m.checked = c.checked
  BY <1>1 DEF IsCall, Fields
<1> HIDE DEF n, m
<1>4. Shape(n) /\ Ran(n)
  BY <1>1, <1>2, WithinFits
<1>5. Settled(m) /\ Chosen(m) /\ m.pc \in Stepping
  BY <1>1, <1>3 DEF Settled, Chosen, Stepping
<1>6. CallFits(m)
  BY <1>1, <1>3, <1>5, WithinFits
<1> QED
  BY <1>2, <1>3, <1>4, <1>6 DEF n, m

LEMMA ActEarlyInv ==
  ASSUME EInv, NEW t \in Calls, ActEarly(t)
  PROVE  EInv'
<1> DEFINE c == call[t]
<1>1. c.pc = "early" /\ c.pc \in Stepping /\ UNCHANGED <<slots, learned>>
  BY DEF ActEarly, Stepping
<1>2. PICK outcome \in Outcomes(c.page, Step(t), c.heal.locator) : \E page \in PagesAfter(c, Step(t), outcome) :
        LET after == [c EXCEPT !.page = page]
        IN Become(t, IF outcome = "ok" THEN Recorded(after, "HEALED") ELSE Caught(after, outcome))
  BY DEF ActEarly
<1>3. PICK page \in PagesAfter(c, Step(t), outcome) :
        LET after == [c EXCEPT !.page = page]
        IN Become(t, IF outcome = "ok" THEN Recorded(after, "HEALED") ELSE Caught(after, outcome))
  BY <1>2
<1> DEFINE after == [c EXCEPT !.page = page]
<1>4. CallFits(c) /\ c.page \in Sites \union {{}}
  BY <1>1, StepFacts
<1>5. page \in Sites \union {{}}
  BY <1>4, PageAfterFits
<1>6. \E n : Become(t, n) /\ n \in {Recorded(after, "HEALED"), Recorded(after, "FAILED"), [after EXCEPT !.pc = "heal"]}
  BY <1>3 DEF Caught
<1>7. Shape(after) /\ Ran(after) /\ after.pc \in Stepping
      /\ CallFits([after EXCEPT !.pc = "heal"]) /\ [after EXCEPT !.pc = "heal"].pc = "heal"
  BY <1>1, <1>4, <1>5, PageFits
<1> HIDE DEF after
<1>8. ASSUME NEW status \in {"FAILED", "HEALED"}
      PROVE  CallFits(Recorded(after, status)) /\ Recorded(after, status).pc \in {"look", "close"}
  <2>1. status \in Statuses
    BY DEF Statuses
  <2> QED
    BY <1>7, <2>1, RecordedFits
<1>9. PICK n : Become(t, n) /\ CallFits(n) /\ n.pc \in {"look", "close", "heal"}
  BY <1>6, <1>7, <1>8
<1>10. n.pc \in Stepping \union {"close"}
  BY <1>9 DEF Stepping
<1> QED
  BY <1>1, <1>9, <1>10, StepKeeps

LEMMA RetryInv ==
  ASSUME EInv, NEW t \in Calls, Retry(t)
  PROVE  EInv'
<1> DEFINE c == call[t]
<1>1. c.pc = "retry" /\ c.pc \in Stepping /\ UNCHANGED <<slots, learned>>
  BY DEF Retry, Stepping
<1>2. PICK outcome \in Outcomes(c.page, Step(t), c.heal.locator) : \E page \in PagesAfter(c, Step(t), outcome) :
        Become(t, Recorded([c EXCEPT !.page = page], IF outcome = "ok" THEN "HEALED" ELSE "FAILED"))
  BY DEF Retry
<1>3. PICK page \in PagesAfter(c, Step(t), outcome) :
        Become(t, Recorded([c EXCEPT !.page = page], IF outcome = "ok" THEN "HEALED" ELSE "FAILED"))
  BY <1>2
<1> DEFINE after == [c EXCEPT !.page = page]
           status == IF outcome = "ok" THEN "HEALED" ELSE "FAILED"
<1>4. CallFits(c) /\ c.page \in Sites \union {{}}
  BY <1>1, StepFacts
<1>5. page \in Sites \union {{}}
  BY <1>4, PageAfterFits
<1>6. Shape(after) /\ Ran(after) /\ after.pc \in Stepping
  BY <1>1, <1>4, <1>5, PageFits
<1>7. status \in Statuses
  BY DEF Statuses
<1>8. Become(t, Recorded(after, status))
  BY <1>3
<1> HIDE DEF after, status
<1>9. CallFits(Recorded(after, status)) /\ Recorded(after, status).pc \in {"look", "close"}
  BY <1>6, <1>7, RecordedFits
<1>10. Recorded(after, status).pc \in Stepping \union {"close"}
  BY <1>9 DEF Stepping
<1> QED
  BY <1>1, <1>8, <1>9, <1>10, StepKeeps

LEMMA HealInv ==
  ASSUME EInv, NEW t \in Calls, Heal(t)
  PROVE  EInv'
<1> DEFINE c == call[t]
<1>1. c.pc = "heal" /\ c.pc \in Stepping /\ UNCHANGED <<slots, learned>>
  BY DEF Heal, Stepping
<1>2. CallFits(c) /\ Shape(c) /\ Ran(c)
  BY <1>1, StepFacts
<1>3. \/ Become(t, Recorded(c, "FAILED"))
      \/ \E l \in attempt_healing(c.page, Plan[c.i].primary, c.targets[c.i]) :
           Become(t, [c EXCEPT !.pc = "retry", !.heal = [locator |-> l, page |-> c.page]])
  BY DEF Heal, Step, Target
<1> HIDE DEF c
<1>4. CASE Become(t, Recorded(c, "FAILED"))
  <2>1. "FAILED" \in Statuses
    BY DEF Statuses
  <2>2. CallFits(Recorded(c, "FAILED")) /\ Recorded(c, "FAILED").pc \in {"look", "close"}
    BY <1>1, <1>2, <2>1, RecordedFits
  <2>3. Recorded(c, "FAILED").pc \in Stepping \union {"close"}
    BY <2>2 DEF Stepping
  <2> QED
    BY <1>1, <1>4, <2>2, <2>3, StepKeeps DEF c
<1>5. ASSUME NEW l \in attempt_healing(c.page, Plan[c.i].primary, c.targets[c.i]),
             Become(t, [c EXCEPT !.pc = "retry", !.heal = [locator |-> l, page |-> c.page]])
      PROVE  EInv'
  <2> DEFINE n == [c EXCEPT !.pc = "retry", !.heal = [locator |-> l, page |-> c.page]]
  <2>1. CallFits(n) /\ n.pc \in Stepping
    BY <1>1, <1>2, HealedFits
  <2>2. Become(t, n)
    BY <1>5
  <2> HIDE DEF n
  <2> QED
    BY <1>1, <2>1, <2>2, StepKeeps DEF c
<1> QED
  BY <1>3, <1>4, <1>5

-----------------------------------------------------------------------------
(* The end of a call. *)

LEMMA RerunInv ==
  ASSUME EInv, NEW t \in Calls, Rerun(t)
  PROVE  EInv'
<1> DEFINE c == call[t]
           n == [NoCall EXCEPT !.pc = "wait", !.loaded = c.loaded, !.targets = c.targets, !.reruns = c.reruns + 1]
<1>1. c.pc = "end" /\ Become(t, n) /\ UNCHANGED <<slots, learned>>
  BY DEF Rerun
<1>2. TargetsFit(c.targets)
  BY DEF EInv, CallFits, Shape
<1>3. /\ IsCall(n) /\ Fresh(n) /\ n.pc = "wait" /\ n.page = {} /\ n.pre = NoFingerprint /\ n.checked = FALSE
      /\ n.targets = c.targets
  BY NoCallFits DEF IsCall, Fields, Fresh
<1> HIDE DEF n
<1>4. CallFits(n)
  BY <1>2, <1>3, FreshFits
<1> QED
  BY <1>1, <1>3, <1>4, QuietStep DEF HasBrowser

LEMMA CollectedFits ==
  ASSUME NEW c, TargetsFit(c.targets)
  PROVE  LearnedFits(collect_learned_targets(c))
<1> DEFINE new == collect_learned_targets(c)
<1>1. ASSUME NEW i \in Steps PROVE IsTarget(Entry(c, i))
  BY DEF Entry, IsTarget, TargetsFit
<1>2. ASSUME NEW p \in Primaries PROVE IsTarget(new[p])
  <2>1. CASE Sources(c, p) = {}
    BY <2>1, NoTargetFits DEF collect_learned_targets
  <2>2. CASE Sources(c, p) # {}
    <3>1. Sources(c, p) \subseteq Steps
      BY DEF Sources
    <3>2. (CHOOSE i \in Sources(c, p) : TRUE) \in Steps
      BY <2>2, <3>1
    <3>3. new[p] = Entry(c, CHOOSE i \in Sources(c, p) : TRUE)
      BY <2>2 DEF collect_learned_targets
    <3> QED
      BY <1>1, <3>2, <3>3
  <2> QED
    BY <2>1, <2>2
<1>3. new = [p \in Primaries |-> new[p]]
  BY DEF collect_learned_targets
<1> QED
  BY <1>2, <1>3 DEF LearnedFits

LEMMA EndInv ==
  ASSUME EInv, NEW t \in Calls, End(t)
  PROVE  EInv'
<1> DEFINE n == [NoCall EXCEPT !.pc = "done"]
<1>1. call[t].pc = "end" /\ Become(t, n) /\ slots' = slots
  BY DEF End
<1>2. CallFits(n) /\ n.pc = "done"
  BY OverFits
<1>3. TargetsFit(call[t].targets) /\ LearnedFits(learned)
  BY DEF EInv, CallFits, Shape
<1>4. learned' \in {learned, collect_learned_targets(call[t])}
  BY DEF End
<1>5. LearnedFits(learned')
  BY <1>3, <1>4, CollectedFits
<1> HIDE DEF n
<1>6. SlotMoves(call[t].pc, n.pc) /\ slots' \in Nat
  BY <1>1, <1>2 DEF SlotMoves, HasBrowser, EInv
<1> QED
  BY <1>1, <1>2, <1>5, <1>6, CallStep

LEMMA InitInv ==
  ASSUME Init
  PROVE  EInv
<1>1. CallFits(NoCall)
  BY NoCallFits, FreshFits DEF Fresh
<1>2. \A t \in Calls : call[t] = NoCall
  BY DEF Init
<1>3. {t \in Calls : call[t].pc \in HasBrowser} = {}
  BY <1>2, NoCallFits DEF HasBrowser
<1>4. Cardinality({t \in Calls : call[t].pc \in HasBrowser}) = 0
  BY <1>3, FS_EmptySet
<1>5. slots = MAX_BROWSERS /\ MAX_BROWSERS \in Nat
  BY EngineAssumption DEF Init
<1>6. SlotsKept
  BY <1>4, <1>5 DEF SlotsKept
<1>7. LearnedFits(learned)
  BY NoTargetFits DEF Init, LearnedFits
<1>8. call = [t \in Calls |-> call[t]]
  BY DEF Init
<1> QED
  BY <1>1, <1>2, <1>5, <1>6, <1>7, <1>8 DEF EInv

LEMMA NextInv ==
  ASSUME EInv, [Next]_vars
  PROVE  EInv'
<1>1. CASE Next
  <2>1. PICK t \in Calls : \/ Begin(t) \/ Acquire(t) \/ Progress(t) \/ Rerun(t)
                           \/ OpenFails(t) \/ Crash(t) \/ Cancel(t) \/ Render(t)
    BY <1>1 DEF Next
  <2>2. CASE Begin(t) \/ Acquire(t) \/ Rerun(t) \/ OpenFails(t) \/ Crash(t) \/ Cancel(t) \/ Render(t)
    BY <2>2, BeginInv, AcquireInv, RerunInv, OpenFailsInv, CrashInv, CancelInv, RenderInv
  <2>3. CASE Progress(t)
    BY <2>3, OpenedInv, CloseInv, LookMissingInv, LookInv, ActInv, LearnInv, ActEarlyInv, HealInv, RetryInv, EndInv
       DEF Progress
  <2> QED
    BY <2>1, <2>2, <2>3
<1>2. CASE UNCHANGED vars
  BY <1>2 DEF vars, EInv, SlotsKept
<1> QED
  BY <1>1, <1>2

-----------------------------------------------------------------------------
(* The theorems. *)

(* EInv is an invariant. *)
LEMMA Invariant == Spec => []EInv
<1>1. Init => EInv
  BY InitInv
<1>2. EInv /\ [Next]_vars => EInv'
  BY NextInv
<1> QED
  BY <1>1, <1>2, PTL DEF Spec

(* BrowserSession: for any number of executions and of slots, every slot of *)
(* the semaphore is free or held by a session, whatever fails or is         *)
(* cancelled.                                                               *)
THEOREM SlotsAreKept == Spec => []SlotsKept
<1>1. EInv => SlotsKept
  BY DEF EInv
<1> QED
  BY <1>1, Invariant, PTL

(* run_test, _aggregate_status: for every plan, a run is PASSED or HEALED   *)
(* only if every step ran and nothing broke, and PASSED only if no step was *)
(* healed.                                                                  *)
THEOREM PassesAreEarned == Spec => []PassMeansAllSteps
<1>1. EInv => PassMeansAllSteps
  <2> SUFFICES ASSUME EInv, NEW t \in Calls, call[t].pc = "end", _aggregate_status(call[t].results) # "FAILED"
               PROVE  /\ Len(call[t].results) = Len(Plan) /\ ~call[t].broken
                      /\ _aggregate_status(call[t].results) = "PASSED" => \A i \in Steps : call[t].heals[i] = NoHeal
    BY DEF PassMeansAllSteps
  <2> DEFINE c == call[t]
  <2>1. CallFits(c)
    BY DEF EInv
  <2> HIDE DEF c
  <2>2. c.pc = "end" /\ _aggregate_status(c.results) # "FAILED"
    BY DEF c
  <2>3. ~HasFailed(c.results)
    BY <2>2 DEF HasFailed, _aggregate_status
  <2>4. Len(c.results) = Len(Plan) /\ Len(c.heals) = Len(Plan) /\ c.broken = FALSE
    BY <2>1, <2>2, <2>3 DEF CallFits, Ran
  <2>5. ASSUME _aggregate_status(c.results) = "PASSED", NEW i \in Steps PROVE c.heals[i] = NoHeal
    <3>1. \A k \in DOMAIN c.results : c.results[k] # "HEALED"
      BY <2>5 DEF _aggregate_status
    <3>2. DOMAIN c.heals = 1..Len(c.heals)
      BY <2>1, ListFits DEF CallFits, Shape
    <3>3. i \in DOMAIN c.heals
      BY <2>4, <3>2, PlanFacts
    <3> QED
      BY <2>1, <3>1, <3>3 DEF CallFits, Ran
  <2> QED
    BY <2>4, <2>5 DEF c
<1> QED
  BY <1>1, Invariant, PTL

(* attempt_healing ("two near-identical matches = refuse, don't guess"):    *)
(* for every application, a locator chosen by scanning a page that the scan *)
(* can see whole is ahead of every other element by the margin.             *)
THEOREM HealsAreClear == Spec => []NotAGuess
<1>1. EInv => NotAGuess
  <2>1. ASSUME EInv, NEW t \in Calls, call[t].pc \in {"early", "retry"}
        PROVE  ClearChoice(call[t].heal.page, call[t].heal.locator, call[t].targets[call[t].i], Plan[call[t].i].primary)
    BY <2>1 DEF EInv, CallFits, Chosen
  <2> QED
    BY <2>1 DEF NotAGuess, ClearChoice, Step, Target
<1> QED
  BY <1>1, Invariant, PTL

(* attempt_healing and score_fingerprint: with a threshold above the cap    *)
(* for look-alikes, as configured (0.75 and 0.6), what is chosen is one     *)
(* visible element of the same tag that shares an identifying feature.      *)
THEOREM HealsAreSafe == ASSUME Threshold > NO_IDENTITY_CAP PROVE Spec => []HealIsSafe
<1>1. EInv => HealIsSafe
  <2>1. ASSUME EInv, NEW t \in Calls, call[t].pc \in {"early", "retry"}
        PROVE  SafeChoice(call[t].heal.page, call[t].heal.locator, call[t].targets[call[t].i].fp,
                          broken_attributes(Plan[call[t].i].primary))
    BY <2>1 DEF EInv, CallFits, Chosen
  <2> QED
    BY <2>1 DEF HealIsSafe, SafeChoice, Step, Target
<1> QED
  BY <1>1, Invariant, PTL

(* A result that comes from an action whose check fails is a failure. *)
LEMMA FailedIsRecorded ==
  ASSUME EInv, NEW t \in Calls, Act(t), FailsCheck(call[t].page, Step(t), Step(t).primary),
         Step(t).action \in {"assert_text", "assert_hidden"}
  PROVE  call'[t].results[Len(call'[t].results)] = "FAILED"
<1> DEFINE c == call[t]
           l == Step(t).primary
           checked == FailsCheck(c.page, Step(t), l)
<1>1. c.pc = "act" /\ c.pc \in Stepping
  BY DEF Act, Stepping
<1>2. \E outcome \in Outcomes(c.page, Step(t), l) : \E page \in PagesAfter(c, Step(t), outcome) :
        LET after == [c EXCEPT !.page = page, !.checked = checked]
        IN Become(t, IF outcome # "ok" THEN Caught(after, outcome)
                     ELSE IF l = NoLocator THEN Recorded(after, "PASSED")
                     ELSE [after EXCEPT !.pc = "learn"])
  BY DEF Act
<1>3. PICK page : Become(t, Recorded([c EXCEPT !.page = page, !.checked = checked], "FAILED"))
  BY <1>2, CheckFails DEF Caught
<1>4. IsCall(c) /\ c.results \in Seq(Statuses)
  BY DEF EInv, CallFits, Shape
<1>5. call'[t] = Recorded([c EXCEPT !.page = page, !.checked = checked], "FAILED")
  BY <1>3 DEF Become, EInv
<1> HIDE DEF checked, c
<1>6. call'[t].results = Append(c.results, "FAILED")
  BY <1>4, <1>5 DEF Recorded, IsCall, Fields
<1>7. "FAILED" \in Statuses
  BY DEF Statuses
<1> QED
  BY <1>4, <1>6, <1>7

(* A call's results grow by a step of its own. *)
LEMMA OtherSteps ==
  ASSUME EInv, [Next]_vars, NEW t \in Calls, call[t].pc = "act", ~Act(t)
  PROVE  ~(Len(call'[t].results) > Len(call[t].results))
<1>1. IsCall(call[t]) /\ Len(call[t].results) \in Nat
  BY DEF EInv, CallFits, Shape
<1>2. CASE call'[t].results = call[t].results
  BY <1>1, <1>2
<1>3. CASE call'[t].results = << >>
  BY <1>1, <1>3, EmptyList
<1>4. ASSUME Next PROVE call'[t].results = call[t].results \/ call'[t].results = << >>
  <2>1. PICK u \in Calls : \/ Begin(u) \/ Acquire(u) \/ Progress(u) \/ Rerun(u)
                           \/ OpenFails(u) \/ Crash(u) \/ Cancel(u) \/ Render(u)
    BY <1>4 DEF Next
  <2>2. \E n : Become(u, n)
    BY <2>1 DEF Begin, Acquire, Progress, Rerun, OpenFails, Crash, Cancel, Render, Opened, Close, LookMissing, Look,
                Act, Learn, ActEarly, Heal, Retry, End
  <2>3. CASE u # t
    BY <2>2, <2>3 DEF Become, EInv
  <2>4. CASE u = t
    <3>1. Crash(t) \/ Cancel(t) \/ Render(t)
      BY <2>1, <2>4 DEF Begin, Acquire, Progress, Rerun, OpenFails, Opened, Close, LookMissing, Look,
                        Learn, ActEarly, Heal, Retry, End
    <3>2. CASE Crash(t)
      BY <1>1, <3>2 DEF Crash, Become, EInv, IsCall, Fields
    <3>3. CASE Render(t)
      BY <1>1, <3>3 DEF Render, Become, EInv, IsCall, Fields
    <3>4. CASE Cancel(t)
      <4>1. call'[t] = [NoCall EXCEPT !.pc = "lost"]
        BY <3>4 DEF Cancel, Become, EInv
      <4> QED
        BY <4>1, NoCallFits DEF IsCall, Fields
    <3> QED
      BY <3>1, <3>2, <3>3, <3>4
  <2> QED
    BY <2>3, <2>4
<1>5. CASE UNCHANGED vars
  BY <1>2, <1>5 DEF vars
<1> QED
  BY <1>2, <1>3, <1>4, <1>5

(* _execute_step: for every plan and page, a text that is not there or an   *)
(* element that should be hidden is a failed step, never one that is healed *)
(* and passed.                                                              *)
THEOREM ChecksAreResults == Spec => CheckIsTheResult
<1> DEFINE A == \A t \in Calls :
                  /\ Len(call'[t].results) > Len(call[t].results)
                  /\ call[t].checked \/ (call[t].pc = "act" /\ FailsCheck(call[t].page, Step(t), Step(t).primary))
                  /\ Step(t).action \in {"assert_text", "assert_hidden"}
                  => call'[t].results[Len(call'[t].results)] = "FAILED"
<1>1. EInv /\ [Next]_vars => A
  <2> SUFFICES ASSUME EInv, [Next]_vars, NEW t \in Calls, Len(call'[t].results) > Len(call[t].results),
                      call[t].checked \/ (call[t].pc = "act" /\ FailsCheck(call[t].page, Step(t), Step(t).primary)),
                      Step(t).action \in {"assert_text", "assert_hidden"}
               PROVE  call'[t].results[Len(call'[t].results)] = "FAILED"
    OBVIOUS
  <2>1. ~call[t].checked
    BY DEF EInv, CallFits, Settled, Step
  <2>2. call[t].pc = "act" /\ FailsCheck(call[t].page, Step(t), Step(t).primary)
    BY <2>1
  <2>3. Act(t)
    BY <2>2, OtherSteps
  <2> QED
    BY <2>2, <2>3, FailedIsRecorded
<1> QED
  BY <1>1, Invariant, PTL DEF Spec, CheckIsTheResult

-----------------------------------------------------------------------------
(* Locators, and lists of them. *)

LEMMA PickedTyped ==
  ASSUME NEW S, NEW s \in Seq(S), NEW I, I \subseteq DOMAIN s
  PROVE  /\ Picked(s, I) \in Seq(S) /\ Len(Picked(s, I)) = Cardinality(I) /\ Cardinality(I) \in Nat
         /\ \A k \in 1..Cardinality(I) : Nth(I, k) \in I /\ Picked(s, I)[k] = s[Nth(I, k)]
<1>1. IsList(s)
  BY SeqIsList
<1>2. IsFiniteSet(I)
  BY <1>1, ListFits, FS_Subset
<1>3. Cardinality(I) \in Nat
  BY <1>2, FS_CardinalityType
<1>4. DOMAIN Picked(s, I) = 1..Cardinality(I)
  BY DEF Picked
<1>5. \A k \in 1..Cardinality(I) : Nth(I, k) \in I /\ Picked(s, I)[k] = s[Nth(I, k)]
  BY <1>1, <1>4, PickedFits
<1>6. \A k \in DOMAIN s : s[k] \in S
  OBVIOUS
<1>7. Picked(s, I) \in [1..Cardinality(I) -> S]
  <2>1. Picked(s, I) = [k \in 1..Cardinality(I) |-> Picked(s, I)[k]]
    BY DEF Picked
  <2> QED
    BY <1>5, <1>6, <2>1
<1>8. Picked(s, I) \in Seq(S) /\ Len(Picked(s, I)) = Cardinality(I)
  BY <1>3, <1>7
<1> QED
  BY <1>3, <1>5, <1>8

LEMMA WithoutTyped ==
  ASSUME NEW s \in Seq(Locators), NEW l
  PROVE  Without(s, l) \in Seq(Locators)
<1> DEFINE I == {k \in DOMAIN s : s[k] # l}
<1>1. I \subseteq DOMAIN s /\ Without(s, l) = Picked(s, I)
  BY DEF Without
<1> HIDE DEF I
<1> QED
  BY <1>1, PickedTyped

LEMMA KeptTyped ==
  ASSUME NEW s \in Seq(Locators)
  PROVE  /\ Kept(s) \in Seq(Locators) /\ Len(Kept(s)) <= MAX_LEARNED
         /\ Len(s) >= 1 => 1 \in DOMAIN Kept(s) /\ Kept(s)[1] = s[1]
<1> DEFINE n == Least(Len(s), MAX_LEARNED)
<1>1. Len(s) \in Nat /\ MAX_LEARNED \in Nat /\ MAX_LEARNED >= 1
  BY EngineAssumption
<1>2. n \in Nat /\ n <= Len(s) /\ n <= MAX_LEARNED /\ (Len(s) >= 1 => n >= 1)
  BY <1>1 DEF Least
<1>3. Kept(s) = SubSeq(s, 1, n)
  BY DEF Kept
<1> HIDE DEF n
<1>4. SubSeq(s, 1, n) = [k \in 1..n |-> s[k]]
  BY <1>1, <1>2
<1>5. \A k \in 1..n : s[k] \in Locators
  BY <1>1, <1>2
<1>6. Kept(s) \in [1..n -> Locators]
  BY <1>3, <1>4, <1>5
<1>7. Kept(s) \in Seq(Locators) /\ Len(Kept(s)) = n /\ DOMAIN Kept(s) = 1..n
  BY <1>2, <1>6
<1>8. Len(s) >= 1 => 1 \in 1..n /\ Kept(s)[1] = s[1]
  BY <1>2, <1>3, <1>4
<1> QED
  BY <1>2, <1>7, <1>8

LEMMA ElementFields ==
  ASSUME NEW e \in Elements
  PROVE  /\ e.tag \in Tags
         /\ e.id # None => e.id \in Ids
         /\ e.name # None => e.name \in Names
         /\ e.text # None => e.text \in Texts
         /\ e.cls # None => e.cls \in Classes
BY DEF Elements

LEMMA LocatorKinds ==
  /\ \A i \in Ids : <<"id", "*", i>> \in Locators
  /\ \A t \in Tags : \A n \in Names : <<"name", t, n>> \in Locators
  /\ \A t \in Tags : \A x \in Texts : <<"text", t, x>> \in Locators /\ <<"xpath text", t, x>> \in Locators
  /\ \A t \in Tags : \A i \in Ids : <<"xpath id", t, i>> \in Locators
  /\ \A t \in Tags : <<"xpath", t, "*">> \in Locators
  /\ \A t \in Tags : \A c \in Classes : <<"class", t, c>> \in Locators
BY DEF Locators

LEMMA BestTyped ==
  ASSUME NEW e \in Elements
  PROVE  _best_locator(e) \in Locators \union {NoLocator}
BY ElementFields, LocatorKinds DEF _best_locator

LEMMA Quintuple ==
  ASSUME NEW a, NEW b, NEW c, NEW d, NEW e
  PROVE  LET all == <<a, b, c, d, e>>
         IN /\ all \in Seq({a, b, c, d, e}) /\ DOMAIN all = 1..5
            /\ all[1] = a /\ all[2] = b /\ all[3] = c /\ all[4] = d /\ all[5] = e
OBVIOUS

LEMMA GeneratedTyped ==
  ASSUME NEW fp \in Elements
  PROVE  generate_locators(fp) \in Seq(Locators)
<1> DEFINE xpath == IF fp.id # None THEN <<"xpath id", fp.tag, fp.id>>
                    ELSE IF fp.text # None THEN <<"xpath text", fp.tag, fp.text>>
                    ELSE <<"xpath", fp.tag, "*">>
           all == << <<"id", "*", fp.id>>, <<"name", fp.tag, fp.name>>, <<"text", fp.tag, fp.text>>,
                     <<"class", fp.tag, fp.cls>>, xpath >>
           I == {i \in DOMAIN all : all[i][3] # None}
<1>1. xpath \in Locators
  BY ElementFields, LocatorKinds
<1> DEFINE a == <<"id", "*", fp.id>>
           b == <<"name", fp.tag, fp.name>>
           c == <<"text", fp.tag, fp.text>>
           d == <<"class", fp.tag, fp.cls>>
<1>a. all = <<a, b, c, d, xpath>>
  OBVIOUS
<1>b. a[3] = fp.id /\ b[3] = fp.name /\ c[3] = fp.text /\ d[3] = fp.cls
  OBVIOUS
<1>c. /\ fp.id # None => a \in Locators
      /\ fp.name # None => b \in Locators
      /\ fp.text # None => c \in Locators
      /\ fp.cls # None => d \in Locators
  BY ElementFields, LocatorKinds
<1> HIDE DEF a, b, c, d, xpath
<1>d. generate_locators(fp) = Picked(all, I)
  BY DEF generate_locators, a, b, c, d, xpath
<1> HIDE DEF all
<1> DEFINE T == {a, b, c, d, xpath}
<1>2. all \in Seq(T)
  BY <1>a, Quintuple
<1> HIDE DEF T
<1>3. DOMAIN all = 1..5 /\ all[1] = a /\ all[2] = b /\ all[3] = c /\ all[4] = d /\ all[5] = xpath
  BY <1>a, Quintuple
<1>4. ASSUME NEW i \in I
      PROVE  all[i] \in Locators
  <2>1. all[i][3] # None /\ i \in 1..5
    BY <1>3
  <2>2. /\ i = 1 => all[i] \in Locators
        /\ i = 2 => all[i] \in Locators
        /\ i = 3 => all[i] \in Locators
    BY <2>1, <1>3, <1>b, <1>c
  <2>3. /\ i = 4 => all[i] \in Locators
        /\ i = 5 => all[i] \in Locators
    BY <2>1, <1>1, <1>3, <1>b, <1>c
  <2> QED
    BY <2>1, <2>2, <2>3
<1>6. I \subseteq DOMAIN all
  OBVIOUS
<1> HIDE DEF I
<1>7. /\ Picked(all, I) \in Seq(T) /\ Len(Picked(all, I)) = Cardinality(I) /\ Cardinality(I) \in Nat
      /\ \A k \in 1..Cardinality(I) : Nth(I, k) \in I /\ Picked(all, I)[k] = all[Nth(I, k)]
  BY <1>2, <1>6, PickedTyped
<1>8. Picked(all, I) \in [1..Cardinality(I) -> Locators]
  BY <1>4, <1>7
<1> QED
  BY <1>d, <1>7, <1>8

OfKinds(s, kinds) == Picked(s, {i \in DOMAIN s : s[i][1] \in kinds})

LEMMA KindsTyped ==
  ASSUME NEW s \in Seq(Locators), NEW kinds
  PROVE  OfKinds(s, kinds) \in Seq(Locators)
<1> DEFINE I == {i \in DOMAIN s : s[i][1] \in kinds}
<1>1. I \subseteq DOMAIN s /\ OfKinds(s, kinds) = Picked(s, I)
  BY DEF OfKinds
<1> HIDE DEF I
<1> QED
  BY <1>1, PickedTyped

LEMMA RankedTyped ==
  ASSUME NEW s \in Seq(Locators)
  PROVE  rank_locators(s) \in Seq(Locators)
<1>1. rank_locators(s) = OfKinds(s, {"id"}) \o OfKinds(s, {"name", "text"}) \o OfKinds(s, {"class"})
                           \o OfKinds(s, {"xpath", "xpath id", "xpath text"})
  BY DEF rank_locators, OfKinds
<1> DEFINE a == OfKinds(s, {"id"})
           b == OfKinds(s, {"name", "text"})
           c == OfKinds(s, {"class"})
           d == OfKinds(s, {"xpath", "xpath id", "xpath text"})
<1>2. a \in Seq(Locators) /\ b \in Seq(Locators) /\ c \in Seq(Locators) /\ d \in Seq(Locators)
  BY KindsTyped
<1>3. rank_locators(s) = a \o b \o c \o d
  BY <1>1
<1> HIDE DEF a, b, c, d
<1>4. a \o b \in Seq(Locators)
  BY <1>2
<1> DEFINE ab == a \o b
           abc == ab \o c
<1> HIDE DEF ab
<1>5. abc \in Seq(Locators)
  BY <1>2, <1>4 DEF ab
<1> HIDE DEF abc
<1>6. abc \o d \in Seq(Locators)
  BY <1>2, <1>5
<1> QED
  BY <1>3, <1>6 DEF ab, abc

LEMMA EnrichedTyped ==
  ASSUME NEW target, target.fallbacks \in Seq(Locators), NEW primary, NEW fp \in Fingerprints
  PROVE  _enrich_target(target, primary, fp).fallbacks \in Seq(Locators)
<1> DEFINE known == {primary} \union {target.fallbacks[k] : k \in DOMAIN target.fallbacks}
           made == generate_locators(fp)
           I == {k \in DOMAIN made : made[k] \notin known}
           new == Picked(made, I)
<1>1. CASE fp = NoFingerprint
  BY <1>1 DEF _enrich_target
<1>2. CASE fp # NoFingerprint
  <2>1. fp \in Elements
    BY <1>2 DEF Fingerprints
  <2>2. made \in Seq(Locators)
    BY <2>1, GeneratedTyped
  <2>3. I \subseteq DOMAIN made
    OBVIOUS
  <2>4. _enrich_target(target, primary, fp).fallbacks = rank_locators(target.fallbacks \o new)
    BY <1>2 DEF _enrich_target
  <2> HIDE DEF known, made, I
  <2>5. new \in Seq(Locators)
    BY <2>2, <2>3, PickedTyped
  <2> HIDE DEF new
  <2>6. target.fallbacks \o new \in Seq(Locators)
    BY <2>5
  <2> QED
    BY <2>4, <2>6, RankedTyped
<1> QED
  BY <1>1, <1>2

LEMMA EntryTyped ==
  ASSUME NEW c, NEW i, c.targets[i].fallbacks \in Seq(Locators),
         i \in DOMAIN c.results /\ c.results[i] = "HEALED" => c.heals[i].locator \in Locators
  PROVE  Entry(c, i).fallbacks \in Seq(Locators) /\ Len(Entry(c, i).fallbacks) <= MAX_LEARNED
<1> DEFINE fallbacks == c.targets[i].fallbacks
           l == c.heals[i].locator
           first == IF i \in DOMAIN c.results /\ c.results[i] = "HEALED" THEN <<l>> \o Without(fallbacks, l) ELSE fallbacks
<1>1. first \in Seq(Locators)
  <2>1. CASE i \in DOMAIN c.results /\ c.results[i] = "HEALED"
    <3>1. Without(fallbacks, l) \in Seq(Locators)
      BY WithoutTyped
    <3>2. first = <<l>> \o Without(fallbacks, l) /\ l \in Locators
      BY <2>1
    <3> HIDE DEF first, fallbacks, l
    <3> QED
      BY <3>1, <3>2
  <2>2. CASE ~(i \in DOMAIN c.results /\ c.results[i] = "HEALED")
    BY <2>2
  <2> QED
    BY <2>1, <2>2
<1>2. Entry(c, i).fallbacks = Kept(Without(first, Plan[i].primary))
  BY DEF Entry
<1> HIDE DEF first
<1>3. Without(first, Plan[i].primary) \in Seq(Locators)
  BY <1>1, WithoutTyped
<1> QED
  BY <1>2, <1>3, KeptTyped

(* A locator good enough to be taken for a step, on the page of the heal. *)
Taken(i, target, h) ==
  /\ h.locator \in Locators /\ h.locator # Plan[i].primary
  /\ _resolve_unique(h.page, h.locator)
  /\ Score(h.page, Plan[i].primary, target, h.locator) >= Threshold

LEMMA ChosenIsTaken ==
  ASSUME NEW page \in SUBSET Elements, NEW i, NEW target, target.fallbacks \in Seq(Locators),
         NEW l \in attempt_healing(page, Plan[i].primary, target),
         NEW h, h.locator = l, h.page = page
  PROVE  Taken(i, target, h)
<1>1. _resolve_unique(page, l) /\ Score(page, Plan[i].primary, target, l) >= Threshold
  BY ChosenScores
<1>2. CASE l \in Fallbacks(page, Plan[i].primary, target)
  <2>1. l # Plan[i].primary /\ \E k \in DOMAIN target.fallbacks : target.fallbacks[k] = l
    BY <1>2 DEF Fallbacks
  <2> QED
    BY <1>1, <2>1 DEF Taken
<1>3. CASE l \in Scanned(page, Plan[i].primary, target)
  <2>1. /\ l # Plan[i].primary
        /\ \/ \E k \in DOMAIN target.fallbacks : target.fallbacks[k] = l
           \/ l \in extract_candidates(page, target.fp)
    BY <1>3 DEF Scanned
  <2>2. l \in extract_candidates(page, target.fp) => \E e \in page : l = _best_locator(e) /\ l # NoLocator
    BY DEF extract_candidates
  <2>3. l \in Locators
    BY <2>1, <2>2, BestTyped
  <2> QED
    BY <1>1, <2>1, <2>3 DEF Taken
<1> QED
  BY <1>2, <1>3 DEF attempt_healing

-----------------------------------------------------------------------------
(* What is known and what was chosen: with EInv, types, and every heal.    *)

HealsTaken(targets, results, heals) ==
  \A k \in DOMAIN results : results[k] = "HEALED" => k \in DOMAIN heals /\ Taken(k, targets[k], heals[k])

TargetsTyped(targets) == \A i \in Steps : targets[i].fallbacks \in Seq(Locators)

Typed(c) ==
  /\ TargetsTyped(c.targets)
  /\ c.checked \in BOOLEAN
  /\ c.heal.locator \in Locators \union {NoLocator}
  /\ c.pc \in {"early", "retry"} => Taken(c.i, c.targets[c.i], c.heal)
  /\ HealsTaken(c.targets, c.results, c.heals)

LearnedTyped(l) == \A p \in Primaries : l[p].fallbacks \in Seq(Locators) /\ Len(l[p].fallbacks) <= MAX_LEARNED

TInv ==
  /\ \A t \in Calls : Typed(call[t])
  /\ LearnedTyped(learned)
  /\ faults \in 0..MaxFaults

FaultMoves == faults' = faults \/ (faults < MaxFaults /\ faults' = faults + 1)

LEMMA TypedStep ==
  ASSUME EInv, TInv, NEW t \in Calls, NEW n, Typed(n), Become(t, n), LearnedTyped(learned'), FaultMoves
  PROVE  TInv'
<1>1. call' = [call EXCEPT ![t] = n] /\ call = [x \in Calls |-> call[x]]
  BY DEF EInv, Become
<1>2. \A x \in Calls : Typed(call'[x])
  BY <1>1 DEF TInv
<1>3. faults' \in 0..MaxFaults
  BY EngineAssumption DEF TInv, FaultMoves
<1> QED
  BY <1>2, <1>3 DEF TInv

LEMMA TypedKept ==
  ASSUME EInv, TInv, NEW t \in Calls, NEW n, Typed(n), Become(t, n), learned' = learned, FaultMoves
  PROVE  TInv'
<1>1. LearnedTyped(learned')
  BY DEF TInv
<1> QED
  BY <1>1, TypedStep

LEMMA NoneTyped ==
  /\ NoTarget.fallbacks \in Seq(Locators) /\ Len(NoTarget.fallbacks) <= MAX_LEARNED
  /\ NoHeal.locator = NoLocator /\ NoCall.heal = NoHeal /\ TargetsTyped(NoCall.targets)
<1> DEFINE u == << >>
<1>1. u \in Seq(Locators) /\ Len(u) = 0
  OBVIOUS
<1>2. NoTarget.fallbacks = u
  BY DEF NoTarget
<1> HIDE DEF u
<1>3. NoTarget.fallbacks \in Seq(Locators) /\ Len(NoTarget.fallbacks) <= MAX_LEARNED
  BY <1>1, <1>2, EngineAssumption
<1>4. NoCall.targets = [i \in Steps |-> NoTarget]
  BY DEF NoCall
<1>5. TargetsTyped(NoCall.targets)
  BY <1>3, <1>4 DEF TargetsTyped
<1> QED
  BY <1>3, <1>5 DEF NoHeal, NoCall

(* A call that has not come to its first step, or is over. *)
LEMMA StartTyped ==
  ASSUME NEW n, n.pc \notin {"early", "retry"}, n.checked = FALSE, n.heal = NoHeal, n.results = << >>,
         TargetsTyped(n.targets)
  PROVE  Typed(n)
<1>1. HealsTaken(n.targets, n.results, n.heals)
  BY EmptyList DEF HealsTaken
<1> QED
  BY <1>1, NoneTyped DEF Typed

(* A call that has neither another result nor another choice. *)
LEMMA SameTyped ==
  ASSUME NEW c, Typed(c), NEW n, n.targets = c.targets, n.results = c.results, n.heals = c.heals, n.i = c.i,
         n.heal = c.heal, n.checked \in BOOLEAN, n.pc = c.pc \/ n.pc \notin {"early", "retry"}
  PROVE  Typed(n)
BY DEF Typed

(* A call that has chosen a locator. *)
LEMMA HealTyped ==
  ASSUME NEW c, CallFits(c), Typed(c), NEW p \in {"early", "retry"},
         NEW l \in attempt_healing(c.page, Plan[c.i].primary, c.targets[c.i])
  PROVE  Typed([c EXCEPT !.pc = p, !.heal = [locator |-> l, page |-> c.page]])
<1> DEFINE n == [c EXCEPT !.pc = p, !.heal = [locator |-> l, page |-> c.page]]
<1>1. IsCall(c) /\ c.i \in Steps /\ c.page \in SUBSET Elements
  BY Pages DEF CallFits, Shape
<1>2. /\ n.targets = c.targets /\ n.results = c.results /\ n.heals = c.heals /\ n.i = c.i /\ n.checked = c.checked
      /\ n.heal = [locator |-> l, page |-> c.page]
  BY <1>1 DEF IsCall, Fields
<1>3. n.heal.locator = l /\ n.heal.page = c.page
  BY <1>2
<1> HIDE DEF n
<1>4. c.targets[c.i].fallbacks \in Seq(Locators)
  BY <1>1 DEF Typed, TargetsTyped
<1>5. Taken(c.i, c.targets[c.i], n.heal)
  BY <1>1, <1>3, <1>4, ChosenIsTaken
<1>6. n.heal.locator \in Locators
  BY <1>5 DEF Taken
<1>7. Typed(n)
  BY <1>2, <1>5, <1>6 DEF Typed
<1> QED
  BY <1>7 DEF n

(* The result of a step; a heal is what was chosen for that step. *)
LEMMA RecordedTyped ==
  ASSUME NEW c, Shape(c), Ran(c), c.pc \in Stepping, Typed(c), NEW status \in Statuses,
         status = "HEALED" => c.pc \in {"early", "retry"}
  PROVE  Typed(Recorded(c, status))
<1> DEFINE h == IF status = "HEALED" THEN c.heal ELSE NoHeal
           n == Recorded(c, status)
<1>1. IsCall(c) /\ c.i \in Steps /\ c.i \in Nat /\ c.results \in Seq(Statuses) /\ IsList(c.heals)
      /\ Len(c.results) = c.i - 1 /\ Len(c.heals) = Len(c.results)
  BY PlanFacts DEF Shape, Ran
<1>2. /\ n.targets = c.targets /\ n.results = Append(c.results, status) /\ n.heals = Append(c.heals, h)
      /\ n.pc \in {"close", "look"} /\ n.heal = NoHeal /\ n.checked = FALSE
  BY <1>1 DEF Recorded, IsCall, Fields
<1> HIDE DEF n
<1>3. /\ DOMAIN n.heals = 1..(Len(c.heals) + 1) /\ DOMAIN c.heals = 1..Len(c.heals) /\ Len(c.heals) \in Nat
      /\ n.heals[Len(c.heals) + 1] = h /\ \A k \in 1..Len(c.heals) : n.heals[k] = c.heals[k]
  BY <1>1, <1>2, ListGrows
<1>4. /\ DOMAIN n.results = 1..(Len(c.results) + 1) /\ DOMAIN c.results = 1..Len(c.results)
      /\ n.results[Len(c.results) + 1] = status /\ \A k \in 1..Len(c.results) : n.results[k] = c.results[k]
  BY <1>1, <1>2
<1>5. ASSUME NEW k \in DOMAIN n.results, n.results[k] = "HEALED"
      PROVE  k \in DOMAIN n.heals /\ Taken(k, c.targets[k], n.heals[k])
  <2>1. CASE k = c.i
    <3>1. status = "HEALED" /\ n.heals[k] = c.heal
      BY <1>1, <1>3, <1>4, <1>5, <2>1
    <3>2. Taken(k, c.targets[k], c.heal)
      BY <2>1, <3>1 DEF Typed
    <3> QED
      BY <1>1, <1>3, <2>1, <3>1, <3>2
  <2>2. CASE k # c.i
    <3>1. k \in DOMAIN c.results /\ c.results[k] = "HEALED" /\ k \in 1..Len(c.heals)
      BY <1>1, <1>3, <1>4, <1>5, <2>2
    <3>2. k \in DOMAIN n.heals /\ n.heals[k] = c.heals[k]
      BY <1>3, <3>1
    <3>3. Taken(k, c.targets[k], c.heals[k])
      BY <3>1 DEF Typed, HealsTaken
    <3> QED
      BY <3>2, <3>3
  <2> QED
    BY <2>1, <2>2
<1>6. HealsTaken(n.targets, n.results, n.heals)
  BY <1>2, <1>5 DEF HealsTaken
<1>7. TargetsTyped(n.targets)
  BY <1>2 DEF Typed
<1>8. Typed(n)
  BY <1>2, <1>6, <1>7, NoneTyped DEF Typed
<1> QED
  BY <1>8 DEF n

(* A failed session. *)
LEMMA ReportedTyped ==
  ASSUME NEW c, IsCall(c), c.results \in Seq(Statuses), c.broken \in BOOLEAN, Typed(c)
  PROVE  Typed(Reported(c))
<1> DEFINE n == Reported(c)
<1>1. /\ n.targets = c.targets /\ n.pc = "end" /\ n.heals = c.heals /\ n.heal = c.heal /\ n.checked = c.checked
      /\ n.i = c.i /\ n.results = IF c.broken THEN Append(c.results, "FAILED") ELSE c.results
  BY DEF Reported, IsCall, Fields
<1> HIDE DEF n
<1>2. CASE c.broken = FALSE
  BY <1>1, <1>2, SameTyped DEF Typed, n
<1>3. CASE c.broken = TRUE
  <2>1. n.results = Append(c.results, "FAILED") /\ "FAILED" \in Statuses
    BY <1>1, <1>3 DEF Statuses
  <2>2. \A k \in DOMAIN n.results : n.results[k] = "HEALED" => k \in DOMAIN c.results /\ c.results[k] = "HEALED"
    BY <2>1
  <2>3. HealsTaken(n.targets, n.results, n.heals)
    BY <1>1, <2>2 DEF Typed, HealsTaken
  <2> QED
    BY <1>1, <2>3 DEF Typed, n
<1> QED
  BY <1>2, <1>3

-----------------------------------------------------------------------------
(* Every action keeps it. *)

LEMMA CallTyped ==
  ASSUME EInv, TInv, NEW t \in Calls
  PROVE  CallFits(call[t]) /\ Typed(call[t]) /\ IsCall(call[t]) /\ call[t].i \in Steps /\ call[t].checked \in BOOLEAN
BY DEF EInv, TInv, CallFits, Shape, Typed

LEMMA BeginTyped ==
  ASSUME EInv, TInv, NEW t \in Calls, Begin(t)
  PROVE  TInv'
<1> DEFINE targets == [i \in Steps |-> IF Plan[i].primary = NoLocator THEN NoTarget
                                       ELSE create_engine_target(Plan[i].primary)]
           n == [NoCall EXCEPT !.pc = "wait", !.loaded = learned, !.targets = targets]
<1>1. Become(t, n) /\ learned' = learned /\ FaultMoves
  BY DEF Begin, Fault, FaultMoves
<1>2. ASSUME NEW i \in Steps
      PROVE  targets[i].fallbacks \in Seq(Locators)
  <2>1. CASE Plan[i].primary = NoLocator
    BY <2>1, NoneTyped
  <2>2. CASE Plan[i].primary # NoLocator
    <3> DEFINE p == Plan[i].primary
               new == Kept(Without(learned[p].fallbacks, p))
    <3>1. p \in Primaries
      BY <2>2 DEF Primaries
    <3>2. learned[p].fallbacks \in Seq(Locators) /\ IsTarget(learned[p])
      BY <3>1 DEF TInv, LearnedTyped, EInv, LearnedFits
    <3>3. new \in Seq(Locators)
      BY <3>2, WithoutTyped, KeptTyped
    <3>4. targets[i] = [learned[p] EXCEPT !.fallbacks = new]
      BY <2>2 DEF create_engine_target
    <3> HIDE DEF new, p, targets
    <3>5. targets[i].fallbacks = new
      BY <3>2, <3>4 DEF IsTarget
    <3> QED
      BY <3>3, <3>5
  <2> QED
    BY <2>1, <2>2
<1>3. TargetsTyped(targets)
  BY <1>2 DEF TargetsTyped
<1> HIDE DEF targets
<1>4. /\ n.pc = "wait" /\ n.checked = FALSE /\ n.heal = NoHeal /\ n.results = << >> /\ n.targets = targets
  BY NoCallFits, NoneTyped DEF IsCall, Fields
<1> HIDE DEF n
<1>5. Typed(n)
  BY <1>3, <1>4, StartTyped
<1> QED
  BY <1>1, <1>5, TypedKept

LEMMA AcquireTyped ==
  ASSUME EInv, TInv, NEW t \in Calls, Acquire(t) \/ Opened(t)
  PROVE  TInv'
<1>1. PICK p \in {"open", "look"} : Become(t, [call[t] EXCEPT !.pc = p])
  BY DEF Acquire, Opened
<1> DEFINE c == call[t]
           n == [c EXCEPT !.pc = p]
<1>2. Become(t, n) /\ learned' = learned /\ FaultMoves
  BY <1>1 DEF Acquire, Opened, FaultMoves
<1>3. Typed(c) /\ IsCall(c) /\ c.checked \in BOOLEAN
  BY CallTyped
<1> HIDE DEF c
<1>4. /\ n.targets = c.targets /\ n.results = c.results /\ n.heals = c.heals /\ n.i = c.i /\ n.heal = c.heal
      /\ n.checked = c.checked /\ n.pc = p
  BY <1>3 DEF IsCall, Fields
<1> HIDE DEF n
<1>5. Typed(n)
  BY <1>3, <1>4, SameTyped
<1> QED
  BY <1>2, <1>5, TypedKept

(* A session that breaks: its call, and what is reported of it. *)
LEMMA BrokenTyped ==
  ASSUME NEW c, CallFits(c), Typed(c)
  PROVE  Typed(Reported(c)) /\ Typed(Reported([c EXCEPT !.broken = TRUE])) /\ Typed([c EXCEPT !.pc = "close", !.broken = TRUE])
<1> DEFINE b == [c EXCEPT !.broken = TRUE]
           n == [c EXCEPT !.pc = "close", !.broken = TRUE]
<1>1. IsCall(c) /\ c.results \in Seq(Statuses) /\ c.broken \in BOOLEAN /\ c.checked \in BOOLEAN
  BY DEF CallFits, Shape, Typed
<1>2. /\ b.targets = c.targets /\ b.results = c.results /\ b.heals = c.heals /\ b.i = c.i /\ b.heal = c.heal
      /\ b.checked = c.checked /\ b.pc = c.pc /\ b.broken = TRUE /\ IsCall(b)
  BY <1>1 DEF IsCall, Fields
<1>3. /\ n.targets = c.targets /\ n.results = c.results /\ n.heals = c.heals /\ n.i = c.i /\ n.heal = c.heal
      /\ n.checked = c.checked /\ n.pc = "close"
  BY <1>1 DEF IsCall, Fields
<1> HIDE DEF b, n
<1>4. Typed(b) /\ Typed(n)
  BY <1>1, <1>2, <1>3, SameTyped
<1>5. Typed(Reported(c)) /\ Typed(Reported(b))
  BY <1>1, <1>2, <1>4, ReportedTyped
<1> QED
  BY <1>4, <1>5 DEF b, n

LEMMA FailingTyped ==
  ASSUME EInv, TInv, NEW t \in Calls, OpenFails(t) \/ Crash(t) \/ Close(t)
  PROVE  TInv'
<1>1. Typed(call[t]) /\ CallFits(call[t])
  BY CallTyped
<1>2. PICK n : Become(t, n) /\ n \in {Reported(call[t]), Reported([call[t] EXCEPT !.broken = TRUE]),
                                      [call[t] EXCEPT !.pc = "close", !.broken = TRUE]}
  BY DEF OpenFails, Crash, Close
<1>3. learned' = learned /\ FaultMoves
  BY DEF OpenFails, Crash, Close, Fault, FaultMoves
<1>4. Typed(n)
  BY <1>1, <1>2, BrokenTyped
<1> QED
  BY <1>2, <1>3, <1>4, TypedKept

LEMMA CancelTyped ==
  ASSUME EInv, TInv, NEW t \in Calls, Cancel(t)
  PROVE  TInv'
<1> DEFINE n == [NoCall EXCEPT !.pc = "lost"]
<1>1. Become(t, n) /\ learned' = learned /\ FaultMoves
  BY DEF Cancel, Fault, FaultMoves
<1>2. /\ n.pc = "lost" /\ n.checked = FALSE /\ n.heal = NoHeal /\ n.results = << >> /\ n.targets = NoCall.targets
  BY NoCallFits, NoneTyped DEF IsCall, Fields
<1> HIDE DEF n
<1>3. Typed(n)
  BY <1>2, NoneTyped, StartTyped
<1> QED
  BY <1>1, <1>3, TypedKept

LEMMA RenderTyped ==
  ASSUME EInv, TInv, NEW t \in Calls, Render(t)
  PROVE  TInv'
<1>1. PICK page : Become(t, [call[t] EXCEPT !.page = page])
  BY DEF Render
<1> DEFINE c == call[t]
           n == [c EXCEPT !.page = page]
<1>2. Become(t, n) /\ learned' = learned /\ FaultMoves
  BY <1>1 DEF Render, FaultMoves
<1>3. Typed(c) /\ IsCall(c) /\ c.checked \in BOOLEAN
  BY CallTyped
<1> HIDE DEF c
<1>4. /\ n.targets = c.targets /\ n.results = c.results /\ n.heals = c.heals /\ n.i = c.i /\ n.heal = c.heal
      /\ n.checked = c.checked /\ n.pc = c.pc
  BY <1>3 DEF IsCall, Fields
<1> HIDE DEF n
<1>5. Typed(n)
  BY <1>3, <1>4, SameTyped
<1> QED
  BY <1>2, <1>5, TypedKept

LEMMA LookMissingTyped ==
  ASSUME EInv, TInv, NEW t \in Calls, LookMissing(t)
  PROVE  TInv'
<1>1. PICK l \in _heal_missing_early(t) :
        Become(t, [call[t] EXCEPT !.pc = "early", !.heal = [locator |-> l, page |-> call[t].page]])
  BY DEF LookMissing
<1> DEFINE c == call[t]
           n == [c EXCEPT !.pc = "early", !.heal = [locator |-> l, page |-> c.page]]
<1>2. Become(t, n) /\ learned' = learned /\ FaultMoves
  BY <1>1 DEF LookMissing, FaultMoves
<1>3. l \in attempt_healing(c.page, Plan[c.i].primary, c.targets[c.i])
  BY DEF _heal_missing_early, Step, Target
<1>4. Typed(c) /\ CallFits(c)
  BY CallTyped
<1> HIDE DEF c
<1>5. Typed(n)
  BY <1>3, <1>4, HealTyped
<1> HIDE DEF n
<1> QED
  BY <1>2, <1>5, TypedKept

LEMMA LookTyped ==
  ASSUME EInv, TInv, NEW t \in Calls, Look(t)
  PROVE  TInv'
<1> DEFINE c == call[t]
           fp == build_fingerprint(c.page, Step(t).primary)
           n == [c EXCEPT !.pc = "act", !.pre = fp]
<1>1. Become(t, n) /\ learned' = learned /\ FaultMoves
  BY DEF Look, FaultMoves
<1>2. Typed(c) /\ IsCall(c) /\ c.checked \in BOOLEAN
  BY CallTyped
<1> HIDE DEF c, fp
<1>3. /\ n.targets = c.targets /\ n.results = c.results /\ n.heals = c.heals /\ n.i = c.i /\ n.heal = c.heal
      /\ n.checked = c.checked /\ n.pc = "act"
  BY <1>2 DEF IsCall, Fields
<1> HIDE DEF n
<1>4. Typed(n)
  BY <1>2, <1>3, SameTyped
<1> QED
  BY <1>1, <1>4, TypedKept

(* A call on another page, to heal or to learn there, or with a result. *)
LEMMA ShownTyped ==
  ASSUME NEW c, Shape(c), Ran(c), Typed(c), c.pc \in Stepping, NEW page \in Sites \union {{}}, NEW checked \in BOOLEAN,
         NEW n, n = [c EXCEPT !.page = page, !.checked = checked] \/ (n = [c EXCEPT !.page = page] /\ checked = c.checked)
  PROVE  /\ Typed(n) /\ n.pc = c.pc
         /\ \A p \in {"heal", "learn"} : Typed([n EXCEPT !.pc = p])
         /\ \A status \in Statuses : (status = "HEALED" => c.pc \in {"early", "retry"}) => Typed(Recorded(n, status))
<1>1. IsCall(c) /\ TargetsFit(c.targets) /\ c.pre \in Fingerprints /\ c.checked \in BOOLEAN
  BY DEF Shape, Typed
<1>2. /\ IsCall(n) /\ n.pc = c.pc /\ n.i = c.i /\ n.results = c.results /\ n.heals = c.heals /\ n.broken = c.broken
      /\ n.targets = c.targets /\ n.page = page /\ n.pre = c.pre /\ n.checked = checked /\ n.heal = c.heal
  BY <1>1 DEF IsCall, Fields
<1>3. Shape(n) /\ Ran(n)
  BY <1>1, <1>2, WithinFits
<1>4. Typed(n)
  BY <1>2, SameTyped
<1>5. ASSUME NEW p \in {"heal", "learn"}
      PROVE  Typed([n EXCEPT !.pc = p])
  <2> DEFINE m == [n EXCEPT !.pc = p]
  <2>1. /\ m.pc = p /\ m.i = n.i /\ m.results = n.results /\ m.heals = n.heals
        /\ m.targets = n.targets /\ m.checked = n.checked /\ m.heal = n.heal
    BY <1>2 DEF IsCall, Fields
  <2> HIDE DEF m
  <2>2. Typed(m)
    BY <1>2, <1>4, <2>1, SameTyped
  <2> QED
    BY <2>2 DEF m
<1>6. ASSUME NEW status \in Statuses, status = "HEALED" => c.pc \in {"early", "retry"}
      PROVE  Typed(Recorded(n, status))
  BY <1>2, <1>3, <1>4, <1>6, RecordedTyped
<1> QED
  BY <1>2, <1>4, <1>5, <1>6

LEMMA ActTyped ==
  ASSUME EInv, TInv, NEW t \in Calls, Act(t)
  PROVE  TInv'
<1> DEFINE c == call[t]
           l == Step(t).primary
           checked == FailsCheck(c.page, Step(t), l)
<1>1. c.pc = "act" /\ c.pc \in Stepping /\ learned' = learned /\ FaultMoves
  BY DEF Act, Stepping, FaultMoves
<1>2. PICK outcome \in Outcomes(c.page, Step(t), l) : \E page \in PagesAfter(c, Step(t), outcome) :
        LET after == [c EXCEPT !.page = page, !.checked = checked]
        IN Become(t, IF outcome # "ok" THEN Caught(after, outcome)
                     ELSE IF l = NoLocator THEN Recorded(after, "PASSED")
                     ELSE [after EXCEPT !.pc = "learn"])
  BY DEF Act
<1>3. PICK page \in PagesAfter(c, Step(t), outcome) :
        LET after == [c EXCEPT !.page = page, !.checked = checked]
        IN Become(t, IF outcome # "ok" THEN Caught(after, outcome)
                     ELSE IF l = NoLocator THEN Recorded(after, "PASSED")
                     ELSE [after EXCEPT !.pc = "learn"])
  BY <1>2
<1>4. checked \in BOOLEAN
  BY DEF FailsCheck
<1>5. PICK b \in BOOLEAN : b = checked
  BY <1>4
<1> DEFINE after == [c EXCEPT !.page = page, !.checked = b]
<1>6. \/ \E status \in {"FAILED", "PASSED"} : Become(t, Recorded(after, status))
      \/ \E p \in {"heal", "learn"} : Become(t, [after EXCEPT !.pc = p])
  BY <1>3, <1>5 DEF Caught
<1>7. Shape(c) /\ Ran(c) /\ Typed(c) /\ c.page \in Sites \union {{}}
  BY <1>1, StepFacts, CallTyped
<1>8. page \in Sites \union {{}}
  BY <1>7, PageAfterFits
<1> HIDE DEF checked, l, c
<1>9. /\ \A p \in {"heal", "learn"} : Typed([after EXCEPT !.pc = p])
      /\ \A status \in Statuses : (status = "HEALED" => c.pc \in {"early", "retry"}) => Typed(Recorded(after, status))
  BY <1>1, <1>7, <1>8, ShownTyped
<1> HIDE DEF after
<1>10. PICK n : Become(t, n) /\ Typed(n)
  BY <1>6, <1>9 DEF Statuses
<1> QED
  BY <1>1, <1>10, TypedKept

LEMMA HealedTyped ==
  ASSUME EInv, TInv, NEW t \in Calls, ActEarly(t) \/ Retry(t)
  PROVE  TInv'
<1> DEFINE c == call[t]
<1>1. c.pc \in {"early", "retry"} /\ c.pc \in Stepping /\ learned' = learned /\ FaultMoves
  BY DEF ActEarly, Retry, Stepping, FaultMoves
<1>2. Shape(c) /\ Ran(c) /\ Typed(c) /\ c.page \in Sites \union {{}} /\ c.checked \in BOOLEAN
  BY <1>1, StepFacts, CallTyped
<1>3. \E outcome : \E page \in PagesAfter(c, Step(t), outcome) :
        LET after == [c EXCEPT !.page = page]
        IN \/ \E status \in {"FAILED", "HEALED"} : Become(t, Recorded(after, status))
           \/ Become(t, [after EXCEPT !.pc = "heal"])
  BY DEF ActEarly, Retry, Caught
<1>4. PICK page \in Sites \union {{}} :
        LET after == [c EXCEPT !.page = page]
        IN \/ \E status \in {"FAILED", "HEALED"} : Become(t, Recorded(after, status))
           \/ Become(t, [after EXCEPT !.pc = "heal"])
  BY <1>2, <1>3, PageAfterFits
<1> DEFINE after == [c EXCEPT !.page = page]
<1> HIDE DEF c
<1>5. /\ \A p \in {"heal", "learn"} : Typed([after EXCEPT !.pc = p])
      /\ \A status \in Statuses : (status = "HEALED" => c.pc \in {"early", "retry"}) => Typed(Recorded(after, status))
  BY <1>1, <1>2, ShownTyped
<1> HIDE DEF after
<1>6. PICK n : Become(t, n) /\ Typed(n)
  BY <1>1, <1>4, <1>5 DEF Statuses, after
<1> QED
  BY <1>1, <1>6, TypedKept

LEMMA HealMissedTyped ==
  ASSUME EInv, TInv, NEW t \in Calls, Heal(t)
  PROVE  TInv'
<1> DEFINE c == call[t]
<1>1. c.pc = "heal" /\ c.pc \in Stepping /\ learned' = learned /\ FaultMoves
  BY DEF Heal, Stepping, FaultMoves
<1>2. Shape(c) /\ Ran(c) /\ Typed(c) /\ CallFits(c)
  BY <1>1, StepFacts, CallTyped
<1>3. \/ Become(t, Recorded(c, "FAILED"))
      \/ \E l \in attempt_healing(c.page, Plan[c.i].primary, c.targets[c.i]) :
           Become(t, [c EXCEPT !.pc = "retry", !.heal = [locator |-> l, page |-> c.page]])
  BY DEF Heal, Step, Target
<1> HIDE DEF c
<1>4. "FAILED" \in Statuses
  BY DEF Statuses
<1>5. Typed(Recorded(c, "FAILED"))
  BY <1>1, <1>2, <1>4, RecordedTyped
<1>6. \A l \in attempt_healing(c.page, Plan[c.i].primary, c.targets[c.i]) :
        Typed([c EXCEPT !.pc = "retry", !.heal = [locator |-> l, page |-> c.page]])
  BY <1>2, HealTyped
<1>7. PICK n : Become(t, n) /\ Typed(n)
  BY <1>3, <1>5, <1>6
<1> QED
  BY <1>1, <1>7, TypedKept

LEMMA LearnTyped ==
  ASSUME EInv, TInv, NEW t \in Calls, Learn(t)
  PROVE  TInv'
<1> DEFINE c == call[t]
           l == Step(t).primary
           fp == IF c.pre # NoFingerprint THEN c.pre ELSE build_fingerprint(c.page, l)
           target == _enrich_target(c.targets[c.i], l, fp)
           n == [c EXCEPT !.targets[c.i] = target]
<1>1. c.pc = "learn" /\ c.pc \in Stepping /\ learned' = learned /\ FaultMoves /\ Become(t, Recorded(n, "PASSED"))
  BY DEF Learn, Stepping, FaultMoves
<1>2. /\ Shape(c) /\ Ran(c) /\ IsCall(c) /\ TargetsFit(c.targets) /\ c.page \in Sites \union {{}}
      /\ c.pre \in Fingerprints /\ c.i \in Steps /\ Typed(c)
  BY <1>1, StepFacts, CallTyped
<1>3. fp \in Fingerprints
  BY <1>2, Pages, SeenFits
<1> HIDE DEF fp
<1>4. IsTarget(target)
  <2>1. IsTarget(c.targets[c.i])
    BY <1>2 DEF TargetsFit
  <2> QED
    BY <1>3, <2>1 DEF _enrich_target, IsTarget
<1>5. target.fallbacks \in Seq(Locators)
  <2>1. c.targets[c.i].fallbacks \in Seq(Locators)
    BY <1>2 DEF Typed, TargetsTyped
  <2> QED
    BY <1>3, <2>1, EnrichedTyped
<1> HIDE DEF target
<1>6. /\ IsCall(n) /\ n.pc = c.pc /\ n.i = c.i /\ n.results = c.results /\ n.heals = c.heals /\ n.broken = c.broken
      /\ n.targets = [c.targets EXCEPT ![c.i] = target] /\ n.page = c.page /\ n.pre = c.pre
      /\ n.checked = c.checked /\ n.heal = c.heal
  BY <1>2 DEF IsCall, Fields
<1> HIDE DEF c, n
<1>7. /\ TargetsFit(n.targets) /\ n.targets[c.i] = target
      /\ \A k \in Steps \ {c.i} : n.targets[k] = c.targets[k]
  BY <1>2, <1>4, <1>6 DEF TargetsFit
<1>8. Shape(n) /\ Ran(n) /\ n.pc \in Stepping
  BY <1>1, <1>2, <1>6, <1>7, WithinFits
<1>9. TargetsTyped(n.targets)
  BY <1>2, <1>5, <1>7 DEF Typed, TargetsTyped
<1>10. ASSUME NEW k \in DOMAIN c.results, c.results[k] = "HEALED"
       PROVE  k \in DOMAIN c.heals /\ Taken(k, n.targets[k], c.heals[k])
  <2>1. Len(c.results) = c.i - 1 /\ c.results \in Seq(Statuses) /\ c.i \in Nat /\ c.i <= Len(Plan)
        /\ Steps = 1..Len(Plan) /\ Len(Plan) \in Nat
    BY <1>1, <1>2, PlanFacts DEF Shape, Ran
  <2>2. k \in Steps \ {c.i}
    BY <2>1
  <2>3. n.targets[k] = c.targets[k]
    BY <1>7, <2>2
  <2> QED
    BY <1>2, <1>10, <2>3 DEF Typed, HealsTaken
<1>11. HealsTaken(n.targets, n.results, n.heals)
  BY <1>6, <1>10 DEF HealsTaken
<1>12. Typed(n)
  BY <1>1, <1>2, <1>6, <1>9, <1>11 DEF Typed
<1>13. "PASSED" \in Statuses
  BY DEF Statuses
<1>14. Typed(Recorded(n, "PASSED"))
  BY <1>8, <1>12, <1>13, RecordedTyped
<1> QED
  BY <1>1, <1>14, TypedKept DEF c

LEMMA RerunTyped ==
  ASSUME EInv, TInv, NEW t \in Calls, Rerun(t)
  PROVE  TInv'
<1> DEFINE c == call[t]
           n == [NoCall EXCEPT !.pc = "wait", !.loaded = c.loaded, !.targets = c.targets, !.reruns = c.reruns + 1]
<1>1. Become(t, n) /\ learned' = learned /\ FaultMoves
  BY DEF Rerun, Fault, FaultMoves
<1>2. TargetsTyped(c.targets)
  BY CallTyped DEF Typed
<1> HIDE DEF c
<1>3. /\ n.pc = "wait" /\ n.checked = FALSE /\ n.heal = NoHeal /\ n.results = << >> /\ n.targets = c.targets
  BY NoCallFits, NoneTyped DEF IsCall, Fields
<1> HIDE DEF n
<1>4. Typed(n)
  BY <1>2, <1>3, StartTyped
<1> QED
  BY <1>1, <1>4, TypedKept

LEMMA CollectedTyped ==
  ASSUME NEW c, Typed(c)
  PROVE  LearnedTyped(collect_learned_targets(c))
<1> DEFINE new == collect_learned_targets(c)
<1>1. ASSUME NEW i \in Steps
      PROVE  Entry(c, i).fallbacks \in Seq(Locators) /\ Len(Entry(c, i).fallbacks) <= MAX_LEARNED
  <2>1. c.targets[i].fallbacks \in Seq(Locators)
    BY DEF Typed, TargetsTyped
  <2>2. i \in DOMAIN c.results /\ c.results[i] = "HEALED" => c.heals[i].locator \in Locators
    BY DEF Typed, HealsTaken, Taken
  <2> QED
    BY <2>1, <2>2, EntryTyped
<1>2. ASSUME NEW p \in Primaries
      PROVE  new[p].fallbacks \in Seq(Locators) /\ Len(new[p].fallbacks) <= MAX_LEARNED
  <2>1. CASE Sources(c, p) = {}
    <3>1. new[p] = NoTarget
      BY <2>1 DEF collect_learned_targets
    <3> QED
      BY <3>1, NoneTyped
  <2>2. CASE Sources(c, p) # {}
    <3>1. (CHOOSE i \in Sources(c, p) : TRUE) \in Steps
      BY <2>2 DEF Sources
    <3>2. new[p] = Entry(c, CHOOSE i \in Sources(c, p) : TRUE)
      BY <2>2 DEF collect_learned_targets
    <3> QED
      BY <1>1, <3>1, <3>2
  <2> QED
    BY <2>1, <2>2
<1> QED
  BY <1>2 DEF LearnedTyped

LEMMA EndTyped ==
  ASSUME EInv, TInv, NEW t \in Calls, End(t)
  PROVE  TInv'
<1> DEFINE n == [NoCall EXCEPT !.pc = "done"]
<1>1. Become(t, n) /\ FaultMoves
  BY DEF End, FaultMoves
<1>2. /\ n.pc = "done" /\ n.checked = FALSE /\ n.heal = NoHeal /\ n.results = << >> /\ n.targets = NoCall.targets
  BY NoCallFits, NoneTyped DEF IsCall, Fields
<1> HIDE DEF n
<1>3. Typed(n)
  BY <1>2, NoneTyped, StartTyped
<1>4. LearnedTyped(learned) /\ LearnedTyped(collect_learned_targets(call[t]))
  BY CallTyped, CollectedTyped DEF TInv
<1>5. learned' \in {learned, collect_learned_targets(call[t])}
  BY DEF End
<1>6. LearnedTyped(learned')
  BY <1>4, <1>5
<1> QED
  BY <1>1, <1>3, <1>6, TypedStep

LEMMA InitTyped ==
  ASSUME Init
  PROVE  TInv
<1>1. Typed(NoCall)
  BY NoCallFits, NoneTyped, StartTyped
<1>2. \A t \in Calls : Typed(call[t])
  BY <1>1 DEF Init
<1>3. LearnedTyped(learned)
  BY NoneTyped DEF Init, LearnedTyped
<1>4. faults \in 0..MaxFaults
  BY EngineAssumption DEF Init
<1> QED
  BY <1>2, <1>3, <1>4 DEF TInv

LEMMA NextTyped ==
  ASSUME EInv, TInv, [Next]_vars
  PROVE  TInv'
<1>1. CASE Next
  <2>1. PICK t \in Calls : \/ Begin(t) \/ Acquire(t) \/ Progress(t) \/ Rerun(t)
                           \/ OpenFails(t) \/ Crash(t) \/ Cancel(t) \/ Render(t)
    BY <1>1 DEF Next
  <2>2. CASE Begin(t) \/ Acquire(t) \/ Rerun(t) \/ OpenFails(t) \/ Crash(t) \/ Cancel(t) \/ Render(t)
    BY <2>2, BeginTyped, AcquireTyped, RerunTyped, FailingTyped, CancelTyped, RenderTyped
  <2>3. CASE Progress(t)
    BY <2>3, AcquireTyped, FailingTyped, LookMissingTyped, LookTyped, ActTyped, LearnTyped, HealedTyped,
       HealMissedTyped, EndTyped
       DEF Progress
  <2> QED
    BY <2>1, <2>2, <2>3
<1>2. CASE UNCHANGED vars
  BY <1>2 DEF vars, TInv
<1> QED
  BY <1>1, <1>2

-----------------------------------------------------------------------------
(* Types, and the next execution. *)

LEMMA TypedInvariant == Spec => [](EInv /\ TInv)
<1>1. Init => EInv /\ TInv
  BY InitInv, InitTyped
<1>2. EInv /\ TInv /\ [Next]_vars => EInv' /\ TInv'
  BY NextInv, NextTyped
<1> QED
  BY <1>1, <1>2, PTL DEF Spec

(* collect_learned_targets, create_engine_target: for every plan, page and  *)
(* number of executions, the state is well typed, and a test case never     *)
(* keeps more than MAX_LEARNED_FALLBACKS locators of an element.            *)
THEOREM TypeCorrect == Spec => []TypeOK
<1>1. EInv /\ TInv => TypeOK
  <2> SUFFICES ASSUME EInv, TInv
               PROVE  TypeOK
    OBVIOUS
  <2> DEFINE H == {t \in Calls : call[t].pc \in HasBrowser}
  <2>1. Cardinality(H) \in Nat /\ slots + Cardinality(H) = MAX_BROWSERS /\ slots \in Nat /\ MAX_BROWSERS \in Nat
    BY EngineAssumption, FS_Subset, FS_CardinalityType DEF EInv, SlotsKept
  <2> HIDE DEF H
  <2>2. slots \in 0..MAX_BROWSERS
    BY <2>1
  <2>3. ASSUME NEW x, IsTarget(x), x.fallbacks \in Seq(Locators)
        PROVE  x \in Targets
    BY <2>3 DEF IsTarget, Targets
  <2>4. \A p \in Primaries : learned[p] \in Targets /\ Len(learned[p].fallbacks) <= MAX_LEARNED
    BY <2>3 DEF EInv, LearnedFits, TInv, LearnedTyped
  <2>5. ASSUME NEW t \in Calls
        PROVE  LET c == call[t]
               IN /\ c.pc \in {"idle", "wait", "end"} \union HasBrowser \union Over
                  /\ c.i \in Steps /\ c.pre \in Fingerprints /\ c.heal.locator \in Locators \union {NoLocator}
                  /\ \A i \in Steps : c.targets[i] \in Targets
                  /\ c.results \in Seq(Statuses) /\ {c.broken, c.checked} \subseteq BOOLEAN
    <3>1. CallFits(call[t]) /\ Typed(call[t])
      BY CallTyped
    <3>2. \A i \in Steps : call[t].targets[i] \in Targets
      BY <2>3, <3>1 DEF CallFits, Shape, TargetsFit, Typed, TargetsTyped
    <3> QED
      BY <3>1, <3>2 DEF CallFits, Shape, Typed, Pcs
  <2> QED
    BY <2>2, <2>4, <2>5 DEF TypeOK, TInv
<1> QED
  BY <1>1, TypedInvariant, PTL

(* What stays of a list keeps its first place, if that stays. *)
LEMMA FirstPicked ==
  ASSUME NEW s \in Seq(Locators), NEW I, I \subseteq DOMAIN s, 1 \in I
  PROVE  Len(Picked(s, I)) >= 1 /\ Picked(s, I)[1] = s[1]
<1>1. IsList(s)
  BY SeqIsList
<1>2. IsFiniteSet(I) /\ \A i \in I : i \in Nat /\ i >= 1
  BY <1>1, ListFits, FS_Subset
<1>3. Cardinality(I) \in Nat /\ Cardinality(I) # 0
  BY <1>2, FS_CardinalityType, FS_EmptySet
<1>4. {j \in I : j <= 1} = {1}
  BY <1>2
<1>5. Cardinality({j \in I : j <= 1}) = 1
  BY <1>4, FS_Singleton
<1>6. ASSUME NEW i \in I, Cardinality({j \in I : j <= i}) = 1
      PROVE  i = 1
  <2> DEFINE B == {j \in I : j <= i}
  <2>1. IsFiniteSet(B) /\ 1 \in B /\ i \in B
    BY <1>2, FS_Subset
  <2>2. Cardinality(B) = 1
    BY <1>6
  <2> HIDE DEF B
  <2>3. PICK x : B = {x}
    BY <2>1, <2>2, FS_Singleton
  <2> QED
    BY <2>1, <2>3
<1>7. Nth(I, 1) = 1
  BY <1>5, <1>6 DEF Nth
<1>8. 1 \in 1..Cardinality(I)
  BY <1>3
<1> QED
  BY <1>3, <1>7, <1>8, PickedTyped

(* A heal comes first in what is kept of its step. *)
LEMMA HealComesFirst ==
  ASSUME NEW c, Typed(c), NEW i \in Steps, i \in DOMAIN c.results, c.results[i] = "HEALED"
  PROVE  LET fallbacks == Entry(c, i).fallbacks
         IN 1 \in DOMAIN fallbacks /\ fallbacks[1] = c.heals[i].locator /\ fallbacks \in Seq(Locators)
<1> DEFINE l == c.heals[i].locator
           rest == Without(c.targets[i].fallbacks, l)
           first == <<l>> \o rest
           I == {k \in DOMAIN first : first[k] # Plan[i].primary}
<1>1. l \in Locators /\ l # Plan[i].primary
  BY DEF Typed, HealsTaken, Taken
<1>2. rest \in Seq(Locators)
  BY WithoutTyped DEF Typed, TargetsTyped
<1>3. Entry(c, i).fallbacks = Kept(Picked(first, I))
  BY DEF Entry, Without
<1> HIDE DEF l, rest
<1>4. first \in Seq(Locators) /\ first[1] = l /\ 1 \in DOMAIN first
  BY <1>1, <1>2
<1> HIDE DEF first
<1>5. I \subseteq DOMAIN first /\ 1 \in I
  BY <1>1, <1>4
<1> HIDE DEF I
<1>6. Picked(first, I) \in Seq(Locators) /\ Len(Picked(first, I)) >= 1 /\ Picked(first, I)[1] = l
  BY <1>4, <1>5, PickedTyped, FirstPicked
<1> DEFINE kept == Picked(first, I)
<1> HIDE DEF kept
<1>7. Kept(kept) \in Seq(Locators) /\ 1 \in DOMAIN Kept(kept) /\ Kept(kept)[1] = l
  BY <1>6, KeptTyped DEF kept
<1> QED
  BY <1>3, <1>7 DEF kept, l

(* A first fallback that is good enough is chosen. *)
LEMMA FirstFallback ==
  ASSUME NEW page, NEW primary, NEW entry, entry.fallbacks \in Seq(Locators), 1 \in DOMAIN entry.fallbacks,
         NEW l, l = entry.fallbacks[1], l # primary, _resolve_unique(page, l), Score(page, primary, entry, l) >= Threshold
  PROVE  attempt_healing(page, primary, entry) = {l}
<1> DEFINE good(k) == /\ entry.fallbacks[k] # primary
                      /\ _resolve_unique(page, entry.fallbacks[k])
                      /\ Score(page, primary, entry, entry.fallbacks[k]) >= Threshold
           J == {j \in DOMAIN entry.fallbacks : good(j) /\ \A k \in 1..(j - 1) : ~good(k)}
<1>1. good(1)
  OBVIOUS
<1>2. Fallbacks(page, primary, entry) = {entry.fallbacks[j] : j \in J}
  BY DEF Fallbacks
<1> HIDE DEF good
<1>3. \A j \in DOMAIN entry.fallbacks : j \in Nat /\ j >= 1
  OBVIOUS
<1>4. J = {1}
  BY <1>1, <1>3
<1>5. Fallbacks(page, primary, entry) = {l}
  BY <1>2, <1>4
<1> QED
  BY <1>5 DEF attempt_healing

LEMMA HealRepeats ==
  ASSUME NEW c, Typed(c), NEW i \in Steps, i \in DOMAIN c.results, c.results[i] = "HEALED"
  PROVE  attempt_healing(c.heals[i].page, Plan[i].primary, Entry(c, i)) = {c.heals[i].locator}
<1> DEFINE entry == Entry(c, i)
           h == c.heals[i]
           target == c.targets[i]
<1>1. entry.fp = target.fp
  BY DEF Entry
<1>2. 1 \in DOMAIN entry.fallbacks /\ entry.fallbacks[1] = h.locator /\ entry.fallbacks \in Seq(Locators)
  BY HealComesFirst
<1>3. Taken(i, target, h)
  BY DEF Typed, HealsTaken
<1> HIDE DEF entry, target
<1>4. /\ h.locator # Plan[i].primary /\ _resolve_unique(h.page, h.locator)
      /\ Score(h.page, Plan[i].primary, entry, h.locator) >= Threshold
  BY <1>1, <1>3 DEF Taken, Score
<1> DEFINE primary == Plan[i].primary
           page == h.page
           l == h.locator
<1> HIDE DEF primary, page, l, h
<1>5. attempt_healing(page, primary, entry) = {l}
  BY <1>2, <1>4, FirstFallback DEF primary, page, l
<1> QED
  BY <1>5 DEF entry, h, primary, page, l

(* Only the end of a call makes it done. *)
LEMMA EndOnly ==
  ASSUME EInv, [Next]_vars, NEW t \in Calls, call[t].pc = "end", call'[t].pc = "done"
  PROVE  End(t)
<1>1. ~(UNCHANGED vars)
  BY DEF vars
<1>2. PICK u \in Calls : \/ Begin(u) \/ Acquire(u) \/ Progress(u) \/ Rerun(u)
                         \/ OpenFails(u) \/ Crash(u) \/ Cancel(u) \/ Render(u)
  BY <1>1 DEF Next
<1>3. \E n : Become(u, n)
  BY <1>2 DEF Begin, Acquire, Progress, Rerun, OpenFails, Crash, Cancel, Render, Opened, Close, LookMissing, Look,
              Act, Learn, ActEarly, Heal, Retry, End
<1>4. u = t
  BY <1>3 DEF Become, EInv
<1>5. End(t) \/ Rerun(t)
  BY <1>2, <1>4 DEF Begin, Acquire, Progress, OpenFails, Crash, Cancel, Render, Opened, Close, LookMissing, Look,
                    Act, Learn, ActEarly, Heal, Retry, HasBrowser
<1>6. CASE Rerun(t)
  <2> DEFINE n == [NoCall EXCEPT !.pc = "wait", !.loaded = call[t].loaded, !.targets = call[t].targets,
                                 !.reruns = call[t].reruns + 1]
  <2>1. Become(t, n)
    BY <1>6 DEF Rerun
  <2>2. n.pc = "wait"
    BY NoCallFits DEF IsCall, Fields
  <2> HIDE DEF n
  <2>3. call'[t].pc = "wait"
    BY <2>1, <2>2 DEF Become, EInv
  <2> QED
    BY <2>3
<1> QED
  BY <1>5, <1>6

(* collect_learned_targets ("so the next run heals at once"): for every     *)
(* plan, page and setting, the next execution begins with the locator that  *)
(* healed the step, and on the page where it healed chooses it again.       *)
THEOREM HealsAreRepeated == Spec => HealsAtOnce
<1> DEFINE A == \A t \in Calls : call[t].pc = "end" /\ call'[t].pc = "done" /\ learned = call[t].loaded =>
                  \A p \in Primaries : \A i \in Sources(call[t], p) :
                    i \in DOMAIN call[t].results /\ call[t].results[i] = "HEALED" =>
                      attempt_healing(call[t].heals[i].page, p, learned'[p]) = {call[t].heals[i].locator}
<1>1. EInv /\ TInv /\ [Next]_vars => A
  <2> SUFFICES ASSUME EInv, TInv, [Next]_vars,
                      NEW t \in Calls, call[t].pc = "end", call'[t].pc = "done", learned = call[t].loaded,
                      NEW p \in Primaries, NEW i \in Sources(call[t], p),
                      i \in DOMAIN call[t].results, call[t].results[i] = "HEALED"
               PROVE  attempt_healing(call[t].heals[i].page, p, learned'[p]) = {call[t].heals[i].locator}
    OBVIOUS
  <2> DEFINE c == call[t]
             entry == Entry(c, i)
  <2>1. End(t)
    BY EndOnly
  <2>2. learned' = collect_learned_targets(c)
    BY <2>1 DEF End
  <2>3. i \in Steps /\ Plan[i].primary = p /\ \A j \in Sources(c, p) : j = i
    BY PlanFacts DEF Sources
  <2>4. learned'[p] = entry
    BY <2>2, <2>3 DEF collect_learned_targets
  <2>5. Typed(c)
    BY CallTyped
  <2>6. attempt_healing(c.heals[i].page, Plan[i].primary, entry) = {c.heals[i].locator}
    BY <2>3, <2>5, HealRepeats
  <2> QED
    BY <2>3, <2>4, <2>6
<1> QED
  BY <1>1, TypedInvariant, PTL DEF Spec, HealsAtOnce
=============================================================================
