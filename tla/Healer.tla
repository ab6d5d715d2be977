-------------------------------- MODULE Healer --------------------------------
(***************************************************************************)
(* How the engine finds the element of a test step again when its locator  *)
(* is broken: fingerprints and their scores, the locators learned from     *)
(* them and the healing decision (engine/healer.py, engine/locators.py,    *)
(* engine/detector.py).                                                    *)
(*                                                                         *)
(* A page is a set of elements.  An element is described by its tag (with  *)
(* the kind of input), id, name, text, class, place and whether it is      *)
(* visible; "" is an attribute it does not have.  The fingerprint of an    *)
(* element is that description.  A locator is a triple <<by, tag, value>>. *)
(* The other attributes the code knows (test id, role, aria-label,         *)
(* placeholder, href) are treated the same way as name, or as the class.   *)
(* Scores are integers in hundredths, rounded down.                        *)
(***************************************************************************)
EXTENDS Positions

CONSTANTS
  Tags, Ids, Names, Texts, Classes,  \* the attribute values of the application
  Alike,          \* pairs of texts, as sets, that differ a little
  Places,         \* bound: places on a page, 0..Places, in document order
  Threshold,      \* heal_threshold
  MaxCandidates   \* max_candidates

ASSUME HealerAssumption ==
  /\ Places \in Nat
  /\ Threshold \in 0..100
  /\ MaxCandidates \in Nat \ {0}
  /\ \A pair \in Alike : pair \subseteq Texts

None == ""

Elements == [tag : Tags, id : Ids \union {None}, name : Names \union {None},
             text : Texts \union {None}, cls : Classes \union {None}, at : 0..Places, visible : BOOLEAN]

Locators ==
  ({"id"} \X {"*"} \X Ids) \union ({"name"} \X Tags \X Names) \union ({"text", "xpath text"} \X Tags \X Texts)
    \union ({"xpath id"} \X Tags \X Ids) \union ({"xpath"} \X Tags \X {"*"}) \union ({"class"} \X Tags \X Classes)

NoLocator == <<"none", "*", None>>
NoFingerprint == [tag |-> None]
Fingerprints == Elements \union {NoFingerprint}

(* What the engine knows of the element of a step: Target. *)
NoTarget == [fallbacks |-> << >>, fp |-> NoFingerprint]

-----------------------------------------------------------------------------
(* Locators. *)

(* The elements of a page that a locator matches (as the browser does). *)
Matches(page, l) ==
  {e \in page : \/ l[1] = "id" /\ e.id = l[3]
                \/ /\ e.tag = l[2]
                   /\ \/ l[1] = "name" /\ e.name = l[3]
                      \/ l[1] \in {"text", "xpath text"} /\ e.text = l[3]
                      \/ l[1] = "xpath id" /\ e.id = l[3]
                      \/ l[1] = "class" /\ e.cls = l[3]
                      \/ l[1] = "xpath"}

(* page.locator(l).first: the first match in document order. *)
First(page, l) == CHOOSE e \in Matches(page, l) : \A f \in Matches(page, l) : e.at <= f.at

(* build_fingerprint: none for a locator that matches nothing. *)
build_fingerprint(page, l) == IF Matches(page, l) = {} THEN NoFingerprint ELSE First(page, l)

(* generate_locators: from the attributes the element has, most stable first. *)
generate_locators(fp) ==
  LET xpath == IF fp.id # None THEN <<"xpath id", fp.tag, fp.id>>
               ELSE IF fp.text # None THEN <<"xpath text", fp.tag, fp.text>>
               ELSE <<"xpath", fp.tag, "*">>
      all == << <<"id", "*", fp.id>>, <<"name", fp.tag, fp.name>>, <<"text", fp.tag, fp.text>>,
                <<"class", fp.tag, fp.cls>>, xpath >>
  IN Picked(all, {i \in DOMAIN all : all[i][3] # None})

(* rank_locators: a stable sort by kind. *)
rank_locators(locators) ==
  LET of(kinds) == Picked(locators, {i \in DOMAIN locators : locators[i][1] \in kinds})
  IN of({"id"}) \o of({"name", "text"}) \o of({"class"}) \o of({"xpath", "xpath id", "xpath text"})

(* _best_locator: how the scan of a page addresses an element. *)
_best_locator(e) ==
  IF e.id # None THEN <<"id", "*", e.id>>
  ELSE IF e.name # None THEN <<"name", e.tag, e.name>>
  ELSE IF e.text # None THEN <<"xpath text", e.tag, e.text>>
  ELSE IF e.cls # None THEN <<"class", e.tag, e.cls>>
  ELSE NoLocator

(* broken_attributes: what a failed locator matched on proves nothing. *)
broken_attributes(primary) == {primary[1]} \intersect {"id", "name"}

-----------------------------------------------------------------------------
(* Scores. *)

(* fuzz.ratio of two texts. *)
ratio(s, t) == IF s = t THEN 100 ELSE IF {s, t} \in Alike THEN 85 ELSE 20

Same(stored, live, attr) == stored[attr] = live[attr]
Known(stored, ignore) == {a \in {"id", "name"} \ ignore : stored[a] # None}

_attribute_signal(stored, live, ignore) ==
  LET known == Known(stored, ignore) \union (IF stored.cls # None THEN {"cls"} ELSE {})
  IN IF known = {} THEN 50
     ELSE (100 * Cardinality({a \in known : Same(stored, live, a)})) \div Cardinality(known)

_text_signal(stored, live) ==
  IF stored.text = None /\ live.text = None THEN 100
  ELSE IF stored.text = None \/ live.text = None THEN 0
  ELSE ratio(stored.text, live.text)

Distance(stored, live) == IF stored.at < live.at THEN live.at - stored.at ELSE stored.at - live.at

_position_signal(stored, live) == IF Distance(stored, live) < 2 THEN 100 - 50 * Distance(stored, live) ELSE 0

(* Same parents; another place among the siblings. *)
_structure_signal(stored, live) == IF stored.at = live.at THEN 100 ELSE 50

(* _identity_matches: shared identifying features, of those to be compared. *)
Features(stored, ignore) == Known(stored, ignore) \union (IF stored.text # None THEN {"text"} ELSE {})

Shared(stored, live, ignore) ==
  {a \in Features(stored, ignore) :
     IF a = "text" THEN live.text # None /\ ratio(stored.text, live.text) >= 80 ELSE Same(stored, live, a)}

Weighted(stored, live, ignore) ==
  (40 * _attribute_signal(stored, live, ignore) + 20 * _text_signal(stored, live)
     + 20 * _position_signal(stored, live) + 20 * _structure_signal(stored, live)) \div 100

NO_IDENTITY_CAP == 60
ID_ANCHOR_SCORE == 85

Least(a, b) == IF a < b THEN a ELSE b
Most(a, b) == IF a > b THEN a ELSE b

\* mutant: a look-alike is scored like any other
score_uncapped(stored, live, ignore) ==
  IF stored.tag # live.tag THEN 0 ELSE Weighted(stored, live, ignore)

score_fingerprint(stored, live, ignore) ==
  LET score == Weighted(stored, live, ignore)
  IN IF stored.tag # live.tag THEN 0
     ELSE IF Features(stored, ignore) # {} /\ Shared(stored, live, ignore) = {} THEN Least(score, NO_IDENTITY_CAP)
     ELSE IF "id" \notin ignore /\ stored.id # None /\ Same(stored, live, "id") THEN Most(score, ID_ANCHOR_SCORE)
     ELSE score

-----------------------------------------------------------------------------
(* The decision. *)

FALLBACK_WITHOUT_FINGERPRINT == 80
AMBIGUITY_MARGIN == 5

(* _resolve_unique: exactly one element, and visible. *)
_resolve_unique(page, l) ==
  Cardinality(Matches(page, l)) = 1 /\ \A e \in Matches(page, l) : e.visible

(* _candidate: the score of a locator that resolves. *)
Score(page, primary, target, l) ==
  IF target.fp = NoFingerprint THEN FALLBACK_WITHOUT_FINGERPRINT
  ELSE score_fingerprint(target.fp, First(page, l), broken_attributes(primary))

(* extract_candidates: the first locators of the page's elements, those with *)
(* the tag looked for before the other interactive ones.                     *)
extract_candidates(page, fp) ==
  LET before(e) == {f \in page : IF (f.tag = fp.tag) = (e.tag = fp.tag) THEN f.at < e.at ELSE f.tag = fp.tag}
      earlier(e) == {_best_locator(f) : f \in before(e)} \ {NoLocator}
  IN {_best_locator(e) : e \in {f \in page : Cardinality(earlier(f)) < MaxCandidates}} \ {NoLocator}

(* attempt_healing: the locators it may select (one, or none).  First the    *)
(* fallbacks in order, then the page: the best, if nothing else comes close. *)
Fallbacks(page, primary, target) ==
  LET good(i) == /\ target.fallbacks[i] # primary
                 /\ _resolve_unique(page, target.fallbacks[i])
                 /\ Score(page, primary, target, target.fallbacks[i]) >= Threshold
  IN {target.fallbacks[i] : i \in {j \in DOMAIN target.fallbacks :
                                     good(j) /\ \A k \in 1..(j - 1) : ~good(k)}}

\* mutant: the best candidate is taken however close the next one is
ScannedBest(page, primary, target) ==
  LET candidates == {l \in extract_candidates(page, target.fp) \ {primary} : _resolve_unique(page, l)}
      score(l) == Score(page, primary, target, l)
  IN {l \in candidates : score(l) >= Threshold /\ \A m \in candidates : score(l) >= score(m)}

Scanned(page, primary, target) ==
  LET tried == {target.fallbacks[i] : i \in DOMAIN target.fallbacks}
      candidates == {l \in (tried \union extract_candidates(page, target.fp)) \ {primary} : _resolve_unique(page, l)}
      score(l) == Score(page, primary, target, l)
  IN {l \in candidates : /\ score(l) >= Threshold
                         /\ score(l) >= AMBIGUITY_MARGIN
                         /\ \A m \in candidates \ {l} : score(l) - score(m) >= AMBIGUITY_MARGIN}

attempt_healing(page, primary, target) ==
  LET first == Fallbacks(page, primary, target)
  IN IF first # {} THEN first
     ELSE IF target.fp = NoFingerprint THEN {}
     ELSE Scanned(page, primary, target)
=============================================================================
