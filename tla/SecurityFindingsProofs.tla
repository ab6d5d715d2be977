------------------------ MODULE SecurityFindingsProofs -----------------------
(***************************************************************************)
(* Proofs about SecurityFindings, for any pages, repositories, slots,      *)
(* branch limits, requests and deployments.                                *)
(***************************************************************************)
EXTENDS SecurityFindings, SequenceTheorems, TLAPS

----------------------------------------------------------------------------
(* Findings *)

\* A finding about a header or a cookie names it.
Wellformed(f) ==
  /\ f.check \in CHECK_IDS
  /\ f.check \in _HEADER_FIXES \cup {"SEC-COOKIE-FLAGS"} => f.about # {}

\* Each passive check reports well-formed findings, none of them an active check's
\* or a dependency.
LEMMA AnalyzeShape ==
  ASSUME NEW page \in PageRecords, NEW f \in analyze(page)
  PROVE  Wellformed(f) /\ ~IsActive(f) /\ ~IsDependency(f)
<1> USE DEF When, Finding, Wellformed, _HEADER_FIXES, IsActive, IsDependency, ACTIVE_CHECK_IDS, CHECK_IDS
<1>1. CASE f \in check_csp(page) \/ f \in check_framing(page) \/ f \in check_content_type_options(page)
           \/ f \in check_referrer_policy(page) \/ f \in check_hsts(page)
  BY <1>1 DEF check_csp, check_framing, check_content_type_options, check_referrer_policy, check_hsts
<1>2. CASE f \in check_disclosure(page) \/ f \in check_cors(page) \/ f \in check_transport(page)
  BY <1>2 DEF check_disclosure, check_cors, check_transport
<1>3. CASE f \in check_password_forms(page) \/ f \in check_mixed_content(page)
  BY <1>3 DEF check_password_forms, check_mixed_content
<1>4. CASE f \in check_cookies(page)
  BY <1>4 DEF check_cookies
<1>5. \/ f \in check_csp(page) \/ f \in check_framing(page) \/ f \in check_content_type_options(page)
      \/ f \in check_referrer_policy(page) \/ f \in check_hsts(page) \/ f \in check_disclosure(page)
      \/ f \in check_cors(page) \/ f \in check_cookies(page) \/ f \in check_transport(page)
      \/ f \in check_password_forms(page) \/ f \in check_mixed_content(page)
  BY Zenon DEF analyze
<1> QED BY <1>1, <1>2, <1>3, <1>4, <1>5

LEMMA HolesShape ==
  ASSUME NEW page \in PageRecords, NEW f \in Holes(page)
  PROVE  Wellformed(f) /\ IsActive(f) /\ ~IsDependency(f)
<1>1. PICK p \in page.points : f \in _probe(p)
  BY DEF Holes
<1>2. PICK check \in p.holes : f = [check |-> check, about |-> {p.field}]
  BY <1>1 DEF _probe, Finding
<1>3. check \in ACTIVE_CHECK_IDS
  BY <1>1, <1>2 DEF PageRecords
<1> QED BY <1>2, <1>3 DEF Wellformed, IsActive, IsDependency, ACTIVE_CHECK_IDS, CHECK_IDS, _HEADER_FIXES

LEMMA DependencyShape ==
  ASSUME NEW page \in PageRecords, NEW f \in as_findings(page)
  PROVE  Wellformed(f) /\ IsDependency(f) /\ ~IsActive(f)
<1>1. PICK a \in page.advisories : f = [check |-> "SEC-DEP", about |-> {a}]
  BY DEF as_findings, Finding
<1> QED BY <1>1 DEF Wellformed, IsActive, IsDependency, ACTIVE_CHECK_IDS, CHECK_IDS, _HEADER_FIXES

LEMMA KeysShape ==
  ASSUME NEW k \in Keys
  PROVE  Wellformed(k)
<1>1. PICK page \in Pages : k \in Issues(page)
  BY DEF Keys
<1>2. page \in PageRecords
  BY FindingsAssumption
<1> QED BY <1>1, <1>2, AnalyzeShape, HolesShape, DependencyShape DEF Issues

\* What the site shows now: passive findings, holes and dependencies are keys,
\* each of its own kind.
LEMMA SiteShape ==
  ASSUME site \in Pages
  PROVE  /\ analyze(site) \subseteq Passive
         /\ Holes(site) \subseteq Active
         /\ as_findings(site) \subseteq Dependencies
         /\ Issues(site) = analyze(site) \cup Holes(site) \cup as_findings(site)
         /\ Passive \cap Active = {} /\ Passive \cap Dependencies = {} /\ Active \cap Dependencies = {}
         /\ Passive \cup Active \cup Dependencies = Keys
<1>1. site \in PageRecords
  BY FindingsAssumption
<1>2. Issues(site) \subseteq Keys
  BY DEF Keys
<1>3. Active \cap Dependencies = {}
  BY DEF Active, Dependencies, IsActive, IsDependency, ACTIVE_CHECK_IDS
<1>4. Passive \cap Active = {} /\ Passive \cap Dependencies = {} /\ Passive \cup Active \cup Dependencies = Keys
  BY DEF Passive, Active, Dependencies
<1>5. Issues(site) = analyze(site) \cup Holes(site) \cup as_findings(site)
  BY DEF Issues
<1>6. analyze(site) \subseteq Passive
  BY <1>1, <1>2, <1>5, AnalyzeShape DEF Passive
<1>7. Holes(site) \subseteq Active
  BY <1>1, <1>2, <1>5, HolesShape DEF Active
<1>8. as_findings(site) \subseteq Dependencies
  BY <1>1, <1>2, <1>5, DependencyShape DEF Dependencies
<1> QED BY <1>3, <1>4, <1>5, <1>6, <1>7, <1>8

----------------------------------------------------------------------------
(* Patches *)

\* An edit names files a patch may change.
EditOK(e) == e.files \subseteq EDITED_FILES /\ \A d \in e.done : d[2] \in EDITED_FILES

LEMMA EditIsOK ==
  ASSUME NEW done, NEW file \in EDITED_FILES, NEW changes
  PROVE  EditOK(Edit(done, file, changes))
BY DEF Edit, EditOK

LEMMA NoEditIsOK == EditOK(NoEdit)
BY DEF NoEdit, EditOK

LEMMA BothAreOK ==
  ASSUME NEW a, NEW b, EditOK(a), EditOK(b)
  PROVE  EditOK(Both(a, b))
BY DEF Both, EditOK

LEMMA HeaderEditsOK ==
  ASSUME NEW fix, NEW r
  PROVE  EditOK(HeaderEdits(fix, r))
<1> USE EditIsOK, NoEditIsOK
<1>0. /\ "app.py" \in EDITED_FILES /\ "run.py" \in EDITED_FILES /\ "app.js" \in EDITED_FILES
      /\ "settings.py" \in EDITED_FILES /\ "next.config.js" \in EDITED_FILES /\ "nginx.conf" \in EDITED_FILES
  BY DEF EDITED_FILES
<1>1. EditOK(_patch_python_headers(fix, r))
  BY <1>0, Zenon DEF _patch_python_headers
<1>2. EditOK(_patch_uvicorn(fix, r))
  BY <1>0, Zenon DEF _patch_uvicorn
<1>3. EditOK(_patch_express(fix, r))
  BY <1>0, Zenon DEF _patch_express
<1>4. EditOK(_patch_django(fix, r))
  BY <1>0, Zenon DEF _patch_django
<1>5. EditOK(_patch_next(fix, r))
  BY <1>0, Zenon DEF _patch_next
<1>6. EditOK(_patch_nginx(fix, r))
  BY <1>0, Zenon DEF _patch_nginx
<1>7. EditOK(Both(_patch_python_headers(fix, r), _patch_uvicorn(fix, r)))
  BY <1>1, <1>2, BothAreOK
<1> QED BY <1>3, <1>4, <1>5, <1>6, <1>7, Zenon DEF HeaderEdits

LEMMA CodeEditsOK ==
  ASSUME NEW fix, NEW r, NEW handled
  PROVE  EditOK(CodeEdits(fix, r, handled))
<1> USE EditIsOK, NoEditIsOK
<1>0. "app.py" \in EDITED_FILES /\ "views.py" \in EDITED_FILES
  BY DEF EDITED_FILES
<1>1. EditOK(_patch_python_cors(fix, r))
  BY <1>0, Zenon DEF _patch_python_cors
<1>2. EditOK(_patch_python_cookies(fix, r))
  BY <1>0, Zenon DEF _patch_python_cookies
<1> DEFINE a == IF "cors" \in handled THEN NoEdit ELSE _patch_python_cors(fix, r)
           b == IF "cookie" \in handled \/ (r.python = "none" /\ (r.express \/ r.django))
                THEN NoEdit ELSE _patch_python_cookies(fix, r)
<1>3. EditOK(a) /\ EditOK(b)
  BY <1>1, <1>2, Zenon
<1>4. CodeEdits(fix, r, handled) = Both(a, b)
  BY DEF CodeEdits
<1> QED BY <1>3, <1>4, BothAreOK

\* Every topic of a fix was asked for by a check.
LEMMA SourcesShape ==
  ASSUME NEW findings \in SUBSET Keys, NEW fix, NEW s \in Sources(fix, findings)
  PROVE  s.check \in CHECK_IDS
<1>1. \A f \in findings : f.check \in CHECK_IDS
  BY KeysShape DEF Wellformed
<1>2. "SEC-DISCLOSURE" \in CHECK_IDS /\ "SEC-CORS" \in CHECK_IDS /\ "SEC-COOKIE-FLAGS" \in CHECK_IDS
  BY DEF CHECK_IDS
<1> DEFINE A == UNION {{[topic |-> h, check |-> f.check] : h \in fix.set \cap f.about} :
                         f \in {f \in findings : f.check \in _HEADER_FIXES}}
           B == {[topic |-> h, check |-> "SEC-DISCLOSURE"] : h \in fix.remove}
           C == IF fix.cors THEN {[topic |-> "cors", check |-> "SEC-CORS"]} ELSE {}
           D == IF fix.cookies # {} THEN {[topic |-> "cookie", check |-> "SEC-COOKIE-FLAGS"]} ELSE {}
<1>s. Sources(fix, findings) = A \cup B \cup C \cup D
  BY DEF Sources
<1>3. CASE s \in A
  <2>1. PICK f \in findings : s \in {[topic |-> h, check |-> f.check] : h \in fix.set \cap f.about}
    BY <1>3
  <2> QED BY <1>1, <2>1
<1>4. CASE s \in B \/ s \in C \/ s \in D
  BY <1>2, <1>4
<1> HIDE DEF A, B, C, D
<1> QED BY <1>s, <1>3, <1>4

\* A topic of each kind is among a fix's sources.
LEMMA SourcesHave ==
  ASSUME NEW fix, NEW findings
  PROVE  /\ \A f \in findings : \A h \in fix.set \cap f.about :
              f.check \in _HEADER_FIXES => [topic |-> h, check |-> f.check] \in Sources(fix, findings)
         /\ \A h \in fix.remove : [topic |-> h, check |-> "SEC-DISCLOSURE"] \in Sources(fix, findings)
         /\ fix.cors => [topic |-> "cors", check |-> "SEC-CORS"] \in Sources(fix, findings)
         /\ fix.cookies # {} => [topic |-> "cookie", check |-> "SEC-COOKIE-FLAGS"] \in Sources(fix, findings)
<1> DEFINE A == UNION {{[topic |-> h, check |-> f.check] : h \in fix.set \cap f.about} :
                         f \in {f \in findings : f.check \in _HEADER_FIXES}}
           B == {[topic |-> h, check |-> "SEC-DISCLOSURE"] : h \in fix.remove}
           C == IF fix.cors THEN {[topic |-> "cors", check |-> "SEC-CORS"]} ELSE {}
           D == IF fix.cookies # {} THEN {[topic |-> "cookie", check |-> "SEC-COOKIE-FLAGS"]} ELSE {}
<1>s. Sources(fix, findings) = A \cup B \cup C \cup D
  BY DEF Sources
<1>1. \A f \in findings : \A h \in fix.set \cap f.about :
        f.check \in _HEADER_FIXES => [topic |-> h, check |-> f.check] \in A
  <2> SUFFICES ASSUME NEW f \in findings, NEW h \in fix.set \cap f.about, f.check \in _HEADER_FIXES
               PROVE  [topic |-> h, check |-> f.check] \in A
    OBVIOUS
  <2>1. [topic |-> h, check |-> f.check] \in {[topic |-> g, check |-> f.check] : g \in fix.set \cap f.about}
    OBVIOUS
  <2> QED BY <2>1, Zenon
<1>2. \A h \in fix.remove : [topic |-> h, check |-> "SEC-DISCLOSURE"] \in B
  OBVIOUS
<1>3. fix.cors => [topic |-> "cors", check |-> "SEC-CORS"] \in C
  OBVIOUS
<1>4. fix.cookies # {} => [topic |-> "cookie", check |-> "SEC-COOKIE-FLAGS"] \in D
  OBVIOUS
<1> HIDE DEF A, B, C, D
<1> QED BY <1>s, <1>1, <1>2, <1>3, <1>4

\* Every check a patch can address has a topic.
LEMMA FixesHaveSources ==
  ASSUME NEW findings \in SUBSET Keys, NEW leaks, NEW f \in findings, f \notin NeedsHands(findings)
  PROVE  \E s \in Sources(fixes_for(findings, leaks), findings) : s.check = f.check
<1> DEFINE fix == fixes_for(findings, leaks)
<1>0. Wellformed(f)
  BY KeysShape
<1>1. f.check \in _HEADER_FIXES \cup {"SEC-CORS", "SEC-DISCLOSURE", "SEC-COOKIE-FLAGS"}
  BY DEF NeedsHands
<1>2. CASE f.check \in _HEADER_FIXES
  <2>1. PICK h \in f.about : TRUE
    BY <1>0, <1>2 DEF Wellformed
  <2>2. h \in fix.set
    BY <1>2 DEF fixes_for
  <2>3. [topic |-> h, check |-> f.check] \in Sources(fix, findings)
    BY <1>2, <2>2, SourcesHave
  <2> QED BY <2>3
<1>3. CASE f.check = "SEC-CORS"
  <2>1. fix.cors
    BY <1>3 DEF fixes_for
  <2>2. [topic |-> "cors", check |-> "SEC-CORS"] \in Sources(fix, findings)
    BY <2>1, SourcesHave
  <2> QED BY <1>3, <2>2
<1>4. CASE f.check = "SEC-DISCLOSURE"
  <2>1. fix.remove = IF leaks \cap LEAKY_HEADERS # {} THEN leaks \cap LEAKY_HEADERS ELSE {"Server", "X-Powered-By"}
    BY <1>4 DEF fixes_for
  <2>2. PICK h \in fix.remove : TRUE
    BY <2>1
  <2>3. [topic |-> h, check |-> "SEC-DISCLOSURE"] \in Sources(fix, findings)
    BY <2>2, SourcesHave
  <2> QED BY <1>4, <2>3
<1>5. CASE f.check = "SEC-COOKIE-FLAGS"
  <2>1. PICK c \in f.about : TRUE
    BY <1>0, <1>5 DEF Wellformed
  <2>2. fix.cookies # {}
    BY <1>5 DEF fixes_for
  <2>3. [topic |-> "cookie", check |-> "SEC-COOKIE-FLAGS"] \in Sources(fix, findings)
    BY <2>2, SourcesHave
  <2> QED BY <1>5, <2>3
<1> QED BY <1>1, <1>2, <1>3, <1>4, <1>5

\* What build_patch gives has the type of a patch and answers for every check.
LEMMA PatchShape ==
  ASSUME NEW findings \in SUBSET Keys, NEW leaks, NEW r
  PROVE  /\ Row(build_patch(findings, leaks, r)) \in Patches
         /\ Row(build_patch(findings, leaks, r)).findings = findings
         /\ Row(build_patch(findings, leaks, r)).pull_request = 0
         /\ \A f \in findings :
              f.check \in {a.check : a \in Row(build_patch(findings, leaks, r)).applied}
                            \cup Row(build_patch(findings, leaks, r)).manual
<1> DEFINE fix     == fixes_for(findings, leaks)
           sources == Sources(fix, findings)
           first   == HeaderEdits(fix, r)
           all     == Both(first, CodeEdits(fix, r, Topics(first)))
           hands   == {f.check : f \in NeedsHands(findings)}
           applied == UNION {{[check |-> s.check, file |-> d[2]] : d \in {d \in all.done : d[1] = s.topic}} :
                               s \in sources}
           manual  == Manuals(sources, Topics(all), hands)
           patch   == Row(build_patch(findings, leaks, r))
<1>1. patch = [findings |-> findings, files |-> all.files, applied |-> applied, manual |-> manual, pull_request |-> 0]
  BY DEF Row, build_patch
<1>2. EditOK(all)
  BY HeaderEditsOK, CodeEditsOK, BothAreOK
<1>3. \A s \in sources : s.check \in CHECK_IDS
  BY SourcesShape
<1>4. \A f \in findings : f \notin NeedsHands(findings) => \E s \in sources : s.check = f.check
  BY FixesHaveSources
<1>5. hands \subseteq CHECK_IDS
  BY KeysShape DEF NeedsHands, Wellformed
<1>6. \A f \in NeedsHands(findings) : f.check \in hands
  OBVIOUS
<1> HIDE DEF sources, all, hands, fix, first
<1>7. applied \subseteq [check : CHECK_IDS, file : EDITED_FILES]
  BY <1>2, <1>3 DEF EditOK
<1>8. manual \subseteq CHECK_IDS
  BY <1>3, <1>5 DEF Manuals
<1>9. ASSUME NEW f \in findings PROVE f.check \in {a.check : a \in applied} \cup manual
  <2>1. CASE f \in NeedsHands(findings)
    BY <1>6, <2>1 DEF Manuals
  <2>2. CASE f \notin NeedsHands(findings)
    <3>1. PICK s \in sources : s.check = f.check
      BY <1>4, <2>2
    <3>2. CASE s.topic \in Topics(all)
      <4>1. PICK d \in all.done : d[1] = s.topic
        BY <3>2 DEF Topics
      <4>3. [check |-> s.check, file |-> d[2]]
              \in {[check |-> s.check, file |-> e[2]] : e \in {e \in all.done : e[1] = s.topic}}
        BY <4>1
      <4>2. [check |-> s.check, file |-> d[2]] \in applied
        BY <3>1, <4>3, Zenon
      <4> HIDE DEF applied
      <4> QED BY <3>1, <4>2
    <3>3. CASE s.topic \notin Topics(all)
      BY <3>1, <3>3 DEF Manuals
    <3> QED BY <3>2, <3>3
  <2> QED BY <2>1, <2>2
<1> HIDE DEF applied, manual, patch
<1>10. patch.findings = findings /\ patch.pull_request = 0 /\ patch.applied = applied /\ patch.manual = manual
  BY <1>1
<1>11. patch \in Patches
  BY <1>1, <1>2, <1>7, <1>8 DEF Patches, EditOK
<1>12. \A f \in findings : f.check \in {a.check : a \in patch.applied} \cup patch.manual
  BY <1>9, <1>10
<1> QED BY <1>10, <1>11, <1>12, Zenon DEF patch

----------------------------------------------------------------------------
(* Types *)

\* What a slot's request is, by its step.
LEMMA SlotKinds ==
  ASSUME NEW q \in SlotStates
  PROVE  /\ q.pc \in {"probe", "save"} =>
              q \in [pc : {"probe", "save"}, page : Pages, seen : SUBSET Keys, looked : SUBSET Keys]
         /\ q.pc = "advisories" => q \in [pc : {"advisories"}, seen : SUBSET Keys]
         /\ q.pc = "retested" => q \in [pc : {"retested"}, key : Keys, still : BOOLEAN]
         /\ q.pc = "clone" => q \in [pc : {"clone"}, findings : SUBSET Keys, leaks : SUBSET STRING]
         /\ q.pc \in {"branch", "commit", "pull", "record"} => q \in Asking
BY DEF SlotStates, Asking

LEMMA IdleTyped == Idle \in SlotStates
BY DEF Idle, SlotStates

LEMMA SlotTyped ==
  ASSUME TypeOK, NEW s \in Slots, NEW q \in SlotStates, slots' = [slots EXCEPT ![s] = q]
  PROVE  slots' \in [Slots -> SlotStates]
BY DEF TypeOK

LEMMA PagesTyped ==
  ASSUME NEW page \in Pages
  PROVE  page.leaks \in SUBSET STRING
BY FindingsAssumption DEF PageRecords

\* A step that only takes up a request.
LEMMA BeginsType ==
  ASSUME TypeOK, NEW s \in Slots, NEW q \in SlotStates, Begins(s, q),
         UNCHANGED <<rows, patches, branches, pulls, agreed, answered>>
  PROVE  TypeOK'
<1>1. slots' \in [Slots -> SlotStates]
  BY SlotTyped DEF Begins
<1>2. requests' \in 0..MaxRequests
  BY FindingsAssumption DEF TypeOK, Begins
<1> QED BY <1>1, <1>2 DEF TypeOK, Begins, Unchanged

\* A step that only goes on with one.
LEMMA ContinuesType ==
  ASSUME TypeOK, NEW s \in Slots, NEW q \in SlotStates, Continues(s, q),
         UNCHANGED <<rows, patches, branches, pulls, agreed, answered>>
  PROVE  TypeOK'
<1>1. slots' \in [Slots -> SlotStates]
  BY SlotTyped DEF Continues
<1> QED BY <1>1 DEF TypeOK, Continues, Unchanged

\* The rows after a scan of either target.
LEMMA SavedRows ==
  ASSUME TypeOK, NEW target, NEW seen \in SUBSET Keys, NEW page, page.leaks \in SUBSET STRING,
         save_scan(target, seen, page)
  PROVE  /\ DOMAIN rows' = DOMAIN rows \cup seen /\ DOMAIN rows' \subseteq Keys
         /\ rows' \in [DOMAIN rows' -> Rows]
         /\ \A k \in DOMAIN rows' : rows'[k].status = "resolved" <=> rows'[k].retest_result = "pass"
         /\ \A k \in seen : rows'[k].status = "open"
         /\ \A k \in DOMAIN rows \ seen :
              IF Target(k) = target THEN rows'[k].status = "resolved" ELSE rows'[k] = rows[k]
<1>1. DOMAIN rows' = DOMAIN rows \cup seen /\ DOMAIN rows' \subseteq Keys
  BY DEF save_scan, TypeOK
<1>2. ASSUME NEW k \in DOMAIN rows'
      PROVE  /\ rows'[k] \in Rows
             /\ rows'[k].status = "resolved" <=> rows'[k].retest_result = "pass"
             /\ k \in seen => rows'[k].status = "open"
             /\ k \notin seen => IF Target(k) = target THEN rows'[k].status = "resolved" ELSE rows'[k] = rows[k]
  <2>0. k \in DOMAIN rows =>
          /\ rows[k] \in Rows /\ (rows[k].status = "resolved" <=> rows[k].retest_result = "pass")
    BY DEF TypeOK
  <2>1. CASE k \in seen /\ k \in DOMAIN rows
    <3>1. rows'[k] = Updated(k, page)
      BY <1>1, <2>1 DEF save_scan
    <3> QED BY <2>0, <2>1, <3>1 DEF Updated, Rows
  <2>2. CASE k \in seen /\ k \notin DOMAIN rows
    <3>1. rows'[k] = Inserted(page)
      BY <1>1, <2>2 DEF save_scan
    <3> QED BY <2>2, <3>1 DEF Inserted, Rows
  <2>3. CASE k \notin seen /\ Target(k) = target /\ Open(k)
    <3>1. rows'[k] = Missed(k)
      BY <1>1, <2>3 DEF save_scan
    <3> QED BY <1>1, <2>0, <2>3, <3>1 DEF Missed, Rows
  <2>4. CASE k \notin seen /\ ~(Target(k) = target /\ Open(k))
    <3>1. rows'[k] = rows[k]
      BY <1>1, <2>4 DEF save_scan
    <3> QED BY <1>1, <2>0, <2>4, <3>1 DEF Open, Rows
  <2> QED BY <2>1, <2>2, <2>3, <2>4
<1>3. rows' \in [DOMAIN rows' -> Rows]
  <2>1. rows' = [k \in DOMAIN rows' |-> rows'[k]]
    BY DEF save_scan
  <2> QED BY <1>2, <2>1
<1> QED BY <1>1, <1>2, <1>3

LEMMA ObservedKeys ==
  ASSUME TypeOK, NEW looked \in SUBSET Keys, NEW seen, Observes(looked, seen)
  PROVE  agreed' \subseteq Keys
BY DEF TypeOK, Observes

LEMMA ScanTypes ==
  ASSUME TypeOK, NEW s \in Slots, ScanFetches(s) \/ ScanProbes(s) \/ scan_result(s)
  PROVE  TypeOK'
<1>0. /\ site \in Pages /\ slots[s] \in SlotStates
      /\ analyze(site) \subseteq Passive /\ Holes(site) \subseteq Active
      /\ Passive \subseteq Keys /\ Active \subseteq Keys
  BY SiteShape DEF TypeOK
<1>1. CASE ScanFetches(s)
  <2>1. PICK active \in BOOLEAN :
          Begins(s, [pc |-> IF active THEN "probe" ELSE "save", page |-> site, seen |-> analyze(site),
                     looked |-> Passive])
    BY <1>1 DEF ScanFetches
  <2>2. [pc |-> IF active THEN "probe" ELSE "save", page |-> site, seen |-> analyze(site),
         looked |-> Passive] \in SlotStates
    BY <1>0 DEF SlotStates
  <2> QED BY <1>1, <2>1, <2>2, BeginsType DEF ScanFetches
<1>2. CASE ScanProbes(s)
  <2>0. slots[s] \in [pc : {"probe", "save"}, page : Pages, seen : SUBSET Keys, looked : SUBSET Keys]
    BY <1>0, <1>2, SlotKinds DEF ScanProbes
  <2>1. PICK found \in Probed(site) :
          Continues(s, [slots[s] EXCEPT !.pc = "save", !.seen = @ \cup found, !.looked = @ \cup Active])
    BY <1>2 DEF ScanProbes
  <2>2. [slots[s] EXCEPT !.pc = "save", !.seen = @ \cup found, !.looked = @ \cup Active]
          \in [pc : {"probe", "save"}, page : Pages, seen : SUBSET Keys, looked : SUBSET Keys]
    BY <1>0, <2>0 DEF Probed
  <2>3. [slots[s] EXCEPT !.pc = "save", !.seen = @ \cup found, !.looked = @ \cup Active] \in SlotStates
    BY <2>2, Zenon DEF SlotStates
  <2> QED BY <1>2, <2>1, <2>3, ContinuesType DEF ScanProbes
<1>3. CASE scan_result(s)
  <2>0. slots[s] \in [pc : {"probe", "save"}, page : Pages, seen : SUBSET Keys, looked : SUBSET Keys]
    BY <1>0, <1>3, SlotKinds DEF scan_result
  <2>1. slots' \in [Slots -> SlotStates]
    BY <1>3, SlotTyped, IdleTyped DEF scan_result, Continues
  <2>2. agreed' \subseteq Keys
    BY <1>3, <2>0, ObservedKeys DEF scan_result
  <2>3. /\ DOMAIN rows' \subseteq Keys /\ rows' \in [DOMAIN rows' -> Rows]
        /\ \A k \in DOMAIN rows' : rows'[k].status = "resolved" <=> rows'[k].retest_result = "pass"
    BY <1>3, <2>0, SavedRows, PagesTyped DEF scan_result
  <2> QED BY <1>3, <2>1, <2>2, <2>3 DEF TypeOK, scan_result, Continues, Unchanged
<1> QED BY <1>1, <1>2, <1>3

LEMMA DependencyTypes ==
  ASSUME TypeOK, NEW s \in Slots, ingest_source(s) \/ record_dependency_findings(s)
  PROVE  TypeOK'
<1>0. /\ site \in Pages /\ slots[s] \in SlotStates
      /\ as_findings(site) \subseteq Dependencies /\ Dependencies \subseteq Keys
  BY SiteShape DEF TypeOK
<1>1. CASE ingest_source(s)
  <2>1. [pc |-> "advisories", seen |-> as_findings(site)] \in SlotStates
    BY <1>0 DEF SlotStates
  <2> QED BY <1>1, <2>1, BeginsType DEF ingest_source
<1>2. CASE record_dependency_findings(s)
  <2>0. slots[s] \in [pc : {"advisories"}, seen : SUBSET Keys]
    BY <1>0, <1>2, SlotKinds DEF record_dependency_findings
  <2>1. slots' \in [Slots -> SlotStates]
    BY <1>2, SlotTyped, IdleTyped DEF record_dependency_findings, Continues
  <2>2. agreed' \subseteq Keys
    BY <1>0, <1>2, <2>0, ObservedKeys DEF record_dependency_findings
  <2>4. [site EXCEPT !.leaks = {}].leaks \in SUBSET STRING
    BY <1>0, FindingsAssumption DEF PageRecords
  <2>3. /\ DOMAIN rows' \subseteq Keys /\ rows' \in [DOMAIN rows' -> Rows]
        /\ \A k \in DOMAIN rows' : rows'[k].status = "resolved" <=> rows'[k].retest_result = "pass"
    BY <1>2, <2>0, <2>4, SavedRows DEF record_dependency_findings
  <2> QED BY <1>2, <2>1, <2>2, <2>3 DEF TypeOK, record_dependency_findings, Continues, Unchanged
<1> QED BY <1>1, <1>2

LEMMA ApproveTypes ==
  ASSUME TypeOK, NEW key \in DOMAIN rows, approve_finding(key)
  PROVE  TypeOK'
<1>1. /\ DOMAIN rows' = DOMAIN rows
      /\ rows' \in [DOMAIN rows' -> Rows]
      /\ \A k \in DOMAIN rows : rows'[k].status = rows[k].status /\ rows'[k].retest_result = rows[k].retest_result
  <2> DEFINE row == [rows[key] EXCEPT !.approved = TRUE]
  <2>1. rows[key] \in Rows /\ rows' = [rows EXCEPT ![key] = row]
    BY DEF TypeOK, approve_finding
  <2>2. row \in Rows /\ row.status = rows[key].status /\ row.retest_result = rows[key].retest_result
    BY <2>1 DEF Rows
  <2> HIDE DEF row
  <2> QED BY <2>1, <2>2 DEF TypeOK
<1>2. requests' \in 0..MaxRequests
  BY FindingsAssumption DEF TypeOK, approve_finding
<1> QED BY <1>1, <1>2 DEF TypeOK, approve_finding, Unchanged

LEMMA RetestTypes ==
  ASSUME TypeOK, NEW s \in Slots, RetestFetches(s) \/ save_retest(s),
         slots[s].pc = "retested" => slots[s].key \in DOMAIN rows
  PROVE  TypeOK'
<1>1. CASE RetestFetches(s)
  <2>1. PICK key \in {k \in DOMAIN rows : Retestable(k)} : \E still \in StillThere(key) :
          Begins(s, [pc |-> "retested", key |-> key, still |-> still])
    BY <1>1 DEF RetestFetches
  <2>2. PICK still \in StillThere(key) : Begins(s, [pc |-> "retested", key |-> key, still |-> still])
    BY <2>1
  <2>3. still \in BOOLEAN
    <3>1. CASE IsActive(key)
      <4>1. still \in {(key \in found) : found \in Probed(site)}
        BY <2>2, <3>1, Zenon DEF StillThere
      <4>2. PICK found \in Probed(site) : still = (key \in found)
        BY <4>1, Zenon
      <4> QED BY <4>2
    <3>2. CASE ~IsActive(key)
      <4>1. still = (key \in analyze(site))
        BY <2>2, <3>2, Zenon DEF StillThere
      <4> QED BY <4>1
    <3> QED BY <3>1, <3>2
  <2>4. [pc |-> "retested", key |-> key, still |-> still] \in [pc : {"retested"}, key : Keys, still : BOOLEAN]
    BY <2>1, <2>3 DEF TypeOK
  <2>5. [pc |-> "retested", key |-> key, still |-> still] \in SlotStates
    BY <2>4, Zenon DEF SlotStates
  <2> QED BY <1>1, <2>2, <2>5, BeginsType DEF RetestFetches
<1>2. CASE save_retest(s)
  <2> DEFINE key == slots[s].key
  <2>0. slots[s] \in [pc : {"retested"}, key : Keys, still : BOOLEAN] /\ key \in DOMAIN rows
    BY <1>2, SlotKinds DEF save_retest, TypeOK
  <2>1. slots' \in [Slots -> SlotStates]
    BY <1>2, SlotTyped, IdleTyped DEF save_retest, Continues
  <2>2. agreed' \subseteq Keys
    BY <1>2, <2>0 DEF save_retest, Observes, TypeOK
  <2>3. /\ DOMAIN rows' = DOMAIN rows
        /\ \A k \in DOMAIN rows \ {key} : rows'[k] = rows[k]
        /\ rows'[key] = [rows[key] EXCEPT !.status = IF slots[s].still THEN "open" ELSE "resolved",
                                          !.retest_result = IF slots[s].still THEN "fail" ELSE "pass"]
    BY <1>2, <2>0 DEF save_retest, TypeOK
  <2>4. rows[key] \in Rows
    BY <2>0 DEF TypeOK
  <2>5. rows'[key] \in Rows /\ (rows'[key].status = "resolved" <=> rows'[key].retest_result = "pass")
    BY <2>3, <2>4 DEF Rows
  <2>6. rows' \in [DOMAIN rows' -> Rows]
    BY <1>2, <2>0, <2>3, <2>5 DEF save_retest, TypeOK
  <2>7. \A k \in DOMAIN rows' : rows'[k].status = "resolved" <=> rows'[k].retest_result = "pass"
    BY <2>3, <2>5 DEF TypeOK
  <2> QED BY <1>2, <2>1, <2>2, <2>3, <2>6, <2>7 DEF TypeOK, save_retest, Continues, Unchanged
<1> QED BY <1>1, <1>2

LEMMA PatchTypes ==
  ASSUME TypeOK, NEW s \in Slots, PatchBegins(s) \/ create_patch(s)
  PROVE  TypeOK'
<1>1. CASE PatchBegins(s)
  <2>1. PICK wanted \in {OpenKeys} \cup {{k} : k \in OpenKeys} :
          Begins(s, [pc |-> "clone", findings |-> {k \in wanted : Target(k) = "site"},
                     leaks |-> UNION {rows[k].leaks : k \in {k \in {k \in wanted : Target(k) = "site"} :
                                                               k.check = "SEC-DISCLOSURE"}}])
    BY <1>1, Zenon DEF PatchBegins
  <2> DEFINE findings == {k \in wanted : Target(k) = "site"}
             leaks    == UNION {rows[k].leaks : k \in {k \in findings : k.check = "SEC-DISCLOSURE"}}
  <2>2. findings \subseteq DOMAIN rows
    BY DEF OpenKeys
  <2>3. \A k \in findings : rows[k].leaks \subseteq STRING
    BY <2>2 DEF TypeOK, Rows
  <2>4. leaks \subseteq STRING
    <3> HIDE DEF findings
    <3> QED BY <2>3
  <2>5. findings \subseteq Keys
    BY <2>2 DEF TypeOK
  <2>6. Begins(s, [pc |-> "clone", findings |-> findings, leaks |-> leaks])
    BY <2>1
  <2> HIDE DEF findings, leaks
  <2>7. [pc |-> "clone", findings |-> findings, leaks |-> leaks]
          \in [pc : {"clone"}, findings : SUBSET Keys, leaks : SUBSET STRING]
    BY <2>4, <2>5
  <2>8. [pc |-> "clone", findings |-> findings, leaks |-> leaks] \in SlotStates
    BY <2>7, Zenon DEF SlotStates
  <2> QED BY <1>1, <2>6, <2>8, BeginsType DEF PatchBegins
<1>2. CASE create_patch(s)
  <2>0. slots[s] \in [pc : {"clone"}, findings : SUBSET Keys, leaks : SUBSET STRING]
    BY <1>2, SlotKinds DEF create_patch, TypeOK
  <2>1. slots' \in [Slots -> SlotStates]
    BY <1>2, SlotTyped, IdleTyped DEF create_patch, Continues
  <2>2. PICK patch \in Patches : patches' = Append(patches, patch)
    BY <1>2, <2>0, PatchShape DEF create_patch
  <2>3. patches' \in Seq(Patches) /\ Len(patches') = Len(patches) + 1 /\ DOMAIN patches \subseteq DOMAIN patches'
    BY <2>2, AppendProperties, LenProperties DEF TypeOK
  <2>4. branches' \in Seq(Nat) /\ Len(branches') = Len(branches) + 1
    BY <1>2, AppendProperties DEF TypeOK, create_patch
  <2> QED BY <1>2, <2>1, <2>3, <2>4 DEF TypeOK, create_patch, Continues, Unchanged
<1> QED BY <1>1, <1>2

LEMMA PullTypes ==
  ASSUME TypeOK, NEW s \in Slots, _branch(s) \/ _commit(s) \/ open_fix_pr(s) \/ open_pull_request(s),
         slots[s].patch \in DOMAIN patches
  PROVE  TypeOK'
<1> DEFINE id == slots[s].patch
<1>0. slots[s] \in Asking
  BY SlotKinds DEF TypeOK, _branch, _commit, open_fix_pr, open_pull_request
<1>1. id \in 1..Len(patches) /\ id \in 1..Len(branches) /\ branches[id] \in Nat /\ patches[id] \in Patches
  BY LenProperties, ElementOfSeq DEF TypeOK
<1>2. \A q : q \in Asking => q \in SlotStates
  BY Zenon DEF SlotStates
<1>3. ASSUME NEW n \in Nat, branches' = [branches EXCEPT ![id] = n]
      PROVE  branches' \in Seq(Nat) /\ Len(branches') = Len(branches)
  BY <1>1, <1>3, ExceptSeq DEF TypeOK
<1>4. ASSUME branches' \in Seq(Nat) /\ Len(branches') = Len(branches), slots' \in [Slots -> SlotStates],
             UNCHANGED <<site, repo, rows, patches, pulls, agreed, answered, requests, deploys>>
      PROVE  TypeOK'
  BY <1>4 DEF TypeOK
<1>5. CASE _branch(s)
  <2>1. branches' \in Seq(Nat) /\ Len(branches') = Len(branches)
    <3>1. branches' = branches \/ branches' = [branches EXCEPT ![id] = branches[id] + 1]
      BY <1>5 DEF _branch
    <3>2. branches[id] + 1 \in Nat
      BY <1>1
    <3>3. branches \in Seq(Nat)
      BY DEF TypeOK
    <3> QED BY <1>3, <3>1, <3>2, <3>3
  <2>2. \/ slots' = [slots EXCEPT ![s] = Idle]
        \/ \E pc \in {"commit", "pull"} : \E n \in Nat : slots' = [slots EXCEPT ![s] = [slots[s] EXCEPT !.pc = pc, !.name = n]]
    <3> branches[id] + 1 \in Nat /\ BRANCH_NAMES + 1 \in Nat
      BY <1>1, FindingsAssumption
    <3> QED BY <1>5 DEF _branch, Continues
  <2>3. \A pc \in {"commit", "pull"} : \A n \in Nat : [slots[s] EXCEPT !.pc = pc, !.name = n] \in Asking
    BY <1>0 DEF Asking
  <2>4. slots' \in [Slots -> SlotStates]
    BY <1>2, <2>2, <2>3, SlotTyped, IdleTyped
  <2>5. UNCHANGED <<site, repo, rows, patches, pulls, agreed, answered, requests, deploys>>
    BY <1>5 DEF _branch, Continues, Unchanged
  <2> QED BY <1>4, <2>1, <2>4, <2>5
<1>6. CASE _commit(s)
  <2>1. branches' \in Seq(Nat) /\ Len(branches') = Len(branches)
    <3>1. branches' = branches \/ branches' = [branches EXCEPT ![id] = slots[s].name]
      BY <1>6 DEF _commit
    <3> QED BY <1>0, <1>1, <1>3, <3>1 DEF TypeOK, Asking
  <2>2. slots' = [slots EXCEPT ![s] = Idle] \/ slots' = [slots EXCEPT ![s] = [slots[s] EXCEPT !.pc = "pull"]]
    BY <1>6 DEF _commit, Continues
  <2>3. [slots[s] EXCEPT !.pc = "pull"] \in Asking
    BY <1>0 DEF Asking
  <2>4. slots' \in [Slots -> SlotStates]
    BY <1>2, <2>2, <2>3, SlotTyped, IdleTyped
  <2>5. UNCHANGED <<site, repo, rows, patches, pulls, agreed, answered, requests, deploys>>
    BY <1>6 DEF _commit, Continues, Unchanged
  <2> QED BY <1>4, <2>1, <2>4, <2>5
<1>7. CASE open_fix_pr(s)
  <2>1. [slots[s] EXCEPT !.pc = "record"] \in Asking
    BY <1>0 DEF Asking
  <2>2. slots' \in [Slots -> SlotStates]
    BY <1>2, <1>7, <2>1, SlotTyped DEF open_fix_pr, Continues
  <2>3. [patch |-> slots[s].patch, branch |-> slots[s].name, late |-> slots[s].late]
          \in [patch : Nat, branch : Nat, late : BOOLEAN]
    BY <1>0 DEF Asking
  <2> QED BY <1>7, <2>2, <2>3 DEF TypeOK, open_fix_pr, Continues, Unchanged
<1>8. CASE open_pull_request(s)
  <2>1. slots' \in [Slots -> SlotStates]
    BY <1>8, SlotTyped, IdleTyped DEF open_pull_request, Continues
  <2>2. [patches[id] EXCEPT !.pull_request = slots[s].name] \in Patches
    BY <1>0, <1>1 DEF Patches, Asking
  <2>3. patches' = [patches EXCEPT ![id] = [patches[id] EXCEPT !.pull_request = slots[s].name]]
    BY <1>8 DEF open_pull_request
  <2>4. patches' \in Seq(Patches) /\ Len(patches') = Len(patches)
    BY <1>1, <2>2, <2>3, ExceptSeq DEF TypeOK
  <2>5. DOMAIN patches' = DOMAIN patches
    BY <2>3
  <2> QED BY <1>8, <2>1, <2>4, <2>5 DEF TypeOK, open_pull_request, Continues, Unchanged
<1> QED BY <1>5, <1>6, <1>7, <1>8

LEMMA OtherTypes ==
  ASSUME TypeOK,
         \/ \E s \in Slots : Fails(s) \/ \E id \in DOMAIN patches : PullRequestBegins(s, id)
         \/ \E id \in DOMAIN patches : PullRequestIsThere(id)
         \/ \E page \in Pages : Deploy(page)
         \/ Restart
  PROVE  TypeOK'
<1>1. ASSUME NEW s \in Slots, Fails(s) PROVE TypeOK'
  BY <1>1, IdleTyped, ContinuesType DEF Fails
<1>2. ASSUME NEW s \in Slots, NEW id \in DOMAIN patches, PullRequestBegins(s, id) PROVE TypeOK'
  <2>1. id \in Nat
    BY LenProperties DEF TypeOK
  <2>2. [pc |-> "branch", patch |-> id, late |-> id \in answered, name |-> 0] \in Asking
    BY <2>1 DEF Asking
  <2>3. [pc |-> "branch", patch |-> id, late |-> id \in answered, name |-> 0] \in SlotStates
    BY <2>2, Zenon DEF SlotStates
  <2> QED BY <1>2, <2>3, BeginsType DEF PullRequestBegins
<1>3. ASSUME NEW id \in DOMAIN patches, PullRequestIsThere(id) PROVE TypeOK'
  <2>1. requests' \in 0..MaxRequests
    BY <1>3, FindingsAssumption DEF TypeOK, PullRequestIsThere
  <2> QED BY <1>3, <2>1 DEF TypeOK, PullRequestIsThere, Unchanged
<1>4. ASSUME NEW page \in Pages, Deploy(page) PROVE TypeOK'
  <2>1. deploys' \in 0..MaxDeploys
    BY <1>4, FindingsAssumption DEF TypeOK, Deploy
  <2> QED BY <1>4, <2>1 DEF TypeOK, Deploy
<1>5. CASE Restart
  BY <1>5, IdleTyped DEF TypeOK, Restart
<1> QED BY <1>1, <1>2, <1>3, <1>4, <1>5

----------------------------------------------------------------------------
(* The requests being served *)

\* What a request that waits still knows: a scan looked at every passive check and
\* at no dependency, an ingest only at dependencies, a retest has its row, and a pull
\* request has its patch, is asked for while nobody has the link of another one, and
\* has a branch once it is past the naming.
Fit(q, keys, ids) ==
  /\ q.pc \in {"probe", "save"} =>
       Passive \subseteq q.looked /\ q.looked \cap Dependencies = {} /\ q.seen \cap Dependencies = {}
  /\ q.pc = "advisories" => q.seen \subseteq Dependencies
  /\ q.pc = "retested" => q.key \in keys /\ ~IsDependency(q.key)
  /\ q.pc \in {"branch", "commit", "pull", "record"} => q.patch \in ids /\ ~q.late
  /\ q.pc \in {"commit", "pull", "record"} => q.name # 0

SlotsFit == \A s \in Slots : Fit(slots[s], DOMAIN rows, DOMAIN patches)

\* Whoever has the link of a pull request has the one stored with the patch.
AnsweredIsStored == \A id \in answered : patches[id].pull_request # 0

LEMMA IdleFits ==
  ASSUME NEW keys, NEW ids
  PROVE  Fit(Idle, keys, ids)
BY DEF Fit, Idle

LEMMA FitMonotone ==
  ASSUME NEW q, NEW keys, NEW ids, NEW keys2, NEW ids2, keys \subseteq keys2, ids \subseteq ids2, Fit(q, keys, ids)
  PROVE  Fit(q, keys2, ids2)
BY DEF Fit

\* One slot goes on, and no row and no patch is lost.
LEMMA OneSlot ==
  ASSUME TypeOK, SlotsFit, NEW s \in Slots, NEW q, slots' = [slots EXCEPT ![s] = q],
         DOMAIN rows \subseteq DOMAIN rows', DOMAIN patches \subseteq DOMAIN patches',
         Fit(q, DOMAIN rows', DOMAIN patches')
  PROVE  SlotsFit'
<1> SUFFICES ASSUME NEW t \in Slots PROVE Fit(slots'[t], DOMAIN rows', DOMAIN patches')
  BY DEF SlotsFit
<1>1. CASE t = s
  BY <1>1 DEF TypeOK
<1>2. CASE t # s
  <2>1. slots'[t] = slots[t]
    BY <1>2 DEF TypeOK
  <2>2. Fit(slots[t], DOMAIN rows, DOMAIN patches)
    BY DEF SlotsFit
  <2> QED BY <2>1, <2>2, FitMonotone
<1> QED BY <1>1, <1>2

LEMMA ScanFits ==
  ASSUME TypeOK, SlotsFit, NEW s \in Slots, ScanFetches(s) \/ ScanProbes(s) \/ scan_result(s)
  PROVE  SlotsFit'
<1>0. /\ analyze(site) \subseteq Passive /\ Holes(site) \subseteq Active /\ Passive \cap Dependencies = {}
      /\ Active \cap Dependencies = {}
  BY SiteShape DEF TypeOK
<1>1. CASE ScanFetches(s)
  <2>1. PICK active \in BOOLEAN :
          Begins(s, [pc |-> IF active THEN "probe" ELSE "save", page |-> site, seen |-> analyze(site),
                     looked |-> Passive])
    BY <1>1 DEF ScanFetches
  <2> DEFINE q == [pc |-> IF active THEN "probe" ELSE "save", page |-> site, seen |-> analyze(site),
                   looked |-> Passive]
  <2>2. q.looked = Passive /\ q.seen = analyze(site) /\ q.pc \in {"probe", "save"}
    OBVIOUS
  <2>3. slots' = [slots EXCEPT ![s] = q] /\ rows' = rows /\ patches' = patches
    BY <1>1, <2>1 DEF ScanFetches, Begins
  <2> HIDE DEF q
  <2>4. Fit(q, DOMAIN rows', DOMAIN patches')
    BY <1>0, <2>2 DEF Fit
  <2> QED BY <2>3, <2>4, OneSlot
<1>2. CASE ScanProbes(s)
  <2>1. PICK found \in Probed(site) :
          Continues(s, [slots[s] EXCEPT !.pc = "save", !.seen = @ \cup found, !.looked = @ \cup Active])
    BY <1>2 DEF ScanProbes
  <2> DEFINE q == [slots[s] EXCEPT !.pc = "save", !.seen = @ \cup found, !.looked = @ \cup Active]
  <2>0. slots[s] \in [pc : {"probe", "save"}, page : Pages, seen : SUBSET Keys, looked : SUBSET Keys]
    BY <1>2, SlotKinds DEF ScanProbes, TypeOK
  <2>2. q.looked = slots[s].looked \cup Active /\ q.seen = slots[s].seen \cup found /\ q.pc = "save"
    BY <2>0
  <2>3. slots' = [slots EXCEPT ![s] = q] /\ rows' = rows /\ patches' = patches
    BY <1>2, <2>1 DEF ScanProbes, Continues
  <2>4. found \subseteq Active
    BY <1>0, <2>1 DEF Probed
  <2>5. Fit(slots[s], DOMAIN rows, DOMAIN patches)
    BY DEF SlotsFit
  <2> HIDE DEF q
  <2>6. Fit(q, DOMAIN rows', DOMAIN patches')
    BY <1>0, <1>2, <2>2, <2>4, <2>5 DEF Fit, ScanProbes
  <2> QED BY <2>3, <2>6, OneSlot
<1>3. CASE scan_result(s)
  <2>1. DOMAIN rows \subseteq DOMAIN rows'
    BY <1>3 DEF scan_result, save_scan
  <2> QED BY <1>3, <2>1, OneSlot, IdleFits DEF scan_result, Continues
<1> QED BY <1>1, <1>2, <1>3

LEMMA DependencyFits ==
  ASSUME TypeOK, SlotsFit, NEW s \in Slots, ingest_source(s) \/ record_dependency_findings(s)
  PROVE  SlotsFit'
<1>1. CASE ingest_source(s)
  <2>1. as_findings(site) \subseteq Dependencies
    BY SiteShape DEF TypeOK
  <2>2. Fit([pc |-> "advisories", seen |-> as_findings(site)], DOMAIN rows', DOMAIN patches')
    BY <2>1 DEF Fit
  <2> QED BY <1>1, <2>2, OneSlot DEF ingest_source, Begins
<1>2. CASE record_dependency_findings(s)
  <2>1. DOMAIN rows \subseteq DOMAIN rows'
    BY <1>2 DEF record_dependency_findings, save_scan
  <2> QED BY <1>2, <2>1, OneSlot, IdleFits DEF record_dependency_findings, Continues
<1> QED BY <1>1, <1>2

LEMMA RetestFits ==
  ASSUME TypeOK, SlotsFit, NEW s \in Slots, RetestFetches(s) \/ save_retest(s)
  PROVE  SlotsFit'
<1>1. CASE RetestFetches(s)
  <2>1. PICK key \in {k \in DOMAIN rows : Retestable(k)} : \E still \in StillThere(key) :
          Begins(s, [pc |-> "retested", key |-> key, still |-> still])
    BY <1>1 DEF RetestFetches
  <2>2. PICK still \in StillThere(key) : Begins(s, [pc |-> "retested", key |-> key, still |-> still])
    BY <2>1
  <2>3. rows' = rows /\ patches' = patches
    BY <1>1 DEF RetestFetches
  <2>4. Fit([pc |-> "retested", key |-> key, still |-> still], DOMAIN rows', DOMAIN patches')
    BY <2>1, <2>3 DEF Fit, Retestable
  <2> QED BY <2>2, <2>3, <2>4, OneSlot DEF Begins
<1>2. CASE save_retest(s)
  <2>1. DOMAIN rows \subseteq DOMAIN rows'
    BY <1>2 DEF save_retest
  <2> QED BY <1>2, <2>1, OneSlot, IdleFits DEF save_retest, Continues
<1> QED BY <1>1, <1>2

LEMMA PatchFits ==
  ASSUME TypeOK, SlotsFit, NEW s \in Slots, PatchBegins(s) \/ create_patch(s)
  PROVE  SlotsFit'
<1>1. CASE PatchBegins(s)
  <2>1. PICK wanted \in {OpenKeys} \cup {{k} : k \in OpenKeys} :
          Begins(s, [pc |-> "clone", findings |-> {k \in wanted : Target(k) = "site"},
                     leaks |-> UNION {rows[k].leaks : k \in {k \in {k \in wanted : Target(k) = "site"} :
                                                               k.check = "SEC-DISCLOSURE"}}])
    BY <1>1, Zenon DEF PatchBegins
  <2>2. \A f, l : Fit([pc |-> "clone", findings |-> f, leaks |-> l], DOMAIN rows', DOMAIN patches')
    BY DEF Fit
  <2> QED BY <1>1, <2>1, <2>2, OneSlot DEF PatchBegins, Begins
<1>2. CASE create_patch(s)
  <2>1. DOMAIN patches \subseteq DOMAIN patches'
    <3>0. slots[s].findings \in SUBSET Keys
      BY <1>2, SlotKinds DEF create_patch, TypeOK
    <3>1. PICK patch \in Patches : patches' = Append(patches, patch)
      BY <1>2, <3>0, PatchShape DEF create_patch
    <3> QED BY <3>1, LenProperties, AppendProperties DEF TypeOK
  <2> QED BY <1>2, <2>1, OneSlot, IdleFits DEF create_patch, Continues
<1> QED BY <1>1, <1>2

LEMMA PullFits ==
  ASSUME TypeOK, SlotsFit, AnsweredIsStored, NEW s \in Slots,
         \/ \E id \in DOMAIN patches : PullRequestBegins(s, id)
         \/ _branch(s) \/ _commit(s) \/ open_fix_pr(s) \/ open_pull_request(s)
  PROVE  SlotsFit'
<1>0. Fit(slots[s], DOMAIN rows, DOMAIN patches) /\ slots[s] \in SlotStates
  BY DEF SlotsFit, TypeOK
<1>a. ASSUME NEW pc \in {"commit", "pull", "record"}, NEW n \in Nat, n # 0, slots[s] \in Asking,
             slots' = [slots EXCEPT ![s] = [slots[s] EXCEPT !.pc = pc, !.name = n]],
             rows' = rows, patches' = patches
      PROVE  SlotsFit'
  <2> DEFINE q == [slots[s] EXCEPT !.pc = pc, !.name = n]
  <2>1. q.pc = pc /\ q.name = n /\ q.patch = slots[s].patch /\ q.late = slots[s].late
    BY <1>a DEF Asking
  <2>2. slots[s].patch \in DOMAIN patches /\ ~slots[s].late
    BY <1>0, <1>a DEF Fit, Asking
  <2> HIDE DEF q
  <2>3. Fit(q, DOMAIN rows', DOMAIN patches')
    BY <1>a, <2>1, <2>2 DEF Fit
  <2> QED BY <1>a, <2>3, OneSlot DEF q
<1>1. ASSUME NEW id \in DOMAIN patches, PullRequestBegins(s, id) PROVE SlotsFit'
  <2>1. id \notin answered
    BY <1>1 DEF PullRequestBegins, MayOpen, AnsweredIsStored
  <2>2. Fit([pc |-> "branch", patch |-> id, late |-> id \in answered, name |-> 0], DOMAIN rows', DOMAIN patches')
    BY <1>1, <2>1 DEF Fit, PullRequestBegins
  <2> QED BY <1>1, <2>2, OneSlot DEF PullRequestBegins, Begins
<1>2. CASE _branch(s)
  <2>1. slots[s] \in Asking /\ slots[s].patch \in DOMAIN patches
    BY <1>0, <1>2, SlotKinds DEF _branch, Fit
  <2>2. branches[slots[s].patch] \in Nat
    BY <2>1, LenProperties, ElementOfSeq DEF TypeOK
  <2>3. \/ slots' = [slots EXCEPT ![s] = Idle]
        \/ \E pc \in {"commit", "pull"} : \E n \in Nat \ {0} :
             slots' = [slots EXCEPT ![s] = [slots[s] EXCEPT !.pc = pc, !.name = n]]
    <3> branches[slots[s].patch] + 1 \in Nat \ {0} /\ BRANCH_NAMES + 1 \in Nat \ {0}
      BY <2>2, FindingsAssumption
    <3> QED BY <1>2 DEF _branch, Continues
  <2>4. rows' = rows /\ patches' = patches
    BY <1>2 DEF _branch
  <2> QED BY <1>a, <2>1, <2>3, <2>4, OneSlot, IdleFits
<1>3. CASE _commit(s)
  <2>1. slots[s] \in Asking /\ slots[s].name \in Nat /\ slots[s].name # 0
    BY <1>0, <1>3, SlotKinds DEF _commit, Fit, Asking
  <2>2. [slots[s] EXCEPT !.pc = "pull"] = [slots[s] EXCEPT !.pc = "pull", !.name = slots[s].name]
    BY <2>1 DEF Asking
  <2>3. slots' = [slots EXCEPT ![s] = Idle] \/ slots' = [slots EXCEPT ![s] = [slots[s] EXCEPT !.pc = "pull"]]
    BY <1>3 DEF _commit, Continues
  <2>4. rows' = rows /\ patches' = patches
    BY <1>3 DEF _commit
  <2> QED BY <1>a, <2>1, <2>2, <2>3, <2>4, OneSlot, IdleFits
<1>4. CASE open_fix_pr(s)
  <2>1. slots[s] \in Asking /\ slots[s].name \in Nat /\ slots[s].name # 0
    BY <1>0, <1>4, SlotKinds DEF open_fix_pr, Fit, Asking
  <2>2. [slots[s] EXCEPT !.pc = "record"] = [slots[s] EXCEPT !.pc = "record", !.name = slots[s].name]
    BY <2>1 DEF Asking
  <2>3. slots' = [slots EXCEPT ![s] = [slots[s] EXCEPT !.pc = "record"]] /\ rows' = rows /\ patches' = patches
    BY <1>4 DEF open_fix_pr, Continues
  <2> QED BY <1>a, <2>1, <2>2, <2>3
<1>5. CASE open_pull_request(s)
  <2>1. DOMAIN patches' = DOMAIN patches
    BY <1>5 DEF open_pull_request
  <2> QED BY <1>5, <2>1, OneSlot, IdleFits DEF open_pull_request, Continues
<1> QED BY <1>1, <1>2, <1>3, <1>4, <1>5

----------------------------------------------------------------------------
(* The invariant *)

Inv == TypeOK /\ SlotsFit /\ AnsweredIsStored /\ NoSecondAfterAnswer /\ NoCheckDropped /\ SettledIsTrue

\* TypeOK and SlotsFit, of every step.
LEMMA ShapeStep ==
  ASSUME TypeOK, SlotsFit, AnsweredIsStored, [Next]_vars
  PROVE  TypeOK' /\ SlotsFit'
<1>1. ASSUME NEW s \in Slots, ScanFetches(s) \/ ScanProbes(s) \/ scan_result(s) PROVE TypeOK' /\ SlotsFit'
  BY <1>1, ScanTypes, ScanFits
<1>2. ASSUME NEW s \in Slots, RetestFetches(s) \/ save_retest(s) PROVE TypeOK' /\ SlotsFit'
  <2>1. slots[s].pc = "retested" => slots[s].key \in DOMAIN rows
    BY DEF SlotsFit, Fit
  <2> QED BY <1>2, <2>1, RetestTypes, RetestFits
<1>3. ASSUME NEW s \in Slots, ingest_source(s) \/ record_dependency_findings(s) PROVE TypeOK' /\ SlotsFit'
  BY <1>3, DependencyTypes, DependencyFits
<1>4. ASSUME NEW s \in Slots, PatchBegins(s) \/ create_patch(s) PROVE TypeOK' /\ SlotsFit'
  BY <1>4, PatchTypes, PatchFits
<1>5. ASSUME NEW s \in Slots, \E id \in DOMAIN patches : PullRequestBegins(s, id) PROVE TypeOK' /\ SlotsFit'
  BY <1>5, OtherTypes, PullFits
<1>6. ASSUME NEW s \in Slots, _branch(s) \/ _commit(s) \/ open_fix_pr(s) \/ open_pull_request(s)
      PROVE  TypeOK' /\ SlotsFit'
  <2>1. slots[s].patch \in DOMAIN patches
    BY <1>6 DEF SlotsFit, Fit, _branch, _commit, open_fix_pr, open_pull_request
  <2> QED BY <1>6, <2>1, PullTypes, PullFits
<1>7. ASSUME NEW s \in Slots, Fails(s) PROVE TypeOK' /\ SlotsFit'
  BY <1>7, OtherTypes, OneSlot, IdleFits DEF Fails, Continues
<1>8. ASSUME NEW key \in DOMAIN rows, approve_finding(key) PROVE TypeOK' /\ SlotsFit'
  <2>1. DOMAIN rows' = DOMAIN rows /\ slots' = slots /\ patches' = patches
    BY <1>8 DEF approve_finding
  <2> QED BY <1>8, <2>1, ApproveTypes DEF SlotsFit
<1>9. ASSUME NEW id \in DOMAIN patches, PullRequestIsThere(id) PROVE TypeOK' /\ SlotsFit'
  <2>1. rows' = rows /\ slots' = slots /\ patches' = patches
    BY <1>9 DEF PullRequestIsThere
  <2> QED BY <1>9, <2>1, OtherTypes DEF SlotsFit
<1>10. ASSUME NEW page \in Pages, Deploy(page) PROVE TypeOK' /\ SlotsFit'
  <2>1. rows' = rows /\ slots' = slots /\ patches' = patches
    BY <1>10 DEF Deploy
  <2> QED BY <1>10, <2>1, OtherTypes DEF SlotsFit
<1>11. CASE Restart
  <2>1. \A s \in Slots : slots'[s] = Idle
    BY <1>11 DEF Restart
  <2> QED BY <1>11, <2>1, OtherTypes, IdleFits DEF SlotsFit
<1>12. CASE UNCHANGED vars
  BY <1>12 DEF vars, TypeOK, SlotsFit
<1> QED BY <1>1, <1>2, <1>3, <1>4, <1>5, <1>6, <1>7, <1>8, <1>9, <1>10, <1>11, <1>12 DEF Next

\* How the stored patches, the pull requests and their readers may change.
LEMMA PatchSteps ==
  ASSUME TypeOK, [Next]_vars
  PROVE  \/ UNCHANGED <<patches, pulls, answered>>
         \/ \E s \in Slots : create_patch(s) \/ open_fix_pr(s) \/ open_pull_request(s)
         \/ \E id \in DOMAIN patches : PullRequestIsThere(id)
BY DEF Next, vars, ScanFetches, ScanProbes, scan_result, RetestFetches, save_retest, ingest_source,
       record_dependency_findings, PatchBegins, PullRequestBegins, _branch, _commit, Fails, approve_finding,
       Deploy, Restart

LEMMA PatchStep ==
  ASSUME TypeOK, SlotsFit, AnsweredIsStored, NoSecondAfterAnswer, NoCheckDropped, [Next]_vars
  PROVE  AnsweredIsStored' /\ NoSecondAfterAnswer' /\ NoCheckDropped'
<1>1. CASE UNCHANGED <<patches, pulls, answered>>
  BY <1>1 DEF AnsweredIsStored, NoSecondAfterAnswer, NoCheckDropped
<1>2. ASSUME NEW s \in Slots, create_patch(s) PROVE AnsweredIsStored' /\ NoSecondAfterAnswer' /\ NoCheckDropped'
  <2>1. slots[s].findings \in SUBSET Keys
    BY <1>2, SlotKinds DEF create_patch, TypeOK
  <2>2. PICK patch \in Patches :
          /\ patches' = Append(patches, patch)
          /\ \A f \in patch.findings : f.check \in {a.check : a \in patch.applied} \cup patch.manual
    <3> DEFINE patch == Row(build_patch(slots[s].findings, slots[s].leaks, repo))
    <3>1. /\ patch \in Patches
          /\ \A f \in patch.findings : f.check \in {a.check : a \in patch.applied} \cup patch.manual
      BY <2>1, PatchShape, Zenon
    <3>2. patches' = Append(patches, patch)
      BY <1>2 DEF create_patch
    <3> HIDE DEF patch
    <3> QED BY <3>1, <3>2
  <2>3. /\ DOMAIN patches = 1..Len(patches) /\ DOMAIN patches' = 1..(Len(patches) + 1) /\ Len(patches) \in Nat
        /\ \A id \in DOMAIN patches : patches'[id] = patches[id]
        /\ patches'[Len(patches) + 1] = patch
    BY <2>2, LenProperties, AppendProperties DEF TypeOK
  <2>4. pulls' = pulls /\ answered' = answered
    BY <1>2 DEF create_patch
  <2>5. AnsweredIsStored'
    BY <2>3, <2>4 DEF AnsweredIsStored, TypeOK
  <2>6. NoCheckDropped'
    <3> SUFFICES ASSUME NEW id \in DOMAIN patches'
                 PROVE  \A f \in patches'[id].findings :
                          f.check \in {a.check : a \in patches'[id].applied} \cup patches'[id].manual
      BY Zenon DEF NoCheckDropped
    <3>1. CASE id \in DOMAIN patches
      BY <2>3, <3>1 DEF NoCheckDropped
    <3>2. CASE id = Len(patches) + 1
      BY <2>2, <2>3, <3>2
    <3> QED BY <2>3, <3>1, <3>2
  <2> QED BY <2>4, <2>5, <2>6 DEF NoSecondAfterAnswer
<1>3. ASSUME NEW s \in Slots, open_fix_pr(s) PROVE AnsweredIsStored' /\ NoSecondAfterAnswer' /\ NoCheckDropped'
  <2>1. ~slots[s].late
    BY <1>3 DEF SlotsFit, Fit, open_fix_pr
  <2>2. NoSecondAfterAnswer'
    BY <1>3, <2>1 DEF NoSecondAfterAnswer, open_fix_pr
  <2> QED BY <1>3, <2>2 DEF AnsweredIsStored, NoCheckDropped, open_fix_pr
<1>4. ASSUME NEW s \in Slots, open_pull_request(s)
      PROVE  AnsweredIsStored' /\ NoSecondAfterAnswer' /\ NoCheckDropped'
  <2> DEFINE i == slots[s].patch
  <2>1. i \in DOMAIN patches /\ slots[s].name # 0
    BY <1>4 DEF SlotsFit, Fit, open_pull_request
  <2>0. \A id \in DOMAIN patches : patches[id] \in Patches
    BY LenProperties, ElementOfSeq DEF TypeOK
  <2>2. /\ DOMAIN patches' = DOMAIN patches
        /\ \A id \in DOMAIN patches \ {i} : patches'[id] = patches[id]
        /\ patches'[i] = [patches[i] EXCEPT !.pull_request = slots[s].name]
    BY <1>4, <2>1 DEF open_pull_request
  <2>3. /\ patches'[i].findings = patches[i].findings /\ patches'[i].applied = patches[i].applied
        /\ patches'[i].manual = patches[i].manual /\ patches'[i].pull_request = slots[s].name
    BY <2>0, <2>1, <2>2 DEF Patches
  <2>4. answered' = answered \cup {i} /\ pulls' = pulls
    BY <1>4 DEF open_pull_request
  <2> HIDE DEF i
  <2>5. AnsweredIsStored'
    BY <2>1, <2>2, <2>3, <2>4 DEF AnsweredIsStored, TypeOK
  <2>6. NoCheckDropped'
    <3> SUFFICES ASSUME NEW id \in DOMAIN patches, NEW f \in patches'[id].findings
                 PROVE  f.check \in {a.check : a \in patches'[id].applied} \cup patches'[id].manual
      BY <2>2, Zenon DEF NoCheckDropped
    <3>1. /\ patches'[id].findings = patches[id].findings /\ patches'[id].applied = patches[id].applied
          /\ patches'[id].manual = patches[id].manual
      BY <2>2, <2>3
    <3>2. f.check \in {a.check : a \in patches[id].applied} \cup patches[id].manual
      BY <3>1 DEF NoCheckDropped
    <3> QED BY <3>1, <3>2
  <2> QED BY <2>4, <2>5, <2>6 DEF NoSecondAfterAnswer
<1>5. ASSUME NEW id \in DOMAIN patches, PullRequestIsThere(id)
      PROVE  AnsweredIsStored' /\ NoSecondAfterAnswer' /\ NoCheckDropped'
  BY <1>5 DEF AnsweredIsStored, NoSecondAfterAnswer, NoCheckDropped, PullRequestIsThere
<1> QED BY <1>1, <1>2, <1>3, <1>4, <1>5, PatchSteps

----------------------------------------------------------------------------
(* What a finding says about the site *)

\* A scan settles every finding of its target: those it saw are open, the others
\* are not, and the other target's findings are left alone.
LEMMA SavedOpen ==
  ASSUME TypeOK, NEW target, NEW seen \in SUBSET Keys, NEW page, page.leaks \in SUBSET STRING,
         save_scan(target, seen, page)
  PROVE  /\ \A k : Target(k) = target => (Open(k)' <=> k \in seen)
         /\ \A k : Target(k) # target /\ k \notin seen => (Open(k)' <=> Open(k))
<1>1. /\ DOMAIN rows' = DOMAIN rows \cup seen
      /\ \A k \in seen : rows'[k].status = "open"
      /\ \A k \in DOMAIN rows \ seen :
           IF Target(k) = target THEN rows'[k].status = "resolved" ELSE rows'[k] = rows[k]
  BY SavedRows
<1> QED BY <1>1 DEF Open

LEMMA TargetOf ==
  /\ \A k \in Passive : Target(k) = "site"
  /\ \A k \in Dependencies : Target(k) = "repository"
BY DEF Passive, Dependencies, Target

LEMMA SettledSteps ==
  ASSUME TypeOK, [Next]_vars
  PROVE  \/ UNCHANGED <<rows, site, agreed>>
         \/ \E s \in Slots : scan_result(s) \/ save_retest(s) \/ record_dependency_findings(s)
         \/ \E key \in DOMAIN rows : approve_finding(key)
         \/ \E page \in Pages : Deploy(page)
<1> DEFINE Same == UNCHANGED <<rows, site, agreed>>
<1>1. ASSUME NEW s \in Slots, ScanFetches(s) \/ ScanProbes(s) \/ RetestFetches(s) \/ ingest_source(s) PROVE Same
  BY <1>1 DEF ScanFetches, ScanProbes, RetestFetches, ingest_source, Begins, Continues, Unchanged
<1>2. ASSUME NEW s \in Slots, PatchBegins(s) \/ create_patch(s) \/ \E id \in DOMAIN patches : PullRequestBegins(s, id)
      PROVE  Same
  BY <1>2 DEF PatchBegins, create_patch, PullRequestBegins, Begins, Continues, Unchanged
<1>3. ASSUME NEW s \in Slots, _branch(s) \/ _commit(s) \/ open_fix_pr(s) \/ open_pull_request(s) PROVE Same
  BY <1>3 DEF _branch, _commit, open_fix_pr, open_pull_request, Begins, Continues, Unchanged
<1>4. ASSUME NEW s \in Slots, Fails(s) PROVE Same
  BY <1>4 DEF Fails, Begins, Continues, Unchanged
<1>5. ASSUME Restart \/ (\E id \in DOMAIN patches : PullRequestIsThere(id)) \/ UNCHANGED vars PROVE Same
  BY <1>5 DEF Restart, PullRequestIsThere, Unchanged, vars
<1> HIDE DEF Same
<1> QED BY <1>1, <1>2, <1>3, <1>4, <1>5 DEF Next, Same

LEMMA SettledStep ==
  ASSUME TypeOK, SlotsFit, SettledIsTrue, [Next]_vars
  PROVE  SettledIsTrue'
<1>0. /\ site \in Pages /\ Passive \cap Dependencies = {} /\ Passive \subseteq Keys /\ Dependencies \subseteq Keys
  BY SiteShape DEF TypeOK
<1>a. ASSUME site' = site,
             \A k \in (Passive \cup Dependencies) \cap agreed' : Open(k)' <=> k \in Issues(site)
      PROVE  SettledIsTrue'
  BY <1>a DEF SettledIsTrue
<1>1. CASE UNCHANGED <<rows, site, agreed>>
  BY <1>1 DEF SettledIsTrue, Open
<1>2. ASSUME NEW s \in Slots, scan_result(s) PROVE SettledIsTrue'
  <2>0. slots[s] \in [pc : {"probe", "save"}, page : Pages, seen : SUBSET Keys, looked : SUBSET Keys]
    BY <1>2, SlotKinds DEF scan_result, TypeOK
  <2>1. /\ Passive \subseteq slots[s].looked /\ slots[s].looked \cap Dependencies = {}
        /\ slots[s].seen \cap Dependencies = {}
    BY <1>2 DEF SlotsFit, Fit, scan_result
  <2>2. /\ \A k \in Passive : Open(k)' <=> k \in slots[s].seen
        /\ \A k \in Dependencies : Open(k)' <=> Open(k)
    BY <1>2, <2>0, <2>1, SavedOpen, PagesTyped, TargetOf DEF scan_result
  <2>3. /\ \A k \in Passive \cap agreed' : k \in slots[s].seen <=> k \in Issues(site)
        /\ \A k \in Dependencies \cap agreed' : k \in agreed
    BY <1>2, <2>1 DEF scan_result, Observes
  <2>4. site' = site
    BY <1>2 DEF scan_result, Continues, Unchanged
  <2> QED BY <1>a, <2>2, <2>3, <2>4 DEF SettledIsTrue
<1>3. ASSUME NEW s \in Slots, record_dependency_findings(s) PROVE SettledIsTrue'
  <2>0. slots[s] \in [pc : {"advisories"}, seen : SUBSET Keys]
    BY <1>3, SlotKinds DEF record_dependency_findings, TypeOK
  <2>1. slots[s].seen \subseteq Dependencies
    BY <1>3 DEF SlotsFit, Fit, record_dependency_findings
  <2>5. [site EXCEPT !.leaks = {}].leaks \in SUBSET STRING
    BY <1>0, FindingsAssumption DEF PageRecords
  <2>2. /\ \A k \in Dependencies : Open(k)' <=> k \in slots[s].seen
        /\ \A k \in Passive : Open(k)' <=> Open(k)
    <3>1. PICK page : page.leaks \in SUBSET STRING /\ save_scan("repository", slots[s].seen, page)
      BY <1>3, <2>5 DEF record_dependency_findings
    <3>2. slots[s].seen \in SUBSET Keys
      BY <2>0
    <3>3. /\ \A k : Target(k) = "repository" => (Open(k)' <=> k \in slots[s].seen)
          /\ \A k : Target(k) # "repository" /\ k \notin slots[s].seen => (Open(k)' <=> Open(k))
      BY <3>1, <3>2, SavedOpen
    <3>4. \A k \in Passive : k \notin slots[s].seen
      BY <1>0, <2>1
    <3> QED BY <3>3, <3>4, TargetOf
  <2>3. /\ \A k \in Dependencies \cap agreed' : k \in slots[s].seen <=> k \in Issues(site)
        /\ \A k \in Passive \cap agreed' : k \in agreed
    BY <1>0, <1>3 DEF record_dependency_findings, Observes
  <2>4. site' = site
    BY <1>3 DEF record_dependency_findings, Continues, Unchanged
  <2> QED BY <1>a, <2>2, <2>3, <2>4 DEF SettledIsTrue
<1>4. ASSUME NEW s \in Slots, save_retest(s) PROVE SettledIsTrue'
  <2>k. PICK key : key = slots[s].key
    OBVIOUS
  <2>0. slots[s].still \in BOOLEAN /\ key \in DOMAIN rows /\ rows[key] \in Rows
    BY <1>4, <2>k, SlotKinds DEF save_retest, SlotsFit, Fit, TypeOK
  <2>1. /\ DOMAIN rows' = DOMAIN rows
        /\ \A k \in DOMAIN rows \ {key} : rows'[k] = rows[k]
        /\ rows'[key] = [rows[key] EXCEPT !.status = IF slots[s].still THEN "open" ELSE "resolved",
                                          !.retest_result = IF slots[s].still THEN "fail" ELSE "pass"]
    BY <1>4, <2>k, <2>0 DEF save_retest, TypeOK
  <2>2. rows'[key].status = IF slots[s].still THEN "open" ELSE "resolved"
    BY <2>0, <2>1 DEF Rows
  <2>3. /\ Open(key)' <=> slots[s].still
        /\ \A k : k # key => (Open(k)' <=> Open(k))
    BY <2>0, <2>1, <2>2 DEF Open
  <2>4. Observes({key}, IF slots[s].still THEN {key} ELSE {}) /\ site' = site
    BY <1>4, <2>k DEF save_retest, Continues, Unchanged
  <2>5. /\ key \in agreed' => (slots[s].still <=> key \in Issues(site))
        /\ \A k : k # key /\ k \in agreed' => k \in agreed
    BY <2>0, <2>4 DEF Observes
  <2> QED BY <1>a, <2>3, <2>4, <2>5 DEF SettledIsTrue
<1>5. ASSUME NEW key \in DOMAIN rows, approve_finding(key) PROVE SettledIsTrue'
  <2>1. /\ DOMAIN rows' = DOMAIN rows
        /\ \A k \in DOMAIN rows : rows'[k].status = rows[k].status
    BY <1>5 DEF approve_finding, TypeOK, Rows
  <2>2. \A k : Open(k)' <=> Open(k)
    BY <2>1 DEF Open
  <2> QED BY <1>a, <1>5, <2>2 DEF SettledIsTrue, approve_finding, Unchanged
<1>6. ASSUME NEW page \in Pages, Deploy(page) PROVE SettledIsTrue'
  <2>1. \A k \in agreed' : k \in agreed /\ (k \in Issues(site) <=> k \in Issues(page))
    BY <1>6 DEF Deploy
  <2>2. \A k : Open(k)' <=> Open(k)
    BY <1>6 DEF Deploy, Open
  <2>3. site' = page
    BY <1>6 DEF Deploy
  <2> QED BY <2>1, <2>2, <2>3 DEF SettledIsTrue
<1> QED BY <1>1, <1>2, <1>3, <1>4, <1>5, <1>6, SettledSteps

----------------------------------------------------------------------------
LEMMA InvInductive == Spec => []Inv
<1>1. Init => Inv
  <2> SUFFICES ASSUME Init PROVE Inv
    OBVIOUS
  <2>1. TypeOK
    BY FindingsAssumption, EmptySeq, IdleTyped DEF Init, TypeOK
  <2>2. SlotsFit
    BY IdleFits DEF Init, SlotsFit
  <2> QED BY <2>1, <2>2 DEF Init, Inv, AnsweredIsStored, NoSecondAfterAnswer, NoCheckDropped, SettledIsTrue
<1>2. Inv /\ [Next]_vars => Inv'
  BY ShapeStep, PatchStep, SettledStep DEF Inv
<1> QED BY <1>1, <1>2, PTL DEF Spec

\* For every page, repository, number of requests and deployments, the rows, patches,
\* pull requests and requests being served are what the code takes them for, and a
\* finding is resolved exactly when its last retest passed (save_scan, save_retest).
THEOREM TypeCorrect == Spec => []TypeOK
BY InvInductive, PTL DEF Inv

\* Scans, retests and ingests may overlap with one another and with deployments in any
\* way: a passive finding or a dependency whose last saved check saw the site as it still
\* is shows the site's state (save_scan, save_retest).
THEOREM FindingsSettle == Spec => []SettledIsTrue
BY InvInductive, PTL DEF Inv

\* Whatever the findings and whatever is in the repository, a patch answers for every
\* check it was asked to fix, as applied or as needing a change by hand (build_patch).
THEOREM PatchesAnswer == Spec => []NoCheckDropped
BY InvInductive, PTL DEF Inv

\* However requests overlap, fail or are lost with the process, none that comes after
\* someone was given a patch's pull request opens another one (open_pull_request).
THEOREM OnePullPerAnswer == Spec => []NoSecondAfterAnswer
BY InvInductive, PTL DEF Inv
=============================================================================
