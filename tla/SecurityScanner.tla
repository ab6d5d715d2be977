--------------------------- MODULE SecurityScanner ---------------------------
(***************************************************************************)
(* What the two scanners report for a page (security/passive_scanner.py,   *)
(* security/active_scanner.py).  A page is what one visit observes:        *)
(*   https, loopback   how the final URL is served                         *)
(*   headers           headers with a value the checks accept, of          *)
(*                     "csp", "frame-ancestors", "x-frame-options",        *)
(*                     "nosniff", "referrer-policy", "hsts"                *)
(*   leaks             headers that show a version number                  *)
(*   acao, credentials the CORS answer to the probe origin                 *)
(*   cookies           [name, flags] of each Set-Cookie                    *)
(*   html, password, posts, mixed   the body: HTML, a password input, a    *)
(*                     form action over http, a resource over http         *)
(*   points            [field, holes] of each query or form field that the *)
(*                     active scanner may fill                             *)
(* A finding is [check, about]: its check and the part of its component or *)
(* evidence that tells findings of one page apart.                         *)
(***************************************************************************)
EXTENDS Naturals, Sequences, FiniteSets

\* The pages a visit may observe.
HEADERS == {"csp", "frame-ancestors", "x-frame-options", "nosniff", "referrer-policy", "hsts"}
ACTIVE_CHECK_IDS == {"SEC-XSS-REFLECTED", "SEC-SQLI-ERROR", "SEC-OPEN-REDIRECT"}
CHECK_IDS ==
  {"SEC-HDR-CSP", "SEC-HDR-FRAME", "SEC-HDR-XCTO", "SEC-HDR-REFERRER", "SEC-HDR-HSTS", "SEC-DISCLOSURE",
   "SEC-CORS", "SEC-CORS-WILDCARD", "SEC-COOKIE-FLAGS", "SEC-TRANSPORT-HTTP", "SEC-FORM-PASSWORD",
   "SEC-MIXED-CONTENT", "SEC-DEP"} \cup ACTIVE_CHECK_IDS

PageRecords ==
  [https : BOOLEAN, loopback : BOOLEAN, headers : SUBSET HEADERS, leaks : SUBSET STRING,
   acao : {"none", "other", "*", "reflected"}, credentials : BOOLEAN,
   cookies : SUBSET [name : STRING, flags : SUBSET {"httponly", "secure", "samesite"}],
   html : BOOLEAN, password : BOOLEAN, posts : BOOLEAN, mixed : BOOLEAN,
   points : SUBSET [field : STRING, holes : SUBSET ACTIVE_CHECK_IDS], advisories : SUBSET STRING]

Finding(check, about) == [check |-> check, about |-> about]

When(reported, check, about) == IF reported THEN {Finding(check, about)} ELSE {}

check_csp(page) == When("csp" \notin page.headers, "SEC-HDR-CSP", {"Content-Security-Policy"})

check_framing(page) ==
  When(/\ "x-frame-options" \notin page.headers
       /\ ~("csp" \in page.headers /\ "frame-ancestors" \in page.headers),
       "SEC-HDR-FRAME", {"X-Frame-Options"})

check_content_type_options(page) ==
  When("nosniff" \notin page.headers, "SEC-HDR-XCTO", {"X-Content-Type-Options"})

check_referrer_policy(page) ==
  When("referrer-policy" \notin page.headers, "SEC-HDR-REFERRER", {"Referrer-Policy"})

check_hsts(page) ==
  When(page.https /\ "hsts" \notin page.headers, "SEC-HDR-HSTS", {"Strict-Transport-Security"})

\* the leaking headers are evidence: they are not part of the finding's key
check_disclosure(page) == When(page.leaks # {}, "SEC-DISCLOSURE", {})

check_cors(page) ==
       When(page.acao = "reflected" \/ (page.acao = "*" /\ page.credentials), "SEC-CORS", {})
  \cup When(page.acao = "*" /\ ~page.credentials, "SEC-CORS-WILDCARD", {})

check_cookies(page) ==
  LET Required == {"httponly", "samesite"} \cup (IF page.https THEN {"secure"} ELSE {})
  IN  {Finding("SEC-COOKIE-FLAGS", {c.name}) : c \in {c \in page.cookies : ~(Required \subseteq c.flags)}}

check_transport(page) == When(~page.https /\ ~page.loopback, "SEC-TRANSPORT-HTTP", {})

check_password_forms(page) ==
  When(page.password /\ (page.posts \/ (~page.https /\ ~page.loopback)), "SEC-FORM-PASSWORD", {})

check_mixed_content(page) == When(page.https /\ page.mixed, "SEC-MIXED-CONTENT", {})

\* Findings are told apart by check and component, so the set is what dedupe keeps.
analyze(page) ==
  UNION ({check_csp(page), check_framing(page), check_content_type_options(page),
          check_referrer_policy(page), check_hsts(page), check_disclosure(page),
          check_cors(page), check_cookies(page), check_transport(page)}
    \cup (IF page.html THEN {check_password_forms(page), check_mixed_content(page)} ELSE {}))

-----------------------------------------------------------------------------
(***************************************************************************)
(* The active scanner sends one request after another to each point; any   *)
(* of them may be lost, and once the budget of the scan is spent none is   *)
(* sent (_request gives None).  A request without answer reports nothing.  *)
(***************************************************************************)
_probe(point) == {Finding(check, {point.field}) : check \in point.holes}

\* What the active checks report when every request is answered within the budget.
Holes(page) == UNION {_probe(p) : p \in page.points}

\* Every set of findings a scan of this page may return.
Probed(page) == SUBSET Holes(page)

-----------------------------------------------------------------------------
\* Vulnerable pinned packages of the repository, one finding per advisory.
as_findings(page) == {Finding("SEC-DEP", {a}) : a \in page.advisories}

IsDependency(finding) == finding.check = "SEC-DEP"

IsActive(finding) == finding.check \in ACTIVE_CHECK_IDS

\* What is wrong with the application, whoever looks.
Issues(page) == analyze(page) \cup Holes(page) \cup as_findings(page)
=============================================================================
