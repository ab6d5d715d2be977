------------------------- MODULE MCSecurityFindings --------------------------
EXTENDS SecurityFindings

Symmetry == Permutations(Slots)

AllHeaders == {"csp", "frame-ancestors", "x-frame-options", "nosniff", "referrer-policy", "hsts"}

Hardened ==
  [https |-> TRUE, loopback |-> FALSE, headers |-> AllHeaders, leaks |-> {}, acao |-> "none",
   credentials |-> FALSE, cookies |-> {[name |-> "sid", flags |-> {"httponly", "secure", "samesite"}]},
   html |-> TRUE, password |-> TRUE, posts |-> FALSE, mixed |-> FALSE,
   points |-> {[field |-> "q", holes |-> {}]}, advisories |-> {}]

\* a header is missing, a cookie lacks a flag, and two headers name a version
Careless ==
  [Hardened EXCEPT !.headers = @ \ {"csp"}, !.leaks = {"Server", "X-Powered-By"},
                   !.cookies = {[name |-> "sid", flags |-> {"httponly", "samesite"}]}]

\* any origin is trusted with credentials, a field is reflected, a package is vulnerable
Broken ==
  [Hardened EXCEPT !.acao = "*", !.credentials = TRUE,
                   !.points = {[field |-> "q", holes |-> {"SEC-XSS-REFLECTED"}]}, !.advisories = {"GHSA-1"}]

MCPages == {Hardened, Careless, Broken}

EmptyRepo ==
  [forge |-> "github", python |-> "none", express |-> FALSE, django |-> FALSE, nextjs |-> FALSE, nginx |-> FALSE, quoted |-> {},
   powered |-> FALSE, settings |-> {}, headers |-> FALSE, block |-> TRUE, tokens_off |-> FALSE,
   uvicorn |-> FALSE, cors |-> {}, set_cookie |-> {}, res_cookie |-> {}]

MCRepos == {
  [EmptyRepo EXCEPT !.python = "fastapi", !.cors = {"python"}, !.set_cookie = {"sid"}, !.uvicorn = TRUE],
  [EmptyRepo EXCEPT !.forge = "gitlab", !.express = TRUE, !.quoted = {"Content-Security-Policy"}, !.res_cookie = {"sid"},
                    !.powered = TRUE],
  [EmptyRepo EXCEPT !.forge = "bitbucket", !.django = TRUE, !.cors = {"django"}, !.set_cookie = {"sid"}],
  [EmptyRepo EXCEPT !.nextjs = TRUE, !.nginx = TRUE],
  [EmptyRepo EXCEPT !.nginx = TRUE, !.tokens_off = TRUE]}
==============================================================================
