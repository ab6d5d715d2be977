----------------------------- MODULE FixPatcher -----------------------------
(***************************************************************************)
(* A patch for open findings against the application's repository          *)
(* (security/patcher.py).  A repository is what the patcher finds in it:   *)
(*   python            framework of the first app object, or "none"        *)
(*   express, django, nextjs, nginx   whether such a file exists           *)
(*   quoted            headers the entry file already names (nginx.conf:   *)
(*                     already sets to the value wanted)                   *)
(*   powered           it already names X-Powered-By (poweredByHeader)     *)
(*   settings          Django settings that already have the value wanted  *)
(*   headers           next.config already has headers()                   *)
(*   block             the config object, or server block, opens on a line *)
(*                     of its own                                          *)
(*   tokens_off        server_tokens off is set                            *)
(*   uvicorn           some .py file calls uvicorn.run without             *)
(*                     server_header                                       *)
(*   cors              where an editable CORS configuration is             *)
(*   set_cookie, res_cookie   cookies set, with a flag missing, by Python  *)
(*                     code and by the Express entry file                  *)
(* Texts, diffs and syntax checks are left out: an edit is the file it     *)
(* changes.                                                                *)
(***************************************************************************)
EXTENDS SecurityScanner

_HEADER_FIXES ==
  {"SEC-HDR-CSP", "SEC-HDR-FRAME", "SEC-HDR-XCTO", "SEC-HDR-REFERRER", "SEC-HDR-HSTS"}

LEAKY_HEADERS == {"Server", "X-Powered-By", "X-AspNet-Version"}

DJANGO_SETTINGS ==
  {"X-Frame-Options", "X-Content-Type-Options", "Referrer-Policy", "Strict-Transport-Security"}

\* What no configuration patch can fix.
NeedsHands(findings) ==
  {f \in findings : f.check \notin _HEADER_FIXES \cup {"SEC-CORS", "SEC-DISCLOSURE", "SEC-COOKIE-FLAGS"}}

\* The findings as one fix: "leaks" are the headers the disclosure's evidence names.
fixes_for(findings, leaks) ==
  LET checks  == {f.check : f \in findings}
      leaking == leaks \cap LEAKY_HEADERS
  IN  [set     |-> UNION {f.about : f \in {f \in findings : f.check \in _HEADER_FIXES}},
       remove  |-> IF "SEC-DISCLOSURE" \notin checks THEN {}
                   ELSE IF leaking # {} THEN leaking ELSE {"Server", "X-Powered-By"},
       cors    |-> "SEC-CORS" \in checks,
       cookies |-> UNION {f.about : f \in {f \in findings : f.check = "SEC-COOKIE-FLAGS"}}]

\* The topics of a fix, each with the check that asked for it.
Sources(fix, findings) ==
  (UNION {{[topic |-> h, check |-> f.check] : h \in fix.set \cap f.about} :
            f \in {f \in findings : f.check \in _HEADER_FIXES}})
  \cup {[topic |-> h, check |-> "SEC-DISCLOSURE"] : h \in fix.remove}
  \cup (IF fix.cors THEN {[topic |-> "cors", check |-> "SEC-CORS"]} ELSE {})
  \cup (IF fix.cookies # {} THEN {[topic |-> "cookie", check |-> "SEC-COOKIE-FLAGS"]} ELSE {})

EDITED_FILES ==
  {"app.py", "run.py", "views.py", "app.js", "settings.py", "next.config.js", "nginx.conf"}

\* What one editing function gives: topics it reports done, files it changed.
Edit(done, file, changes) ==
  [done |-> {<<t, file>> : t \in done}, files |-> IF changes THEN {file} ELSE {}]

NoEdit == [done |-> {}, files |-> {}]

Both(a, b) == [done |-> a.done \cup b.done, files |-> a.files \cup b.files]

-----------------------------------------------------------------------------
\* A header already named in the file is reported as set there; Server belongs to
\* the ASGI or WSGI server.
_patch_python_headers(fix, repo) ==
  LET wanted   == fix.set \ repo.quoted
      removing == fix.remove \ {"Server"}
  IN  Edit(fix.set \cup removing, "app.py", wanted \cup removing # {})

_patch_uvicorn(fix, repo) ==
  IF "Server" \in fix.remove /\ repo.uvicorn THEN Edit({"Server"}, "run.py", TRUE) ELSE NoEdit

\* A header already named is neither set again nor reported.
_patch_express(fix, repo) ==
  LET powered == {h \in fix.remove : h = "X-Powered-By" /\ ~repo.powered}
      wanted  == fix.set \ repo.quoted
      narrows == fix.cors /\ "express" \in repo.cors
      hits    == fix.cookies \cap repo.res_cookie
  IN  Edit(powered \cup wanted \cup (IF narrows THEN {"cors"} ELSE {}) \cup (IF hits # {} THEN {"cookie"} ELSE {}),
           "app.js", powered # {} \/ wanted # {} \/ narrows \/ hits # {})

\* The session cookie's settings answer for every cookie.
_patch_django(fix, repo) ==
  LET mapped  == fix.set \cap DJANGO_SETTINGS
      narrows == fix.cors /\ "django" \in repo.cors
      cookie  == IF fix.cookies # {} THEN {"cookie"} ELSE {}
  IN  Edit(mapped \cup cookie \cup (IF narrows THEN {"cors"} ELSE {}), "settings.py",
           narrows \/ ~(mapped \cup cookie \subseteq repo.settings))

_patch_next(fix, repo) ==
  LET powered == {h \in fix.remove : h = "X-Powered-By" /\ ~repo.powered}
      wanted  == IF repo.headers THEN {} ELSE fix.set
  IN  IF repo.block THEN Edit(powered \cup wanted, "next.config.js", powered \cup wanted # {}) ELSE NoEdit

_patch_nginx(fix, repo) ==
  LET hidden == fix.remove \ (IF repo.tokens_off THEN {"Server"} ELSE {})
  IN  IF repo.block THEN Edit(fix.set \cup hidden, "nginx.conf", ~(fix.set \subseteq repo.quoted) \/ hidden # {})
      ELSE NoEdit

_patch_python_cors(fix, repo) ==
  IF fix.cors /\ "python" \in repo.cors THEN Edit({"cors"}, "app.py", TRUE) ELSE NoEdit

_patch_python_cookies(fix, repo) ==
  IF fix.cookies \cap repo.set_cookie # {} THEN Edit({"cookie"}, "views.py", TRUE) ELSE NoEdit

-----------------------------------------------------------------------------
\* Headers: in the application's code if there is any, else in nginx.
HeaderEdits(fix, repo) ==
  LET headers == fix.set # {} \/ fix.remove # {}
      python  == repo.python # "none"
  IN  IF python /\ headers THEN Both(_patch_python_headers(fix, repo), _patch_uvicorn(fix, repo))
      ELSE IF repo.express /\ (headers \/ fix.cors \/ fix.cookies # {}) THEN _patch_express(fix, repo)
      ELSE IF repo.django THEN _patch_django(fix, repo)
      ELSE IF repo.nextjs /\ headers THEN _patch_next(fix, repo)
      ELSE IF repo.nginx /\ ~(python \/ repo.express \/ repo.django \/ repo.nextjs) THEN _patch_nginx(fix, repo)
      ELSE NoEdit

Topics(edit) == {d[1] : d \in edit.done}

\* CORS and cookies in Python code, unless they were handled with the headers.
CodeEdits(fix, repo, handled) ==
  Both(IF "cors" \in handled THEN NoEdit ELSE _patch_python_cors(fix, repo),
       IF "cookie" \in handled \/ (repo.python = "none" /\ (repo.express \/ repo.django))
       THEN NoEdit ELSE _patch_python_cookies(fix, repo))

\* mutant: nothing is left to do by hand once some fix was applied
ManualOnlyWhenNothing(sources, handled, hands) ==
  IF handled # {} THEN hands ELSE hands \cup {s.check : s \in sources}

\* One reason per check: what no patch can address, and what no edit handled.
Manuals(sources, handled, hands) ==
  hands \cup {s.check : s \in {s \in sources : s.topic \notin handled}}

build_patch(findings, leaks, repo) ==
  LET fix     == fixes_for(findings, leaks)
      sources == Sources(fix, findings)
      first   == HeaderEdits(fix, repo)
      all     == Both(first, CodeEdits(fix, repo, Topics(first)))
  IN  [findings |-> findings,
       files    |-> all.files,
       applied  |-> UNION {{[check |-> s.check, file |-> d[2]] : d \in {d \in all.done : d[1] = s.topic}} :
                             s \in sources},
       manual   |-> Manuals(sources, Topics(all), {f.check : f \in NeedsHands(findings)})]
=============================================================================
