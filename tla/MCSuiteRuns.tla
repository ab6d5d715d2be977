----------------------------- MODULE MCSuiteRuns -----------------------------
(* A login page that may change, be a shell or fail; pages behind it. *)
EXTENDS SuiteRuns

CONSTANT Site   \* "plain"; "twins": the planner uses an id twice; "slugs": two pages have one slug;
                \* "optional": nothing of the page's form is filled in

Url(path) == <<"app", path, "", "">>
Home == Url("/")

Field(type, id, hint) ==
  [type |-> type, id |-> id, name |-> "", placeholder |-> "", hint |-> hint, required |-> FALSE, option |-> ""]

Html(status, fields, buttons, headings, links) ==
  [status |-> status, url |-> Home, final |-> Home, title |-> "Shop", scripts |-> TRUE, little |-> FALSE,
   fields |-> fields, buttons |-> buttons, headings |-> headings, links |-> links]

WithDom(html, dom) ==
  [status |-> html.status, url |-> html.url, final |-> html.final, title |-> html.title, scripts |-> html.scripts,
   little |-> TRUE, fields |-> html.fields, buttons |-> html.buttons, headings |-> html.headings,
   links |-> html.links, dom |-> dom]

LogIn == <<Field("text", "user", "user"), Field("password", "pw", "pass"), Field("hidden", "csrf", "")>>
Submit(id) == <<[id |-> id, class |-> "", text |-> "log in", type |-> "submit"]>>
Nothing == Html(200, << >>, << >>, << >>, << >>)

Optional == Html(200, <<Field("checkbox", "keep", "")>>, << >>, << >>, << >>)

Static(html) == WithDom(html, Nothing)

MCHtmls ==
  IF Site = "slugs" THEN {Static(Html(200, LogIn, Submit("go"), << >>, <<Url("/docs/api"), Url("/docs-api")>>))} ELSE
  IF Site = "optional" THEN {Static(Optional)} ELSE
  {Static(Html(200, LogIn, Submit("go"), << >>, <<Url("/a")>>)),
   WithDom(Nothing, Html(200, LogIn, Submit("enter"), << >>, <<Url("/a"), Url("/logout")>>)),
   Static(Html(500, << >>, << >>, << >>, << >>))}

MCOthers ==
  [url \in {Url("/a"), Url("/b"), Url("/docs/api"), Url("/docs-api")} |->
     IF url = Url("/a") THEN [Static(Html(200, << >>, Submit("buy"), <<"Offers">>, << >>)) EXCEPT !.url = url, !.final = url]
     ELSE [Static(Nothing) EXCEPT !.url = url, !.final = Home]]

Values == [username |-> "ann", password |-> "secret", text |-> ""]

MCGoals ==
  {[pieces |-> << >>, values |-> Values, sign_in_first |-> FALSE],
   [pieces |-> <<Part("log in", "", ""), Part("see", "lamp", "")>>, values |-> Values, sign_in_first |-> FALSE],
   [pieces |-> <<Part("log in", "", ""), [Part("dance", "", "") EXCEPT !.credential = TRUE],
                 Part("add", "lamp", "cart"), Part("dance", "", "")>>, values |-> Values,
    sign_in_first |-> TRUE]}

AiStep(n, action, target, value, checks) ==
  [number |-> n, action |-> action, target |-> target, value |-> value, checks |-> checks]

AiCase(name, parses, steps, checks) ==
  [id |-> "T1", name |-> name, category |-> "functional", parses |-> parses, steps |-> steps, checks |-> checks]

Clicks(id) == AiStep(2, "click", <<"#", id>>, << >>, <<Step("element_visible", <<"body">>, << >>)>>)

Goes == AiCase("goes", "once normalized", <<AiStep(1, "navigate", << >>, Home, << >>), Clicks("go")>>, << >>)
Drags == AiStep(2, "drag", <<"#", "user">>, <<"#", "basket">>, << >>)
Twin == AiCase("types", "as written", <<AiStep(1, "fill", <<"#", "user">>, <<"bob">>, << >>), Drags>>, << >>)

MCAnswers ==
  IF Site = "twins" THEN {<<Goes>>, <<Goes, Twin>>} ELSE
  {<< >>, <<Goes>>,
   <<AiCase("types", "as written", <<AiStep(1, "fill", <<"#", "user">>, <<"ann">>, << >>), Drags>>,
            <<Step("url_contains", << >>, <<"/">>)>>),
     Twin>>}

MCRecordings == {<<Opens(Home), Step("click", <<"#", n>>, << >>), Renders>> : n \in {"go", "enter"}}

MCBlueprints == {<<[method |-> "GET", path |-> "/b", param |-> FALSE, api |-> FALSE],
                   [method |-> "POST", path |-> "/a", param |-> FALSE, api |-> FALSE]>>}

MCUserSteps == {<<Opens(Home), Renders, Step("click", <<"#", "user">>, << >>)>>, <<Step("teleport", << >>, << >>)>>}

(* _slug keeps letters and digits and has a hyphen for anything between them. *)
MCSlug ==
  [p \in {"/", "/a", "/b", "/logout", "/docs/api", "/docs-api"} |->
     CASE p = "/" -> "root" [] p = "/a" -> "a" [] p = "/b" -> "b" [] p = "/logout" -> "logout" [] OTHER -> "docs-api"]
MCAiSlug == [i \in {"T1"} |-> i]

(* The user's own test is named like the goal's. *)
MCNamed == {<<"saved", "mine">>}
=============================================================================
