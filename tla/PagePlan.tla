------------------------------ MODULE PagePlan ------------------------------
(***************************************************************************)
(* What the plan stage makes of a page, without a model: the analysis of   *)
(* the page (services/url_analyzer.py), the written goal part by part      *)
(* (services/goal_plan.py) and the rule-based suite (pipeline/suite.py).   *)
(*                                                                         *)
(* A page's HTML is given by its fields, buttons, headings and links; a    *)
(* goal by its pieces and the values written in it.  A URL is              *)
(* <<host, path, query, trailing slash>>.                                  *)
(***************************************************************************)
EXTENDS Integers, StoredSteps

CONSTANTS
  Slug,                    \* _slug of a path
  UnsafePaths,             \* paths _UNSAFE_LINK matches
  MAX_FILLS,               \* fields filled at most
  MAX_LISTED,              \* fields and buttons the inventory lists
  LINK_PAGES, ROUTE_PAGES  \* PIPELINE_LINK_PAGES, PIPELINE_ROUTE_PAGES

ASSUME PagePlanAssumption ==
  /\ MAX_FILLS \in Nat /\ MAX_LISTED \in Nat /\ LINK_PAGES \in Nat /\ ROUTE_PAGES \in Nat

Host(url) == url[1]
Path(url) == url[2]

UpTo(s, n) == SubSeq(s, 1, IF Len(s) < n THEN Len(s) ELSE n)

-----------------------------------------------------------------------------
(* goal_plan.py.  A part: [verb, noun, to, credential]. *)

Part(verb, noun, to) == [verb |-> verb, noun |-> noun, to |-> to, credential |-> FALSE]

FormVerbs == {"log in", "sign in", "search", "type", "enter", "fill", "submit"}
AddVerbs  == {"add", "create", "post", "write"}

(* A piece that only names a credential belongs to the part before it. *)
split_goal(pieces) ==
  Picked(pieces, {i \in DOMAIN pieces : i = 1 \/ ~pieces[i].credential})

is_form_part(part, values) ==
  part.verb \in FormVerbs \/ (part.verb \in AddVerbs /\ values.text # "" /\ part.noun = values.text)

form_outcome(part, inputs, values) ==
  LET passwords == SelectSeq(inputs, LAMBDA f : f.type = "password" \/ f.hint = "pass")
  IN CASE passwords # << >>                          -> <<Step("assert_hidden", passwords[1].selector, << >>)>>
       [] passwords = << >> /\ values.text # "" /\ part.verb \in AddVerbs
                                                     -> <<Step("assert_contains_text", <<"body">>, <<values.text>>)>>
       [] OTHER                                      -> << >>

later_part_steps(part, values) ==
  LET item == IF part.noun = "it" THEN values.text ELSE part.noun
  IN CASE part.verb = "check it loads"                 -> <<Step("assert_visible", <<"body">>, << >>)>>
       [] part.verb = "see" /\ part.noun # ""          -> <<Step("assert_contains_text", <<"body">>, <<part.noun>>)>>
       [] part.verb = "add" /\ part.to = "cart"        -> <<Step("click", <<"add of", part.noun>>, << >>),
                                                            Step("assert_visible", <<"count of the cart">>, << >>)>>
       [] part.verb = "mark" /\ item # ""              -> <<Step("click", <<"box of", item>>, << >>),
                                                            Step("assert_visible", <<"ticked box of", item>>, << >>)>>
       [] part.verb \in {"click", "log out"} /\ (part.noun # "" \/ part.verb = "log out")
                                                       -> <<Step("click", <<"named", part.noun>>, << >>)>>
       [] OTHER                                        -> << >>

(* Parts are counted as tested or untested; the first one is done by the     *)
(* form when there is one and the part is not something else.                *)
ByForm(part, values) == is_form_part(part, values) \/ later_part_steps(part, values) = << >>

\* mutant: a part that is not understood is passed over in silence
SilentPlanGoal(parts, inputs, values, form_used) ==
  LET byForm(i) == i = 1 /\ form_used /\ ByForm(parts[i], values)
      new(i)    == IF byForm(i) THEN form_outcome(parts[i], inputs, values) ELSE later_part_steps(parts[i], values)
  IN [steps |-> FlattenSeq([i \in DOMAIN parts |-> new(i)]), untested |-> {}]

plan_goal(parts, inputs, values, form_used) ==
  LET byForm(i) == i = 1 /\ form_used /\ ByForm(parts[i], values)
      new(i)    == IF byForm(i) THEN form_outcome(parts[i], inputs, values) ELSE later_part_steps(parts[i], values)
  IN [steps    |-> FlattenSeq([i \in DOMAIN parts |-> new(i)]),
      untested |-> {parts[i] : i \in {j \in DOMAIN parts : ~byForm(j) /\ new(j) = << >>}}]

-----------------------------------------------------------------------------
(* url_analyzer.py.  A field: [type, id, name, placeholder, hint, required,  *)
(* option], its hint the word its name or id suggests.  A button: [id,       *)
(* class, text, type].                                                       *)

(* Image and hidden inputs are left out; the best attribute names the rest,  *)
(* and a textarea or a list without one is left out too.                     *)
_extract_inputs(html) ==
  LET selector(f) == CASE f.id # ""   -> <<"#", f.id>>
                       [] f.id = "" /\ f.name # "" -> <<"name", f.name>>
                       [] f.id = "" /\ f.name = "" /\ f.placeholder # "" -> <<"placeholder", f.placeholder>>
                       [] OTHER       -> <<"nth">>
      collected(f) == /\ f.type \notin {"hidden", "image"}
                      /\ f.type \in {"textarea", "select"} => f.id # "" \/ f.name # ""
      kept == Picked(html.fields, {i \in DOMAIN html.fields : collected(html.fields[i])})
  IN [i \in DOMAIN kept |-> [type |-> kept[i].type, name |-> kept[i].name, hint |-> kept[i].hint,
                             required |-> kept[i].required, option |-> kept[i].option, selector |-> selector(kept[i])]]

_extract_buttons(html) ==
  LET selector(b) == CASE b.id # "" -> <<"#", b.id>>
                       [] b.id = "" /\ b.class # "" -> <<"class", b.class>>
                       [] b.id = "" /\ b.class = "" /\ b.text # "" -> <<"text", b.text>>
                       [] OTHER -> <<"button">>
  IN [i \in DOMAIN html.buttons |->
        [id |-> html.buttons[i].id, text |-> html.buttons[i].text, type |-> html.buttons[i].type,
         selector |-> selector(html.buttons[i])]]

SubmitWords == {"log in", "sign in", "submit", "continue", "next", "search", "save", "send", "go", "add"}

(* The button a user would press, as a sequence of at most one. *)
_primary_button(buttons, has_inputs) ==
  LET named  == {i \in DOMAIN buttons : buttons[i].selector # <<"button">>}
      submit == {i \in named : buttons[i].type = "submit" \/ buttons[i].text \in SubmitWords}
      ids    == {i \in named : buttons[i].id # ""}
      best   == CASE has_inputs /\ submit # {}                -> submit
                  [] (~has_inputs \/ submit = {}) /\ ids # {} -> ids
                  [] OTHER                                    -> named
  IN UpTo(Picked(buttons, best), 1)

NotTyped == {"checkbox", "radio", "select", "submit", "button", "file", "range", "color", "reset"}
_TYPED_VALUES == {"number", "tel", "url", "date", "time", "datetime-local", "month", "week"}

Or(given, default) == IF given = "" THEN <<default>> ELSE <<given>>

ValueFor(f, values) ==
  CASE f.type \in _TYPED_VALUES                     -> <<"a typed value">>
    [] f.type = "password" \/ f.hint = "pass"       -> Or(values.password, "AutoQAPassword!99")
    [] f.type = "email" \/ f.hint = "user"          -> Or(values.username, "qa_user@testsphere.ai")
    [] OTHER                                        -> Or(values.text, "Verified Test Input")

(* The steps for one field, given the steps so far and the radio groups      *)
(* already answered.                                                         *)
FieldSteps(f, chosen, values) ==
  CASE f.type = "select" /\ f.required /\ f.option # ""   -> <<Step("select", f.selector, <<f.option>>)>>
    [] f.type = "checkbox" /\ f.required                  -> <<Step("check", f.selector, << >>)>>
    [] f.type = "radio" /\ f.required /\ f.name # "" /\ f.name \notin chosen -> <<Step("check", f.selector, << >>)>>
    [] f.type \notin NotTyped                             -> <<Step("fill", f.selector, ValueFor(f, values))>>
    [] OTHER                                              -> << >>

Fills(steps) == SelectSeq(steps, LAMBDA s : s.action = "fill")

(* The fields are gone through in order; after[k] is what the first k gave.  *)
FormSteps(inputs, values) ==
  LET after[k \in 0..Len(inputs)] ==
        IF k = 0 THEN [steps |-> << >>, chosen |-> {}]
        ELSE LET acc == after[k - 1]
                 f   == inputs[k]
             IN IF Len(Fills(acc.steps)) >= MAX_FILLS THEN acc
                ELSE [steps  |-> acc.steps \o FieldSteps(f, acc.chosen, values),
                      chosen |-> IF f.type = "radio" /\ f.required THEN acc.chosen \union {f.name} ELSE acc.chosen]
  IN after[Len(inputs)].steps

_plan_scenario(url, inputs, buttons, goal) ==
  LET parts   == split_goal(goal.pieces)
      useForm == parts = << >> \/ ByForm(parts[1], goal.values)
      form    == IF useForm THEN FormSteps(inputs, goal.values) ELSE << >>
      button  == IF useForm THEN _primary_button(buttons, inputs # << >>) ELSE << >>
      planned == plan_goal(parts, inputs, goal.values, useForm /\ (inputs # << >> \/ button # << >>))
      sends   == CASE button # << >> -> <<Step("click", button[1].selector, << >>)>>
                   [] button = << >> /\ Fills(form) # << >> ->
                        <<Step("press", Fills(form)[Len(Fills(form))].target, <<"Enter">>)>>
                   [] button = << >> /\ Fills(form) = << >> /\ planned.steps # << >> -> << >>
                   [] OTHER -> <<Step("assert_visible", <<"body">>, << >>)>>
  IN [steps |-> <<Step("navigate", << >>, url)>> \o form \o sends \o planned.steps, untested |-> planned.untested]

_looks_client_rendered(html) == html.scripts /\ html.fields = << >> /\ html.buttons = << >> /\ html.little

(* The page is fetched, rendered in a browser when it is only a shell and    *)
(* the browser manages (renders), and read.  html.dom is what scripts build. *)
analyze_live_website(html, renders, goal) ==
  LET shell == html.status < 400 /\ _looks_client_rendered(html)
      dom   == IF shell /\ renders THEN html.dom ELSE html
      inputs  == _extract_inputs(dom)
      buttons == _extract_buttons(dom)
      plan    == _plan_scenario(html.url, inputs, buttons, goal)
  IN [success |-> html.status \in 1..399, url |-> html.url, final |-> html.final, title |-> dom.title,
      inputs |-> UpTo(inputs, MAX_LISTED), buttons |-> UpTo(buttons, MAX_LISTED), headings |-> dom.headings,
      links |-> dom.links, steps |-> plan.steps, untested |-> plan.untested]

-----------------------------------------------------------------------------
(* suite.py *)

Test(slug, category, steps) == [slug |-> slug, category |-> category, steps |-> steps]

Opens(url) == Step("navigate", << >>, url)
Renders    == Step("assert_visible", <<"body">>, << >>)
Shows(title) == IF title = "" THEN << >> ELSE <<Step("assert_contains_text", <<"head > title">>, <<title>>)>>

page_tests(a) ==
  <<Test(<<"smoke">>, "smoke", <<Opens(a.url)>> \o Shows(a.title) \o <<Renders>>)>>
    \o (IF \E i \in DOMAIN a.steps : a.steps[i].action \in {"fill", "click", "press"}
        THEN <<Test(<<"interaction">>, "functional", a.steps)>> ELSE << >>)
    \o (IF a.headings = << >> THEN << >>
        ELSE <<Test(<<"content">>, "content", <<Opens(a.url), Step("assert_contains_text", <<"body">>, <<a.headings[1]>>)>>)>>)

_normalize(url) == [url EXCEPT ![4] = ""]

(* A route: [method, path, param, api]. *)
_get_routes(blueprint) ==
  Picked(blueprint, {i \in DOMAIN blueprint : /\ blueprint[i].method \in {"GET", "ANY", "*", "ALL"}
                                             /\ ~blueprint[i].param /\ ~blueprint[i].api})

Candidate(kind, url) == [kind |-> kind, url |-> url]

(* Each URL once, never one that was seen, never one of another site or one  *)
(* that changes state by being opened.                                       *)
Offered(urls, base, seen) ==
  {i \in DOMAIN urls : /\ Host(urls[i]) = Host(base) /\ Path(urls[i]) \notin UnsafePaths
                       /\ _normalize(urls[i]) \notin seen
                       /\ \A j \in DOMAIN urls : j < i => _normalize(urls[j]) # _normalize(urls[i])}

(* Links of the page, then GET routes of the code base, never the page itself. *)
candidate_pages(a, blueprint) ==
  LET found  == _get_routes(blueprint)
      paths  == [i \in DOMAIN found |-> <<Host(a.url), found[i].path, "", "">>]
      links  == UpTo(Picked(a.links, Offered(a.links, a.url, {_normalize(a.url)})), LINK_PAGES)
      seen   == {_normalize(a.url)} \union {_normalize(links[i]) : i \in DOMAIN links}
      routes == UpTo(Picked(paths, Offered(paths, a.url, seen)), ROUTE_PAGES)
  IN [i \in DOMAIN links |-> Candidate("link", links[i])] \o [i \in DOMAIN routes |-> Candidate("route", routes[i])]

\* mutant: the slug leaves the page out
SlugOfNoPage(c) == Test(<<"page">>, c.kind, <<Opens(c.url), Renders>>)

render_test(c) == Test(<<c.kind, Slug[Path(c.url)]>>, c.kind, <<Opens(c.url), Renders>>)

stays_on_page_test(c) ==
  IF Path(c.url) = "/" THEN render_test(c)
  ELSE [render_test(c) EXCEPT !.steps = Append(@, Step("assert_url", << >>, <<Path(c.url)>>))]

redirected(c, page) == Path(page.final) # Path(c.url)

_NO_FIELD == {"hidden", "submit", "button", "image", "reset"}

page_check_test(c, page) ==
  LET fields  == SelectSeq(page.inputs, LAMBDA f : f.type \notin _NO_FIELD)
      buttons == SelectSeq(page.buttons, LAMBDA b : b.selector # <<"button">>)
      seen(s) == IF s = << >> THEN << >> ELSE <<Step("assert_visible", s[1].selector, << >>)>>
      checks  == Shows(page.title)
                   \o (IF page.headings = << >> THEN << >>
                       ELSE <<Step("assert_contains_text", <<"body">>, <<page.headings[1]>>)>>)
                   \o seen(fields) \o seen(buttons)
  IN [render_test(c) EXCEPT !.steps = <<Opens(c.url)>> \o (IF checks = << >> THEN <<Renders>> ELSE checks)]
=============================================================================
