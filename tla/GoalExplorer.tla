---------------------------- MODULE GoalExplorer ----------------------------
(***************************************************************************)
(* The goal explorer (agents/explorer): a model drives a browser to a      *)
(* written goal, one action a turn.  Each turn the page is read, the model *)
(* is asked (LLMClient), its answer is checked and acted on; a verified    *)
(* outcome makes the steps taken a recording that later runs replay.       *)
(*                                                                         *)
(* The site is a graph: Pages are what the browser may show (a form half   *)
(* filled in is a page of its own) and Leads is what an action does there. *)
(* A page may also change by itself between two awaits (Drifts).  A label  *)
(* or href is the sequence of the risky words in it, the goal the set of   *)
(* them it contains.  A URL is [scheme, host, path].                       *)
(*                                                                         *)
(* Init, Next and Spec are called ExplorerInit, ExplorerNext, Exploration: *)
(* the proofs extend this module together with SuiteRuns.                  *)
(***************************************************************************)
EXTENDS LLMClient, Positions, Functions

CONSTANTS
  Pages, Start,    \* what the browser may show, the URL the exploration opens
  Url, PageAt,     \* the URL of a page, the page a URL opens (or "error")
  Nodes,           \* page -> the sequence of its elements
  Leads,           \* <<page, action, node id or "", value>> -> the page that follows
  Shown,           \* page -> the phrases its text contains
  Drift,           \* the changes a page may make by itself: <<from, to>>
  GoalWords,       \* risky words the goal contains
  Values,          \* values written in the goal (URLAnalyzerService.prompt_values)
  Decisions,       \* the JSON objects the model may answer with
  Replies,         \* other replies of the provider
  MaxSteps, MAX_BAD_ANSWERS, MAX_ELEMENTS

VARIABLES
  pc,        \* "look", "ask", "act", "reached", "stopped", "raised"
  page,      \* what the browser shows
  view,      \* what read_page returned this turn
  turn, bad, \* of the loop
  call,      \* the question to the model
  steps,     \* the recording so far
  targets,   \* locators with fallbacks for the healer
  acted,     \* history: <<node acted on, action, input, moved>>
  drifted,   \* history: a page changed by itself, or an action slipped
  moved,     \* history: the page changed by itself since it was read
  spent      \* history: the provider said that asking again is pointless

explorer_vars == <<pc, page, view, turn, bad, call, steps, targets, acted, drifted, moved, spent>>

NoUrl == [scheme |-> "", host |-> "", path |-> ""]

-----------------------------------------------------------------------------
(* page_view.py.  A node: css, the attribute locators it would answer to in  *)
(* order of preference; text, its :has-text locator, "" without a label;     *)
(* path, its structural locator.                                             *)

Node(id, label, href, css, text, path, options, usable) ==
  [id |-> id, label |-> label, href |-> href, css |-> css, text |-> text, path |-> path,
   options |-> options, usable |-> usable]

Matching(p, locator) ==
  {n \in Range(Nodes[p]) : locator \in Range(n.css) \union {n.text, n.path}}

unique(p, locator) == Cardinality(Matching(p, locator)) = 1

_READ_PAGE_JS(p, n) ==
  LET css       == Picked(n.css, {i \in DOMAIN n.css : unique(p, n.css[i])})
      fallbacks == (IF css = << >> THEN << >> ELSE Tail(css))
                     \o (IF n.text = "" THEN << >> ELSE <<n.text>>)
                     \o (IF css = << >> THEN << >> ELSE <<n.path>>)
  IN [id |-> n.id, label |-> n.label, href |-> n.href, options |-> n.options,
      primary |-> IF css = << >> THEN n.path ELSE css[1], fallbacks |-> fallbacks]

read_page(p) ==
  LET usable == {i \in DOMAIN Nodes[p] : Nodes[p][i].usable}
      kept   == IF Cardinality(usable) < MAX_ELEMENTS THEN Cardinality(usable) ELSE MAX_ELEMENTS
  IN [k \in 1..kept |-> _READ_PAGE_JS(p, Nodes[p][Nth(usable, k)])]

(* self.elements[int(index) - 1]: a list counts back from its end below 0. *)
element(index) ==
  LET i == index - 1
      n == Len(view)
  IN CASE i \in 0..(n - 1) -> {view[i + 1]}
       [] i \in (-n)..-1   -> {view[n + i + 1]}
       [] OTHER            -> {}

-----------------------------------------------------------------------------
(* guardrails.py *)

ELEMENT_ACTIONS == {"click", "fill", "select", "check", "uncheck", "hover"}
KEYS == {"Enter", "Tab", "Escape", "ArrowDown", "ArrowUp"}
AllActions == ELEMENT_ACTIONS \union {"press", "goto", "done", "give_up"}

(* Only the first risky word of a text is looked at. *)
Refuses(text) == text # << >> /\ text[1] \notin GoalWords

\* mutant: the target of a link is not looked at
RiskyByLabel(label, href) == Refuses(label)

risky_reason(label, href) == Refuses(label) \/ Refuses(href)

typed_value_reason(value) == value = "" \/ value \notin Values

urljoin(base, url) == IF url.scheme = "" THEN [base EXCEPT !.path = url.path] ELSE url

same_site(start_url, url) ==
  /\ urljoin(start_url, url).scheme \in {"http", "https"}
  /\ urljoin(start_url, url).host = start_url.host

(* A reply of the provider: its readable JSON is one of the decisions. *)
IsReply(r) ==
  /\ r.status \in Nat /\ r.wait \in Int
  /\ parse_json(r) = NoError => r.says \in Decisions

ASSUME ExplorerAssumption ==
  /\ Nodes \in [Pages -> Seq(UNION {Range(Nodes[p]) : p \in Pages})]
  /\ \A n \in UNION {Range(Nodes[p]) : p \in Pages} : n.css \in Seq(Range(n.css))
  /\ \A p \in Pages : \A i, j \in DOMAIN Nodes[p] : Nodes[p][i].id = Nodes[p][j].id => i = j
  /\ DOMAIN Url = Pages /\ Start \in DOMAIN PageAt
  /\ PageAt[Start] # "error" /\ "error" \notin Pages /\ "broken" \notin Pages
  /\ Range(PageAt) \subseteq Pages \union {"error"} /\ Range(Leads) \subseteq Pages
  /\ \A p \in Pages : \A d \in Decisions :
       d.action = "goto" /\ d.url # NoUrl /\ same_site(Start, d.url) => urljoin(Url[p], d.url) \in DOMAIN PageAt
  /\ \A r \in Replies : IsReply(r)
  /\ MaxSteps \in Nat \ {0} /\ MAX_BAD_ANSWERS \in Nat /\ MAX_ELEMENTS \in Nat
  /\ Drift \subseteq Pages \X Pages
  /\ \A d \in Drift : Url[d[1]] = Url[d[2]]

-----------------------------------------------------------------------------
(* The loop of GoalExplorer.explore. *)

RecordedStep(action, target, value, url) == [action |-> action, target |-> target, value |-> value, url |-> url]

ExplorerInit ==
  /\ pc = "look" /\ page = PageAt[Start]
  /\ view = << >> /\ turn = 0 /\ bad = 0 /\ call = NoCall
  /\ steps = <<RecordedStep("NAVIGATE", "", "", Start)>>
  /\ targets = {} /\ acted = {} /\ drifted = FALSE /\ moved = FALSE /\ spent = FALSE

Ends(how) == pc' = how /\ view' = << >> /\ call' = NoCall /\ moved' = FALSE

NextTurn == Ends("look")

Look ==
  /\ pc = "look"
  /\ \/ turn < MaxSteps /\ turn' = turn + 1 /\ view' = read_page(page) /\ pc' = "ask" /\ call' = Asking /\ moved' = FALSE
     \/ turn = MaxSteps /\ Ends("stopped") /\ UNCHANGED turn
  /\ UNCHANGED <<page, bad, steps, targets, acted, drifted, spent>>

(* A request of the session and the reply to it. *)
Pointless(r) ==
  \/ r.how = "answer" /\ r.status \in {401, 403}
  \/ r.how = "answer" /\ r.status = 429 /\ (r.exhausted \/ r.wait > MAX_RETRY_AFTER_S)

Attempt ==
  /\ pc = "ask" /\ call.pc = "asking"
  /\ \E r \in Replies \union {Reply("answer", 200, NoHint, FALSE, "object", d) : d \in Decisions} :
       /\ call' = Attempted(call, r)
       /\ spent' = (spent \/ Pointless(r))
  /\ UNCHANGED <<pc, page, view, turn, bad, steps, targets, acted, drifted, moved>>

(* The answer of the model is acted on, or the reason it is not is noted. *)
Answered ==
  /\ pc = "ask" /\ call.pc = "answered"
  /\ pc' = "act"
  /\ UNCHANGED <<page, view, turn, bad, call, steps, targets, acted, drifted, moved, spent>>

\* mutant: an unreadable answer costs nothing
UnreadableIsFree ==
  /\ pc = "ask" /\ call.pc = "failed" /\ call.error.name = "LLMResponseError"
  /\ turn' = turn - 1 /\ NextTurn
  /\ UNCHANGED <<page, bad, steps, targets, acted, drifted, spent>>

Unreadable ==
  /\ pc = "ask" /\ call.pc = "failed" /\ call.error.name = "LLMResponseError"
  /\ bad' = bad + 1
  /\ IF bad' > MAX_BAD_ANSWERS THEN Ends("stopped") ELSE NextTurn
  /\ UNCHANGED <<page, turn, steps, targets, acted, drifted, spent>>

Unavailable ==
  /\ pc = "ask" /\ call.pc = "failed" /\ call.error.name # "LLMResponseError"
  /\ Ends("stopped")
  /\ UNCHANGED <<page, turn, bad, steps, targets, acted, drifted, spent>>

(* asyncio.wait_for of _decide: the step's time is up. *)
StepTimeout ==
  /\ pc = "ask" /\ call.pc = "asking"
  /\ Ends("stopped")
  /\ UNCHANGED <<page, turn, bad, steps, targets, acted, drifted, spent>>

Says == call.says

Permitted(e) ==
  /\ ~risky_reason(e.label, e.href)
  /\ Says.action = "fill" => ~typed_value_reason(Says.value)
  /\ Says.action = "select" => Says.value \in e.options \union Values

(* Nothing is done: an unknown action, or one the guardrails refuse. *)
Refused ==
  /\ pc = "act"
  /\ \/ Says.action \notin AllActions
     \/ Says.action = "goto" /\ (Says.url = NoUrl \/ ~same_site(Start, Says.url))
     \/ Says.action = "press" /\ Says.value \notin KEYS
     \/ /\ Says.action \in ELEMENT_ACTIONS
        /\ \/ element(Says.index) = {}
           \/ \E e \in element(Says.index) : ~Permitted(e)
  /\ NextTurn
  /\ UNCHANGED <<page, turn, bad, steps, targets, acted, drifted, spent>>

GiveUp ==
  /\ pc = "act" /\ Says.action = "give_up"
  /\ Ends("stopped")
  /\ UNCHANGED <<page, turn, bad, steps, targets, acted, drifted, spent>>

(* A check: [type, value, padded], padded when blanks surround the value. *)
HoldsOn(p, check) ==
  \/ check.type = "url_contains" /\ check.value = Url[p].path
  \/ check.type = "text_visible" /\ check.value \in Shown[p]

_verify(p, check) == check.value # "" /\ HoldsOn(p, check)

_check_step(check) ==
  RecordedStep(IF check.type = "url_contains" THEN "ASSERT_URL" ELSE "ASSERT_CONTAINS_TEXT",
               IF check.type = "url_contains" THEN "" ELSE "body", check, NoUrl)

\* mutant: the model is believed
TakenAtItsWord ==
  /\ pc = "act" /\ Says.action = "done"
  /\ Ends("reached") /\ steps' = Append(steps, _check_step(Says.check))
  /\ UNCHANGED <<page, turn, bad, targets, acted, drifted, spent>>

Done ==
  /\ pc = "act" /\ Says.action = "done"
  /\ \/ _verify(page, Says.check) /\ Ends("reached") /\ steps' = Append(steps, _check_step(Says.check))
     \/ ~_verify(page, Says.check) /\ NextTurn /\ UNCHANGED steps
  /\ UNCHANGED <<page, turn, bad, targets, acted, drifted, spent>>

Goto ==
  /\ pc = "act" /\ Says.action = "goto" /\ Says.url # NoUrl /\ same_site(Start, Says.url)
  /\ LET url == urljoin(Url[page], Says.url)
     IN IF PageAt[url] = "error" THEN Ends("raised") /\ UNCHANGED <<page, steps>>
        ELSE NextTurn /\ page' = PageAt[url] /\ steps' = Append(steps, RecordedStep("NAVIGATE", "", "", url))
  /\ UNCHANGED <<turn, bad, targets, acted, drifted, spent>>

Following(p, action, id, value) ==
  IF <<p, action, id, value>> \in DOMAIN Leads THEN Leads[<<p, action, id, value>>] ELSE p

Press ==
  /\ pc = "act" /\ Says.action = "press" /\ Says.value \in KEYS
  /\ page' = Following(page, "press", "", Says.value)
  /\ steps' = Append(steps, RecordedStep("PRESS", "", Says.value, NoUrl))
  /\ NextTurn
  /\ UNCHANGED <<turn, bad, targets, acted, drifted, spent>>

Locators(e) == <<e.primary>> \o e.fallbacks

(* The first of the element's locators that matches one element of the page  *)
(* as it is now, which may not be the page that was read.                    *)
_unique_locator(p, e) ==
  LET locators == Locators(e)
      found    == {i \in DOMAIN locators : unique(p, locators[i])}
  IN IF found = {} THEN "" ELSE locators[Nth(found, 1)]

Input == IF Says.action \in {"fill", "select"} THEN Says.value ELSE ""

Recorded(e, locator) ==
  /\ steps' = Append(steps, RecordedStep(Says.action, locator, Input, NoUrl))
  /\ targets' = targets \union (IF Range(Locators(e)) = {locator} THEN {} ELSE {locator})

(* The action is done and recorded; or it raises, before or after it had its *)
(* effect on the page, and is not recorded.                                  *)
Interact ==
  /\ pc = "act" /\ Says.action \in ELEMENT_ACTIONS
  /\ \E e \in element(Says.index) :
       /\ Permitted(e)
       /\ LET locator == _unique_locator(page, e)
          IN IF locator = "" THEN UNCHANGED <<page, steps, targets, acted, drifted>>
             ELSE \E n \in Matching(page, locator) :
                    LET after == Following(page, Says.action, n.id, Input)
                    IN \/ /\ <<page, Says.action, n.id, Input>> \in DOMAIN Leads /\ n.usable
                          /\ page' = after /\ acted' = acted \union {<<n, Says.action, Input, moved>>}
                          /\ Recorded(e, locator) /\ UNCHANGED drifted
                       \/ UNCHANGED <<page, steps, targets, acted, drifted>>
                       \/ /\ page' = after /\ acted' = acted \union {<<n, Says.action, Input, moved>>}
                          /\ drifted' = TRUE /\ UNCHANGED <<steps, targets>>
  /\ NextTurn
  /\ UNCHANGED <<turn, bad, spent>>

(* The page changes by itself. *)
Drifts ==
  /\ pc \in {"look", "ask", "act"}
  /\ \E d \in Drift : d[1] = page /\ page' = d[2]
  /\ drifted' = TRUE /\ moved' = TRUE
  /\ UNCHANGED <<pc, view, turn, bad, call, steps, targets, acted, spent>>

(* The browser fails, an error no except clause names, or the time of the    *)
(* whole exploration is up (explored_test).                                  *)
Raised ==
  /\ pc \in {"look", "ask", "act"}
  /\ Ends("raised")
  /\ UNCHANGED <<page, turn, bad, steps, targets, acted, drifted, spent>>

Turns == Look \/ Attempt \/ Answered \/ Unreadable \/ Unavailable \/ Refused \/ GiveUp \/ Done \/ Goto \/ Press \/ Interact

ExplorerNext == Turns \/ StepTimeout \/ Drifts \/ Raised

Exploration == ExplorerInit /\ [][ExplorerNext]_explorer_vars

(* wait_for bounds each await of the loop, so a turn that can go on does. *)
FairExploration == Exploration /\ WF_explorer_vars(Turns)

-----------------------------------------------------------------------------
(* The replay of a recording by the engine on the site as it was explored. *)

(* The recording keeps the blanks that the check of the outcome ignores. *)
Unfindable(s) == s.action = "ASSERT_URL" /\ s.value.padded

ReplayStep(p, s) ==
  CASE p = "broken" -> "broken"
    [] s.action = "NAVIGATE" -> PageAt[s.url]
    [] s.action = "PRESS" -> Following(p, "press", "", s.value)
    [] s.action \in {"ASSERT_URL", "ASSERT_CONTAINS_TEXT"} ->
         IF HoldsOn(p, s.value) /\ ~Unfindable(s) THEN p ELSE "broken"
    [] OTHER ->
         LET found == {n \in Matching(p, s.target) : <<p, s.action, n.id, s.value>> \in DOMAIN Leads}
         IN IF Cardinality(found) = 1 THEN Following(p, s.action, (CHOOSE n \in found : TRUE).id, s.value) ELSE "broken"

Replay(recording) ==
  LET after[k \in 0..Len(recording)] == IF k = 0 THEN PageAt[Start] ELSE ReplayStep(after[k - 1], recording[k])
  IN after[Len(recording)]

-----------------------------------------------------------------------------
(* Properties. *)

(* Every variable keeps its type. *)
ExplorerTypeOK ==
  /\ pc \in {"look", "ask", "act", "reached", "stopped", "raised"}
  /\ page \in Pages /\ turn \in 0..MaxSteps /\ bad \in 0..(MAX_BAD_ANSWERS + 1)
  /\ Len(view) <= MAX_ELEMENTS
  /\ call.attempts \in 0..(1 + MaxRetries_LLM) /\ call.pc \in {"none", "asking", "answered", "failed"}
  /\ Len(steps) \in 1..(MaxSteps + 1) /\ drifted \in BOOLEAN /\ spent \in BOOLEAN

(* "Only a verified exploration becomes a recording": on a site that stays   *)
(* as it was, replaying the recorded steps passes its outcome check, however *)
(* many actions were refused, failed or repeated on the way - unless blanks  *)
(* surround the part of the URL the model named as the outcome.              *)
RecordingReplays == pc = "reached" /\ ~drifted /\ ~Unfindable(steps[Len(steps)]) => Replay(steps) # "broken"

(* Whatever the model asks for, what happens on the site stays within the    *)
(* goal: nothing but its values is typed, and an element whose label or      *)
(* target starts its risky words with one the goal lacks is not touched -    *)
(* also when the locator it was found by is not the one it is acted on with. *)
(* A page that changes by itself after it was read is outside the promise:   *)
(* the guardrails look at the element as it was read.                        *)
StaysWithinGoal ==
  \A a \in acted :
    /\ a[2] = "fill" => a[3] \in Values
    /\ ~a[4] => \A text \in {a[1].label, a[1].href} : text = << >> \/ text[1] \in GoalWords

(* A key the provider refused, a quota that is used up or a limit longer     *)
(* than it is worth waiting for is not asked again by this exploration.      *)
QuotaIsRespected == [][spent => call'.attempts <= call.attempts]_explorer_vars

(* An exploration ends, whatever the model answers. *)
ExplorationEnds == <>(pc \in {"reached", "stopped", "raised"})
=============================================================================
