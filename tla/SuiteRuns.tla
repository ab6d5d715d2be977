------------------------------ MODULE SuiteRuns ------------------------------
(***************************************************************************)
(* The stages of a pipeline run over a project's test cases                *)
(* (pipeline/runner.py, pipeline/explore.py): code base, analyze, plan,    *)
(* explore, execute, report, one run at a time, while the user             *)
(* trusts, quarantines, edits, deletes and adds tests and the application  *)
(* changes.                                                                *)
(*                                                                         *)
(* A row is a test case; its external id is the slug of a generated test,  *)
(* or <<"saved", name>>.  The plan stage hands the rows it read on to the  *)
(* execute stage, which reads the stored steps again.                      *)
(***************************************************************************)
EXTENDS TestPlanner

CONSTANTS
  Goals,        \* what a user asks for: [pieces, values, sign_in_first]
  Htmls,        \* what the application may answer with at its URL
  Others,       \* URL -> the page a candidate's URL answers with, status 0 when it does not
  Answers,      \* answers of the planner, << >> when it is off
  Recordings,   \* step sequences an exploration may verify, none when it is off
  Blueprints,   \* the routes an ingestion may find
  Outcomes,     \* how a test may end
  UserSteps,    \* steps a user writes
  Named,        \* ids of other pages, of the planner and of the user that end in "-interaction"
  DEEP_PAGES,   \* PIPELINE_DEEP_PAGES
  Edits,        \* what a user does: "trust", "quarantine", "edit", "delete", "save", "goal"
  MaxRuns, MaxEdits, MaxFailed   \* bounds: runs, edits, tests that fail in one run

VARIABLES
  goal,       \* the project's prompt, and whether its pages are tested signed in
  blueprint,  \* the latest blueprint: routes, or "none"
  rows,       \* external id -> test case
  made,       \* rows inserted so far: the ids
  last,       \* status of the last execution of a test the explorer recorded: id -> status
  st,         \* the run in progress
  ended,      \* the run that ended last, until the next one starts
  started,    \* runs started
  reviewed,   \* history: what a user trusted or wrote: <<row id, steps>>
  halfway,    \* history: tests a run inserted and stopped before it quarantined them
  touched,    \* history: rows a user changed or deleted while the run was on
  edits       \* what the user did so far

vars == <<goal, blueprint, rows, made, last, st, ended, started, reviewed, halfway, touched, edits>>

IsPage(html) ==
  IsList(html.fields) /\ IsList(html.buttons) /\ IsList(html.links) /\ \A i \in DOMAIN html.links : Path(html.links[i]) \in DOMAIN Slug

IsCase(c) == IsList(c.steps) /\ IsList(c.checks) /\ \A i \in DOMAIN c.steps : IsList(c.steps[i].checks)

ASSUME SuiteAssumption ==
  /\ DEEP_PAGES \in Nat /\ MaxRuns \in Nat /\ MaxEdits \in Nat /\ MaxFailed \in Nat
  /\ Outcomes \subseteq {"PASSED", "HEALED", "FAILED"}
  /\ \A g \in Goals : IsList(g.pieces)
  /\ \A html \in Htmls : IsPage(html) /\ (_looks_client_rendered(html) => IsPage(html.dom))
  /\ \A answer \in Answers : IsList(answer) /\ \A i \in DOMAIN answer : IsCase(answer[i])
  /\ \A b \in Blueprints : IsList(b) /\ \A i \in DOMAIN b : b[i].path \in DOMAIN Slug

NoTest == [id |-> 0, ext |-> << >>, category |-> "", steps |-> << >>, quarantined |-> FALSE, goal |-> << >>]

NoPage == [url |-> << >>, untested |-> {}, steps |-> << >>, inputs |-> << >>, buttons |-> << >>]

Idle == [pc |-> "idle", page |-> NoPage, todo |-> << >>, cases |-> << >>, results |-> << >>, session |-> FALSE,
         pages |-> {}, untested |-> FALSE, parts |-> {}, was |-> NoTest, fresh |-> NoTest]

NoRun == [status |-> "none", tests |-> << >>]

Init ==
  /\ goal \in Goals /\ blueprint = << >>
  /\ rows = << >> /\ made = 0 /\ last = << >>
  /\ st = Idle /\ ended = NoRun /\ started = 0
  /\ reviewed = {} /\ halfway = {} /\ touched = {} /\ edits = 0

-----------------------------------------------------------------------------
(* The test cases. *)

Row(ext) == IF ext \in DOMAIN rows THEN rows[ext] ELSE NoTest

Stored(row) == row.ext \in DOMAIN rows /\ rows[row.ext].id = row.id

Put(row) == [e \in DOMAIN rows \union {row.ext} |-> IF e = row.ext THEN row ELSE rows[e]]

Insert(ext, category, steps) ==
  [id |-> made + 1, ext |-> ext, category |-> category, steps |-> steps, quarantined |-> FALSE, goal |-> goal.pieces]

Rewritten(row, steps, quarantined) ==
  [row EXCEPT !.steps = steps, !.quarantined = quarantined, !.goal = goal.pieces]

-----------------------------------------------------------------------------
(* The run ends: with a report, or as an error. *)

EndsAs(run) == ended' = run /\ st' = Idle

Error == [NoRun EXCEPT !.status = "error"]

StartRun ==
  /\ st.pc = "idle" /\ started < MaxRuns
  /\ st' = [Idle EXCEPT !.pc = "codebase"]
  /\ ended' = NoRun /\ started' = started + 1 /\ touched' = {}
  /\ UNCHANGED <<goal, blueprint, rows, made, last, reviewed, edits, halfway>>

(* _stage_codebase: a new blueprint, or the one there was. *)
Codebase ==
  /\ st.pc = "codebase"
  /\ \E b \in Blueprints \union {blueprint} : blueprint' = b
  /\ st' = [st EXCEPT !.pc = "analyze"]
  /\ UNCHANGED <<goal, rows, made, last, ended, started, halfway, reviewed, touched, edits>>

Analyze ==
  /\ st.pc = "analyze"
  /\ \E html \in Htmls, renders \in BOOLEAN :
       \E page \in {analyze_live_website(html, renders, goal)} :
         IF page.success THEN st' = [st EXCEPT !.pc = "plan", !.page = page] /\ UNCHANGED ended
         ELSE EndsAs(Error)
  /\ UNCHANGED <<goal, blueprint, rows, made, last, started, halfway, reviewed, touched, edits>>

(* Of the candidates those that answer; a page that could be analyzed and    *)
(* stayed where it is gets content checks, unless the tests run signed in.   *)
NoGoal == [pieces |-> << >>, sign_in_first |-> FALSE, values |-> [username |-> "", password |-> "", text |-> ""]]

_reachable(candidates) == Picked(candidates, {i \in DOMAIN candidates : Others[candidates[i].url].status \in 1..399})

PageTest(c, analyzed) ==
  LET page == analyze_live_website(Others[c.url], FALSE, NoGoal)
  IN CASE goal.sign_in_first -> stays_on_page_test(c)
       [] ~goal.sign_in_first /\ analyzed /\ ~redirected(c, page) -> page_check_test(c, page)
       [] OTHER -> render_test(c)

(* The plan up to its first write: page tests, the planner's, other pages'. *)
Plan ==
  /\ st.pc = "plan"
  /\ \E answer \in Answers, analyzed \in SUBSET (1..DEEP_PAGES) :
       \E candidates \in {_reachable(candidate_pages(st.page, blueprint))} :
         st' = [st EXCEPT !.pc = "write",
                          !.todo = page_tests(st.page) \o ai_tests(answer, st.page)
                                     \o [i \in DOMAIN candidates |-> PageTest(candidates[i], i \in analyzed)],
                          !.pages = {c.url : c \in Range(candidates)}]
  /\ UNCHANGED <<goal, blueprint, rows, made, last, ended, started, halfway, reviewed, touched, edits>>

(* One planned test is inserted, replaced when its steps or the goal changed, *)
(* or kept.  A new test of the planner is quarantined by a second write.     *)
\* mutant: a rewritten test keeps the trust its earlier steps were given
Requarantine(test, row) == row.quarantined

Quarantined(test, row) == row.quarantined \/ test.category = "ai"

Upsert ==
  /\ st.pc = "write" /\ st.fresh = NoTest /\ st.todo # << >>
  /\ LET test  == Head(st.todo)
         row   == Row(test.slug)
         isNew == row = NoTest
         new   == IF isNew THEN Insert(test.slug, test.category, test.steps)
                  ELSE IF row.steps = test.steps /\ row.goal = goal.pieces THEN row
                  ELSE Rewritten(row, test.steps, Quarantined(test, row))
         later == isNew /\ test.category = "ai"
     IN /\ rows' = Put(new)
        /\ made' = IF isNew THEN made + 1 ELSE made
        /\ st' = [st EXCEPT !.todo = Tail(@), !.fresh = IF later THEN new ELSE NoTest,
                            !.cases = IF later THEN @ ELSE Append(@, new)]
  /\ UNCHANGED <<goal, blueprint, last, ended, started, halfway, reviewed, touched, edits>>

(* The second write of the planner's and of the explorer's new test.         *)
Distrust ==
  /\ st.fresh # NoTest /\ Stored(st.fresh)
  /\ LET new == [rows[st.fresh.ext] EXCEPT !.quarantined = TRUE]
     IN /\ rows' = Put(new)
        /\ st' = [st EXCEPT !.fresh = NoTest, !.cases = Append(@, new),
                            !.pc = IF st.pc = "explore" THEN "collect" ELSE @]
  /\ UNCHANGED <<goal, blueprint, made, last, ended, started, halfway, reviewed, touched, edits>>

(* The row is gone: the update returns none, which ends the run as an error, *)
(* or leaves the explored test out.                                          *)
RowIsGone ==
  \/ /\ st.pc = "write" /\ st.fresh # NoTest /\ ~Stored(st.fresh)
     /\ EndsAs(Error)
     /\ UNCHANGED <<goal, blueprint, rows, made, last, started, halfway, reviewed, touched, edits>>
  \/ /\ st.pc = "explore" /\ (IF st.fresh # NoTest THEN ~Stored(st.fresh) ELSE st.was # NoTest /\ ~Stored(st.was))
     /\ st' = [st EXCEPT !.pc = "collect", !.was = NoTest, !.fresh = NoTest]
     /\ UNCHANGED <<goal, blueprint, rows, made, last, ended, started, halfway, reviewed, touched, edits>>

-----------------------------------------------------------------------------
(* explored_test: the recording is read, the goal explored when it must be,  *)
(* and only a verified exploration is written.                               *)

Explored == <<"explored">>

enabled == goal.pieces # << >> /\ Recordings # {}

needs_exploring(row) ==
  \/ row = NoTest
  \/ row.goal # goal.pieces
  \/ row.id \in DOMAIN last /\ last[row.id] = "FAILED"

Replays ==
  /\ st.pc = "write" /\ st.fresh = NoTest /\ st.todo = << >> /\ enabled /\ ~needs_exploring(Row(Explored))
  /\ st' = [st EXCEPT !.pc = "collect", !.cases = Append(@, Row(Explored))]
  /\ UNCHANGED <<goal, blueprint, rows, made, last, ended, started, halfway, reviewed, touched, edits>>

ExploreBegins ==
  /\ st.pc = "write" /\ st.fresh = NoTest /\ st.todo = << >>
  /\ enabled => needs_exploring(Row(Explored))
  /\ st' = IF enabled THEN [st EXCEPT !.pc = "explore", !.was = Row(Explored)] ELSE [st EXCEPT !.pc = "collect"]
  /\ UNCHANGED <<goal, blueprint, rows, made, last, ended, started, halfway, reviewed, touched, edits>>

(* Not reached, or an exception: the row as it was read, if there was one. *)
ExploreFails ==
  /\ st.pc = "explore" /\ st.fresh = NoTest
  /\ st' = [st EXCEPT !.pc = "collect", !.was = NoTest,
                      !.cases = IF st.was = NoTest THEN @ ELSE Append(@, st.was)]
  /\ UNCHANGED <<goal, blueprint, rows, made, last, ended, started, halfway, reviewed, touched, edits>>

Record ==
  /\ st.pc = "explore" /\ st.fresh = NoTest
  /\ \E steps \in Recordings :
       LET new == IF st.was = NoTest THEN Insert(Explored, "explored", steps) ELSE Rewritten(Row(Explored), steps, TRUE)
       IN /\ st.was # NoTest => Stored(st.was)
          /\ rows' = Put(new)
          /\ made' = IF st.was = NoTest THEN made + 1 ELSE made
          /\ st' = IF st.was = NoTest THEN [st EXCEPT !.fresh = new]
                   ELSE [st EXCEPT !.pc = "collect", !.was = NoTest, !.cases = Append(@, new)]
  /\ UNCHANGED <<goal, blueprint, last, ended, started, halfway, reviewed, touched, edits>>

(* The end of the plan: the user's own tests join, the goal is accounted     *)
(* for by any test whose id ends like the goal's, and the generated ones of  *)
(* these go first when the tests run signed in.                              *)
NamedLikeGoal(row) == row.ext = <<"interaction">> \/ row.ext \in Named

_is_sign_in(row) == NamedLikeGoal(row) /\ row.ext[1] # "saved"

SavedIds == {rows[e].id : e \in {x \in DOMAIN rows : x[1] = "saved"}}

Saved == [k \in 1..Cardinality(SavedIds) |-> rows[CHOOSE e \in DOMAIN rows : rows[e].id = Nth(SavedIds, k)]]

Collect ==
  /\ st.pc = "collect"
  /\ LET cases == st.cases \o Saved
         signIn == {i \in DOMAIN cases : _is_sign_in(cases[i])}
         first == Picked(cases, signIn)
         rest  == Picked(cases, DOMAIN cases \ signIn)
         none  == goal.pieces # << >> /\ \A i \in DOMAIN cases : ~NamedLikeGoal(cases[i])
     IN st' = [st EXCEPT !.pc = "execute", !.cases = IF goal.sign_in_first THEN first \o rest ELSE cases,
                         !.untested = none, !.parts = IF none THEN {} ELSE st.page.untested]
  /\ UNCHANGED <<goal, blueprint, rows, made, last, ended, started, halfway, reviewed, touched, edits>>

-----------------------------------------------------------------------------
(* _stage_execute: one test.  The stored steps are read now. *)

SignedIn(case) == goal.sign_in_first /\ ~_is_sign_in(case) /\ st.session /\ case.category \in {"link", "route"}

KeepsSession(case, status) == goal.sign_in_first /\ _is_sign_in(case) /\ status # "FAILED"

Result(case, row, status) ==
  [id |-> case.id, ext |-> case.ext, category |-> case.category, status |-> status,
   quarantined |-> case.quarantined, signed |-> SignedIn(case), steps |-> row.steps,
   ran |-> IF Readable(row.steps) THEN test_case_to_engine_plan(row.steps, st.page.url) ELSE << >>]

ExecuteTest ==
  /\ st.pc = "execute" /\ st.cases # << >> /\ Stored(Head(st.cases))
  /\ LET case == Head(st.cases)
         row  == rows[case.ext]
     IN \E status \in Outcomes :
          /\ ~Readable(row.steps) => status = "FAILED"
          /\ status = "FAILED" => Cardinality({i \in DOMAIN st.results : st.results[i].status = "FAILED"}) < MaxFailed
          /\ st' = [st EXCEPT !.cases = Tail(@), !.results = Append(@, Result(case, row, status)),
                              !.session = @ \/ KeepsSession(case, status)]
          /\ last' = IF case.ext # Explored THEN last
                     ELSE [i \in DOMAIN last \union {case.id} |-> IF i = case.id THEN status ELSE last[i]]
  /\ UNCHANGED <<goal, blueprint, rows, made, ended, started, halfway, reviewed, touched, edits>>

(* The test case was deleted meanwhile: create_execution raises, and the run *)
(* ends as an error.                                                         *)
TestIsGone ==
  /\ st.pc = "execute" /\ st.cases # << >> /\ ~Stored(Head(st.cases))
  /\ EndsAs(Error)
  /\ UNCHANGED <<goal, blueprint, rows, made, last, started, halfway, reviewed, touched, edits>>

-----------------------------------------------------------------------------
(* _report: a quarantined test is reported, but cannot fail the run. *)

CountedFailures == {i \in DOMAIN st.results : st.results[i].status = "FAILED" /\ ~st.results[i].quarantined}

Report ==
  /\ st.pc = "execute" /\ st.cases = << >>
  /\ EndsAs([status |-> IF CountedFailures = {} THEN "passed" ELSE "failed", tests |-> st.results,
             untested |-> st.untested, parts |-> st.parts, pages |-> st.pages, known |-> KnownSelectors(st.page)])
  /\ UNCHANGED <<goal, blueprint, rows, made, last, started, halfway, reviewed, touched, edits>>

(* The store is away, or anything else raises (execute_run): also between    *)
(* the insertion of a model's test and the write that quarantines it.        *)
Stops ==
  /\ st.pc # "idle"
  /\ EndsAs(Error)
  /\ halfway' = IF st.fresh = NoTest THEN halfway ELSE halfway \union {st.fresh.id}
  /\ UNCHANGED <<goal, blueprint, rows, made, last, started, reviewed, touched, edits>>

-----------------------------------------------------------------------------
(* The user, through the API (api/test_cases.py, TestCaseService). *)

Does(what) == what \in Edits /\ edits < MaxEdits /\ edits' = edits + 1

Trust ==
  /\ Does("trust")
  /\ \E e \in DOMAIN rows :
       LET row == rows[e]
       IN /\ row.quarantined
          /\ rows' = Put([row EXCEPT !.quarantined = FALSE])
          /\ reviewed' = reviewed \union {<<row.id, row.steps>>}
  /\ UNCHANGED <<goal, blueprint, made, last, st, ended, started, halfway, touched>>

Quarantine ==
  /\ Does("quarantine")
  /\ \E e \in DOMAIN rows : ~rows[e].quarantined /\ rows' = Put([rows[e] EXCEPT !.quarantined = TRUE])
  /\ UNCHANGED <<goal, blueprint, made, last, st, ended, started, halfway, reviewed, touched>>

Edit ==
  /\ Does("edit")
  /\ \E e \in DOMAIN rows, steps \in UserSteps :
       /\ rows[e].steps # steps
       /\ rows' = Put([rows[e] EXCEPT !.steps = steps])
       /\ reviewed' = reviewed \union {<<rows[e].id, steps>>}
       /\ touched' = touched \union {e}
  /\ UNCHANGED <<goal, blueprint, made, last, st, ended, started, halfway>>

Delete ==
  /\ Does("delete")
  /\ \E e \in DOMAIN rows :
       /\ rows' = [x \in DOMAIN rows \ {e} |-> rows[x]]
       /\ last' = [i \in DOMAIN last \ {rows[e].id} |-> last[i]]
       /\ touched' = touched \union {e}
  /\ UNCHANGED <<goal, blueprint, made, st, ended, started, halfway, reviewed>>

Save ==
  /\ Does("save")
  /\ \E steps \in UserSteps :
       LET new == Insert(<<"saved", "mine">>, "saved", steps)
       IN /\ Row(new.ext) = NoTest /\ rows' = Put(new) /\ made' = made + 1
          /\ reviewed' = reviewed \union {<<new.id, steps>>}
  /\ UNCHANGED <<goal, blueprint, last, st, ended, started, halfway, touched>>

ChangeGoal ==
  /\ Does("goal") /\ st.pc = "idle"
  /\ \E g \in Goals \ {goal} : goal' = g
  /\ ended' = NoRun   \* its report is about the goal before
  /\ UNCHANGED <<blueprint, rows, made, last, st, started, halfway, reviewed, touched>>

Next ==
  \/ StartRun \/ Codebase \/ Analyze \/ Plan \/ Upsert \/ Distrust \/ RowIsGone \/ Replays \/ ExploreBegins \/ ExploreFails \/ Record
  \/ Collect \/ ExecuteTest \/ TestIsGone \/ Report \/ Stops
  \/ Trust \/ Quarantine \/ Edit \/ Delete \/ Save \/ ChangeGoal

Spec == Init /\ [][Next]_vars

-----------------------------------------------------------------------------
(* Properties. *)

ModelWrote(r) == r.category \in {"ai", "explored"}

Reported == ended.status \in {"passed", "failed"}

(* Every variable keeps its type, and no two test cases share an id. *)
TypeOK ==
  /\ goal \in Goals /\ made \in Nat /\ edits \in 0..MaxEdits /\ started \in 0..MaxRuns
  /\ \A e \in DOMAIN rows : rows[e].ext = e /\ rows[e].id \in 1..made /\ rows[e].quarantined \in BOOLEAN
  /\ \A d, e \in DOMAIN rows : rows[d].id = rows[e].id => d = e
  /\ DOMAIN last \subseteq 1..made
  /\ st.pc \in {"idle", "codebase", "analyze", "plan", "write", "explore", "collect", "execute"}
  /\ st.session \in BOOLEAN /\ halfway \subseteq 1..made

(* "A model wrote it: it runs and reports, but cannot fail a run until       *)
(* someone un-quarantines it": a run that failed did so on a test whose      *)
(* steps, as they ran, a person wrote or trusted, or a rule generated -      *)
(* however often the planner and the explorer rewrote the test in between,   *)
(* unless the run that inserted the test stopped before its second write,    *)
(* the one that quarantines it, and while no answer of the planner uses an   *)
(* id twice.                                                                 *)
UnreviewedCannotFail ==
  ended.status = "failed" =>
    \E r \in Range(ended.tests) : r.status = "FAILED" /\ (ModelWrote(r) => <<r.id, r.steps>> \in reviewed \/ r.id \in halfway)

(* "same-site pages linked from the target render": in a run that ends with  *)
(* a report, a test opened every path of the site that was offered and       *)
(* answered, unless a user changed that path's test meanwhile - whatever     *)
(* tests of earlier runs, deletions and renamed pages it found in the table, *)
(* while slugs tell the paths apart.                                         *)
PageSlugs(url) == {<<kind, Slug[Path(url)]>> : kind \in {"link", "route"}}

EveryPathIsVisited ==
  Reported => \A url \in ended.pages :
    \/ \E r \in Range(ended.tests) : \E k \in DOMAIN r.steps :
         r.steps[k].action = "navigate" /\ Path(r.steps[k].value) = Path(url)
    \/ PageSlugs(url) \intersect touched # {}

(* No part of the goal is passed over.  In a run that ends with a report the *)
(* goal is reported as untested, or each of its parts is, or its steps are   *)
(* among the scenario's, or it is the first and the scenario filled in or    *)
(* pressed something that no part's own steps ask for.  Two exceptions: a    *)
(* user changed the scenario meanwhile, or the page gave none and a test of  *)
(* another page, of the planner or of the user has an id that ends like its. *)
OwnSteps(parts, values) == UNION {Range(later_part_steps(part, values)) : part \in Range(parts)}

UsesForm(steps, parts, values) ==
  \E s \in steps \ OwnSteps(parts, values) : s.action \in {"fill", "select", "check", "click", "press"}

GoalIsAccountedFor ==
  LET parts     == split_goal(goal.pieces)
      scenarios == {r \in Range(ended.tests) : r.ext = <<"interaction">>}
      done      == UNION {Range(r.steps) : r \in scenarios}
  IN /\ Reported /\ ~ended.untested
     /\ scenarios = {} => \A r \in Range(ended.tests) : r.ext \notin Named
     => \A k \in DOMAIN parts :
          \/ parts[k] \in ended.parts
          \/ <<"interaction">> \in touched
          \/ /\ later_part_steps(parts[k], goal.values) # << >>
             /\ Range(later_part_steps(parts[k], goal.values)) \subseteq done
          \/ k = 1 /\ UsesForm(done, parts, goal.values)

(* The element a step of the planner's tests acts on or looks at is one the  *)
(* analysis of this run found on the page.  Where a drag ends and what a wait*)
(* waits for are values of a step, which are not compared with the page.     *)
PlannerStaysOnThePage ==
  \A r \in Range(ended.tests) : r.category = "ai" /\ r.ext \notin touched =>
    \A k \in DOMAIN r.ran : r.ran[k].target \in ended.known \union {<< >>}

=============================================================================
