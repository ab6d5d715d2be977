---------------------------- MODULE MCHealingLoop ----------------------------
(* Two accounts whose tests use the same selector on different pages. *)
EXTENDS HealingLoop

go   == <<"id", "go">>
send == <<"id", "send">>
mail == <<"id", "mail">>
save == <<"has-text", "button", "Save">>
all  == <<"has-text", "button", "Save all">>

MCSelectors == {go, send, mail, <<"id", "post">>, save, all, <<"id", "nowhere">>}
MCOwner == [t \in Tests |-> IF t = "first" THEN "ann" ELSE "bob"]
MCTarget == [t \in Tests |-> go]
MCPage == [t \in Tests |-> t]
MCWithin == {<<"Save", "Save all">>}

button(id, name, text) == DomElement("button", id, "", name, text, "submit", FALSE)

Looks ==
  {<<button("go", "n", "Go")>>,
   <<button("go", "n", "Go"), button("send", "", "Go")>>,
   <<button("send", "n", "Go"), button("mail", "", "Go"), button("post", "", "Go")>>,
   <<button("send", "n", "Go"), button("", "", "Save"), DomElement("button", "", "", "", "Save all", "", FALSE),
     DomElement("input", "go", "", "", "", "hidden", TRUE)>>}

MCDoms == [t \in Tests |-> IF t = "first" THEN Looks ELSE {<<button("go", "n", "Go")>>}]

Failure(says) == [says |-> says, named |-> FALSE, given |-> FALSE, check |-> FALSE, action |-> "click"]
Check(says, named) == [Failure(says) EXCEPT !.named = named, !.check = TRUE, !.action = "check"]

MCMissing == {Failure({"timeout", "exceeded", "waiting for locator"})}
Seen == {Failure({"timeout", "exceeded", "waiting for locator", "resolved to"}),
         Failure({"element not found"}),
         Failure({}),
         Check({"assert_text failed"}, TRUE),
         Check({"assert_text failed", "page not found"}, TRUE),
         Check({"assert_hidden failed"}, FALSE)}
MCSeenFailures == [t \in Tests |-> IF t = "first" THEN Seen ELSE {}]

(* The two analyzers agree, but for four wordings, on messages of up to three phrases. *)
Known == Phrases \ OnlyClassifierKnows
Messages == {{a, b, c} : a \in Known, b \in Known, c \in Known}
ASSUME AnalyzersAgreeHere ==
  \A says \in Messages, given, alternative \in BOOLEAN :
    SecondOpinionIsStricter([Failure(says) EXCEPT !.given = given], {"gone"}, alternative, {Diagnosis("UNKNOWN", "LOW")})

MCDiagnoses == {Diagnosis("SELECTOR_CHANGED", "HIGH")}
MCAnswers == {NoAnswer, [selected |-> mail, confidence |-> 150],
              [selected |-> <<"id", "nowhere">>, confidence |-> 100]}

MCWeights == [w \in WeightNames |->
                CASE w = "text" -> 30 [] w = "role" -> 25 [] w = "type" -> 10 [] w = "page" -> 15
                  [] w = "historical" -> 15 [] w = "name" -> 5 [] OTHER -> 0]
MCCloseEnough == {<<5, 0>>, <<10, 5>>, <<15, 10>>, <<25, 20>>, <<30, 25>>, <<35, 30>>, <<45, 40>>, <<50, 45>>,
                  <<60, 55>>, <<70, 65>>, <<85, 80>>, <<95, 90>>}

MCOverrides == << >>
MCHistory == [s \in MCSelectors |-> [attempts |-> 0, successes |-> 0]]
MCNoSelector == << >>
=============================================================================
