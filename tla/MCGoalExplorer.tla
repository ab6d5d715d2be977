--------------------------- MODULE MCGoalExplorer ---------------------------
(* A clinic's site: sign in from the home page, then the patient page, which  *)
(* links to a partner's site and to the page that deletes the account.  The   *)
(* home page may gain a banner that repeats one of its elements; the patient  *)
(* page may open with a notice, which goes away and moves the rest one up.    *)
EXTENDS GoalExplorer, SequencesExt

At(host, path) == [scheme |-> "https", host |-> host, path |-> path]
Relative(path) == [scheme |-> "", host |-> "", path |-> path]

MCStart == At("clinic", "/")
MCPages == {"home", "banner", "named", "patient", "notice", "partner"}
MCUrl == [p \in MCPages |-> CASE p \in {"home", "banner", "named"} -> MCStart
                              [] p \in {"patient", "notice"} -> At("clinic", "/patient")
                              [] p = "partner" -> At("partner", "/")]
MCPageAt == [u \in {At(h, q) : h \in {"clinic", "partner"}, q \in {"/", "/patient", "/gone"}} |->
               CASE u = MCStart -> "home" [] u = At("clinic", "/patient") -> "patient"
                 [] u.host = "partner" -> "partner" [] OTHER -> "error"]

user   == Node("user", << >>, << >>, <<"[name=user]">>, "", "p1", {}, TRUE)
go     == Node("go", << >>, << >>, <<"#go">>, "t:Go", "p2", {}, TRUE)
hidden == Node("hidden", << >>, << >>, <<"[name=user]">>, "", "p3", {}, FALSE)
again  == Node("again", << >>, << >>, <<"#go">>, "t:Go", "p4", {}, TRUE)
delete == Node("delete", <<"delete">>, << >>, << >>, "t:Delete", "p1", {}, TRUE)
out    == Node("out", << >>, <<"logout">>, <<"a[href]">>, "t:Bye", "p2", {}, TRUE)
ward   == Node("ward", << >>, << >>, <<"#ward">>, "", "p3", {"A", "B"}, TRUE)
reset  == Node("reset", <<"reset">>, << >>, <<"#reset">>, "t:Reset", "p4", {}, TRUE)
away   == Node("away", << >>, << >>, <<"#away">>, "t:Partner", "p5", {}, TRUE)
close  == Node("close", << >>, << >>, << >>, "", "p1", {}, TRUE)
Down(n, path) == [n EXCEPT !.path = path]

MCNodes == [p \in MCPages |-> CASE p \in {"home", "named"} -> <<user, go, hidden>>
                                [] p = "banner" -> <<user, go, hidden, again>>
                                [] p = "patient" -> <<delete, out, ward, reset, away>>
                                [] p = "notice" -> <<close, Down(delete, "p2"), Down(out, "p3"), Down(ward, "p4"),
                                                     Down(reset, "p5"), Down(away, "p6")>>
                                [] p = "partner" -> << >>]
MCLeads ==
  [k \in {<<"home", "fill", "user", "ann">>, <<"banner", "fill", "user", "ann">>, <<"named", "fill", "user", "ann">>,
          <<"home", "click", "go", "">>, <<"banner", "click", "go", "">>, <<"banner", "click", "again", "">>,
          <<"named", "click", "go", "">>, <<"named", "press", "", "Enter">>, <<"patient", "select", "ward", "B">>,
          <<"patient", "click", "reset", "">>, <<"patient", "click", "delete", "">>, <<"patient", "click", "out", "">>,
          <<"patient", "click", "away", "">>, <<"notice", "click", "close", "">>, <<"notice", "select", "ward", "B">>,
          <<"notice", "click", "delete", "">>, <<"notice", "click", "out", "">>, <<"notice", "click", "reset", "">>} |->
     CASE k[2] = "fill" -> "named"
       [] k[1] = "named" -> IF k[2] = "press" THEN "notice" ELSE "patient"
       [] k[3] \in {"reset", "delete", "out"} -> "home"
       [] k[3] = "away" -> "partner"
       [] k[3] = "close" -> "patient"
       [] OTHER -> k[1]]
MCShown == [p \in MCPages |-> IF p \in {"patient", "notice"} THEN {"Your ward"} ELSE {}]
MCDrift == {<<"home", "banner">>, <<"notice", "patient">>}

Decision(action, index, value, url, check) ==
  [action |-> action, index |-> index, value |-> value, url |-> url, check |-> check]
Check(type, value, padded) == [type |-> type, value |-> value, padded |-> padded]
NoCheck == Check("", "", FALSE)
On(action, index, value) == Decision(action, index, value, NoUrl, NoCheck)

MCDecisions ==
  {On("click", i, "") : i \in {0, 1, 2, 4, 5, 9}}
    \union {On("fill", 1, v) : v \in {"ann", "bob"}}
    \union {On("select", 3, "B"), On("select", 3, "C"), On("press", 0, "Enter"), On("press", 0, "F5"),
            On("dance", 0, ""), On("give_up", 0, "")}
    \union {Decision("goto", 0, "", u, NoCheck) : u \in {Relative("/patient"), Relative("/gone"), At("partner", "/")}}
    \union {Decision("done", 0, "", NoUrl, c) : c \in {Check("url_contains", "/patient", FALSE), Check("url_contains", "/patient", TRUE),
                                                      Check("text_visible", "Your ward", FALSE), NoCheck}}

Failed(status, wait, exhausted) == Reply("answer", status, wait, exhausted, "blank", "nothing")

MCReplies ==
  {Failed(401, NoHint, FALSE), Failed(429, 20, FALSE), Failed(429, 3600, FALSE), Failed(429, NoHint, TRUE),
   Failed(503, NoHint, FALSE), Failed(400, NoHint, FALSE), Failed(200, NoHint, FALSE),
   Reply("answer", 200, NoHint, FALSE, "no json", "nothing"), Reply("answer", 200, NoHint, FALSE, "array", "nothing"),
   Reply("timeout", 0, NoHint, FALSE, "", "nothing"), Reply("crash", 0, NoHint, FALSE, "", "nothing")}
=============================================================================
