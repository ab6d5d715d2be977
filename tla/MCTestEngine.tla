---------------------------- MODULE MCTestEngine ----------------------------
(* Instances of TestEngine for TLC: a small application and a test of it. *)
EXTENDS TestEngine, TLC

Button(id, text, at) ==
  [tag |-> "button", id |-> id, name |-> None, text |-> text, cls |-> "btn", at |-> at, visible |-> TRUE]
Message(id, text, at, visible) ==
  [tag |-> "p", id |-> id, name |-> None, text |-> text, cls |-> None, at |-> at, visible |-> visible]

MCTags == {"button", "p"}
MCIds == {"save", "store", "keep", "msg", "note"}
MCTexts == {"Save", "Saved", "Cancel", "Done", "Error"}
MCAlike == {{"Save", "Saved"}}

(* The page the test was written for, and what becomes of it: the button     *)
(* renamed and the message changed; the button reworded and the message      *)
(* renamed; a look-alike in the button's place, and another message in the   *)
(* place of the one that is hidden; two buttons as close to the old one.     *)
Home == {Button("save", "Save", 1), Message("msg", "Done", 3, TRUE)}
Renamed == {Button("store", "Save", 1), Message("msg", "Error", 3, TRUE)}
Reworded == {Button("store", "Saved", 1), Message("note", "Done", 3, TRUE)}
LookAlike == {Button("keep", "Cancel", 1), Message("msg", "Done", 2, FALSE), Message("note", "Done", 3, TRUE)}
Twins == {Button("store", "Save", 0), Button("keep", "Save", 2)}

MCSites == {Home, Renamed, Reworded, LookAlike, Twins}

Do(action, primary, expected) == [action |-> action, primary |-> primary, expected |-> expected]
Id(id) == <<"id", "*", id>>

(* Save, look at the message twice, and see the button gone. *)
MCPlan == << Do("goto", NoLocator, None), Do("click", Id("save"), None), Do("assert_text", Id("msg"), "Done"),
             Do("assert_visible", Id("msg"), None), Do("assert_hidden", Id("save"), None) >>

Symmetry == Permutations(Calls)
=============================================================================
