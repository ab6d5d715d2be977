---------------------------- MODULE PageElements ----------------------------
(***************************************************************************)
(* The elements of a page as the agents see them                           *)
(* (backend/orchestration/converters.py): the interactive elements of the  *)
(* snapshot a failed step left, each with a selector of its own, and the   *)
(* records memory keeps of the elements a test used.                       *)
(*                                                                         *)
(* A page is a sequence of elements in document order.  An attribute that  *)
(* is missing is "".  A selector is a tuple of its form and values.        *)
(***************************************************************************)
EXTENDS Positions

CONSTANTS
  Within,           \* pairs of texts <<a, b>>, a # b, such that b contains a
  MAX_PAGE_ELEMENTS \* at most so many elements of a page are offered

ASSUME PageElementsAssumption == MAX_PAGE_ELEMENTS \in Nat

(* What the parser keeps of an HTML element; text is squashed (spaces and     *)
(* length), hidden covers the hidden attribute, aria-hidden and type=hidden.  *)
DomElement(tag, id, testid, name, text, type, hidden) ==
  [tag |-> tag, id |-> id, testid |-> testid, name |-> name, text |-> text, type |-> type, hidden |-> hidden]

_INTERACTIVE_TAGS == {"button", "a", "input", "select", "textarea"}

(* _ElementCollector: interactive by tag or by an attribute that makes it so. *)
Collected(e) == ~e.hidden /\ (e.tag \in _INTERACTIVE_TAGS \/ e.testid # "")

(* collector.elements, once the page was read. *)
elements(dom) == Picked(dom, {i \in DOMAIN dom : Collected(dom[i])})

element_role(tag, type) ==
  CASE tag = "input" -> IF type \in {"submit", "button", "reset", "image"} THEN "button"
                        ELSE IF type \in {"checkbox", "radio"} THEN type ELSE "textbox"
    [] tag = "button" -> "button"
    [] tag = "a" -> "link"
    [] tag = "select" -> "combobox"
    [] tag = "textarea" -> "textbox"
    [] OTHER -> ""

(* A record of an element, as memory and the candidate generator use it. *)
ElementRecord(selector, text, role, page, type, name, testid) ==
  [selector |-> selector, text |-> text, role |-> role, page |-> page,
   attributes |-> [type |-> type, name |-> name, testid |-> testid]]

element_record_from_fingerprint(e, selector, page) ==
  ElementRecord(selector, e.text, element_role(e.tag, e.type), page, e.type, e.name, e.testid)

-----------------------------------------------------------------------------
Contains(a, b) == a = b \/ <<a, b>> \in Within

(* Which elements a selector matches in the browser. *)
Matches(selector, e) ==
  CASE selector[1] = "id"       -> e.id = selector[2]
    [] selector[1] = "testid"   -> e.testid = selector[2]
    [] selector[1] = "name"     -> e.tag = selector[2] /\ e.name = selector[3]
    [] selector[1] = "has-text" -> e.tag = selector[2] /\ e.text # "" /\ Contains(selector[3], e.text)

Same(everyone, e, field) == {i \in DOMAIN everyone : everyone[i][field] = e[field]}

(* The value of e is there, and in the pool (positions of everyone) only once. *)
Only(pool, everyone, e, field) == e[field] # "" /\ Cardinality(pool \intersect Same(everyone, e, field)) = 1

\* mutant: texts are compared as a whole, although :has-text matches a part
UniqueByWholeText(e, everyone) ==
  LET anywhere == DOMAIN everyone
      same_tag == Same(everyone, e, "tag")
  IN IF Only(anywhere, everyone, e, "id") THEN <<"id", e.id>>
     ELSE IF Only(anywhere, everyone, e, "testid") THEN <<"testid", e.testid>>
     ELSE IF Only(same_tag, everyone, e, "name") THEN <<"name", e.tag, e.name>>
     ELSE IF Only(same_tag, everyone, e, "text") THEN <<"has-text", e.tag, e.text>>
     ELSE << >>

(* _unique_selector: the first form that singles the element out among those *)
(* collected; << >> when none does.                                          *)
_unique_selector(e, everyone) ==
  LET anywhere == DOMAIN everyone
      same_tag == Same(everyone, e, "tag")
      holding  == {i \in same_tag : everyone[i].text # "" /\ Contains(e.text, everyone[i].text)}
  IN IF Only(anywhere, everyone, e, "id") THEN <<"id", e.id>>
     ELSE IF Only(anywhere, everyone, e, "testid") THEN <<"testid", e.testid>>
     ELSE IF Only(same_tag, everyone, e, "name") THEN <<"name", e.tag, e.name>>
     ELSE IF e.text # "" /\ Cardinality(holding) = 1 THEN <<"has-text", e.tag, e.text>>
     ELSE << >>

(* page_elements_from_dom; tag is "" when the target's tag is not known. *)
page_elements_from_dom(dom, page, tag) ==
  LET everyone == elements(dom)
      kept     == Picked(everyone, {i \in DOMAIN everyone : /\ tag \in {"", everyone[i].tag}
                                                            /\ _unique_selector(everyone[i], everyone) # << >>})
  IN [i \in {j \in DOMAIN kept : j <= MAX_PAGE_ELEMENTS} |->
        ElementRecord(_unique_selector(kept[i], everyone), kept[i].text, element_role(kept[i].tag, kept[i].type),
                      page, kept[i].type, kept[i].name, kept[i].testid)]

(* The DOM evidence of a failed step: the page without the selector that failed. *)
dom_evidence(dom, page, tag, failed) ==
  LET records == page_elements_from_dom(dom, page, tag)
  IN Picked(records, {i \in DOMAIN records : records[i].selector # failed})
=============================================================================
