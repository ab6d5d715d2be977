--------------------------- MODULE SuiteRunsProofs ---------------------------
(***************************************************************************)
(* SuiteRuns for every number of runs and edits, every page, goal, answer  *)
(* of the planner and recording: a test a model wrote does not fail a run  *)
(* before a person trusted the steps that ran, a test of the planner       *)
(* touches only what the analysis found, every page that was offered is    *)
(* opened, and no part of the goal is passed over.  And GoalExplorer,      *)
(* where a recording comes from: it replays, and making it stays within    *)
(* the goal.                                                               *)
(***************************************************************************)
EXTENDS SuiteRuns, GoalExplorer, FiniteSetTheorems, SequenceTheorems, WellFoundedInduction, TLAPS

-----------------------------------------------------------------------------
(* Positions. *)

Rank(I, i) == Cardinality({j \in I : j <= i})

LEMMA LeastNatural ==
  ASSUME NEW S, S \subseteq Nat, S # {}
  PROVE  \E n \in S : \A m \in S : n <= m
<1> DEFINE R == OpToRel(<, Nat)
<1>1. IsWellFoundedOn(R, Nat)
  BY NatLessThanWellFounded
<1> HIDE DEF R
<1>2. PICK n \in S : \A m \in S : ~(<<m, n>> \in R)
  BY <1>1, WFMin
<1>3. \A a, b \in Nat : a < b => <<a, b>> \in R
  BY DEF R, OpToRel
<1>4. \A m \in S : m \in Nat /\ n \in Nat /\ ~(m < n)
  BY <1>2, <1>3
<1>5. \A m \in S : n <= m
  BY <1>4
<1> QED BY <1>2, <1>5

(* Every rank is taken: the k-th position is one of I. *)
LEMMA NthFits ==
  ASSUME NEW I, I \subseteq Nat, IsFiniteSet(I), NEW k \in 1..Cardinality(I)
  PROVE  Nth(I, k) \in I /\ Rank(I, Nth(I, k)) = k
<1> DEFINE n == Cardinality(I)
           Free == {m \in 1..n : \A i \in I : Rank(I, i) # m}
<1>1. n \in Nat /\ \A i \in I : i \in Nat
  BY FS_CardinalityType
<1>2. ASSUME NEW m \in Free, \A l \in Free : m <= l
      PROVE  FALSE
  <2>1. CASE m = 1
    <3>1. I # {}
      BY <2>1, <1>1, FS_EmptySet
    <3>2. PICK i \in I : \A j \in I : i <= j
      BY <3>1, LeastNatural
    <3>3. \A j \in I : j <= i <=> j = i
      BY <1>1, <3>2
    <3>5. {j \in I : j <= i} = {i}
      BY <3>3
    <3>4. Rank(I, i) = 1
      BY <3>5, FS_Singleton DEF Rank
    <3> QED BY <3>4, <2>1
  <2>2. CASE m # 1
    <3>1. m - 1 \in 1..n /\ m - 1 \notin Free
      BY <1>1, <1>2, <2>2
    <3>2. PICK i \in I : Rank(I, i) = m - 1
      BY <3>1
    <3> DEFINE Below == {j \in I : j <= i}
               Above == {j \in I : j > i}
    <3>3. Above # {}
      <4> SUFFICES ASSUME Above = {}
                   PROVE  FALSE
        OBVIOUS
      <4>2. \A j \in I : ~(j > i) /\ j \in Nat /\ i \in Nat
        BY <1>1
      <4>3. \A j \in I : j <= i
        BY <4>2
      <4>1. Below = I
        BY <4>3
      <4> QED BY <4>1, <3>2, <1>1, <3>1 DEF Rank
    <3>4. PICK j \in Above : \A l \in Above : j <= l
      BY <3>3, LeastNatural
    <3>5. {x \in I : x <= j} = Below \union {j}
      <4>1. \A x \in I : x <= j <=> x <= i \/ x = j
        BY <1>1, <3>4
      <4> QED BY <4>1, <3>4
    <3>6. IsFiniteSet(Below) /\ j \notin Below
      BY FS_Subset, <3>4
    <3>7. Cardinality(Below \union {j}) = Cardinality(Below) + 1
      BY <3>6, FS_AddElement
    <3>8. Rank(I, j) = m
      BY <3>2, <3>5, <3>7, <1>1, <3>1 DEF Rank
    <3> QED BY <3>8, <3>4
  <2> QED BY <2>1, <2>2
<1>3. Free = {}
  <2>1. Free \in SUBSET Nat
    BY <1>1
  <2> HIDE DEF Free
  <2> QED BY <2>1, <1>2, LeastNatural
<1>4. \E i \in I : Rank(I, i) = k
  BY <1>3
<1> QED BY <1>4 DEF Nth, Rank

(* Two positions do not have one rank. *)
LEMMA RanksDiffer ==
  ASSUME NEW I, I \subseteq Nat, IsFiniteSet(I), NEW i \in I, NEW j \in I, Rank(I, i) = Rank(I, j)
  PROVE  i = j
<1> USE DEF Rank
<1>1. ASSUME NEW a \in I, NEW b \in I, a < b, Rank(I, a) = Rank(I, b)
      PROVE  FALSE
  <2>3. a \in Nat /\ b \in Nat /\ \A x \in I : x \in Nat
    OBVIOUS
  <2>4. {x \in I : x <= b} \in SUBSET I
    OBVIOUS
  <2>5. IsFiniteSet({x \in I : x <= b})
    BY <2>4, FS_Subset
  <2>6. \A x \in I : x <= a => x <= b
    BY <1>1, <2>3
  <2>1. {x \in I : x <= a} \in SUBSET {x \in I : x <= b}
    BY <2>6
  <2>2. {x \in I : x <= a} = {x \in I : x <= b}
    BY <2>1, <2>5, <1>1, FS_Subset DEF Rank
  <2> QED BY <2>2, <2>3, <1>1
<1>2. i < j \/ j < i \/ i = j
  OBVIOUS
<1> QED BY <1>1, <1>2

LEMMA RankFits ==
  ASSUME NEW I, I \subseteq Nat, IsFiniteSet(I), NEW i \in I
  PROVE  Rank(I, i) \in 1..Cardinality(I) /\ Nth(I, Rank(I, i)) = i
<1> DEFINE Below == {j \in I : j <= i}
<1>4. Below \in SUBSET I /\ i \in Below
  OBVIOUS
<1>1. IsFiniteSet(Below) /\ Cardinality(Below) <= Cardinality(I) /\ Cardinality(Below) \in Nat
      /\ Cardinality(I) \in Nat /\ Below # {}
  BY <1>4, FS_Subset, FS_CardinalityType
<1>2. Cardinality(Below) # 0
  BY <1>1, FS_EmptySet
<1>3. Rank(I, i) \in 1..Cardinality(I)
  BY <1>1, <1>2 DEF Rank
<1>5. Nth(I, Rank(I, i)) \in I /\ Rank(I, Nth(I, Rank(I, i))) = Rank(I, i)
  BY <1>3, NthFits
<1> QED BY <1>3, <1>5, RanksDiffer

-----------------------------------------------------------------------------
(* Lists. *)

LEMMA ListFits ==
  ASSUME NEW s, IsList(s)
  PROVE  Len(s) \in Nat /\ DOMAIN s = 1..Len(s) /\ DOMAIN s \subseteq Nat /\ IsFiniteSet(DOMAIN s)
<1>1. Len(s) \in Nat /\ DOMAIN s = 1..Len(s)
  BY DEF IsList
<1>2. IsFiniteSet(1..Len(s))
  BY <1>1, FS_Interval
<1> QED BY <1>1, <1>2

LEMMA ListOf ==
  ASSUME NEW n \in Nat, NEW s, DOMAIN s = 1..n, s = [i \in 1..n |-> s[i]]
  PROVE  IsList(s) /\ Len(s) = n
<1>1. s \in [1..n -> {s[i] : i \in 1..n}]
  OBVIOUS
<1> QED BY <1>1 DEF IsList

LEMMA PickedFits ==
  ASSUME NEW s, IsList(s), NEW I, I \subseteq DOMAIN s
  PROVE  /\ IsList(Picked(s, I))
         /\ \A k \in DOMAIN Picked(s, I) : Nth(I, k) \in I /\ Rank(I, Nth(I, k)) = k /\ Picked(s, I)[k] = s[Nth(I, k)]
         /\ \A i \in I : \E k \in DOMAIN Picked(s, I) : Picked(s, I)[k] = s[i]
<1>1. I \subseteq Nat /\ IsFiniteSet(I)
  BY ListFits, FS_Subset
<1>2. Cardinality(I) \in Nat
  BY <1>1, FS_CardinalityType
<1>3. DOMAIN Picked(s, I) = 1..Cardinality(I)
  BY DEF Picked
<1>4. \A k \in 1..Cardinality(I) : Picked(s, I)[k] = s[Nth(I, k)]
  BY DEF Picked
<1>5. IsList(Picked(s, I))
  <2>1. Picked(s, I) = [k \in 1..Cardinality(I) |-> Picked(s, I)[k]]
    BY DEF Picked
  <2> QED BY <2>1, <1>2, <1>3, ListOf
<1>6. \A k \in 1..Cardinality(I) : Nth(I, k) \in I /\ Rank(I, Nth(I, k)) = k
  BY <1>1, NthFits
<1>7. \A i \in I : Rank(I, i) \in 1..Cardinality(I) /\ Nth(I, Rank(I, i)) = i
  BY <1>1, RankFits
<1> QED BY <1>3, <1>4, <1>5, <1>6, <1>7

LEMMA UpToFits ==
  ASSUME NEW s, IsList(s), NEW n \in Nat
  PROVE  /\ IsList(UpTo(s, n)) /\ DOMAIN UpTo(s, n) \subseteq DOMAIN s
         /\ \A i \in DOMAIN UpTo(s, n) : UpTo(s, n)[i] = s[i]
<1> DEFINE m == IF Len(s) < n THEN Len(s) ELSE n
<1>1. Len(s) \in Nat /\ DOMAIN s = 1..Len(s)
  BY ListFits
<1>2. m \in Nat /\ m <= Len(s)
  BY <1>1
<1>3. UpTo(s, n) = SubSeq(s, 1, m)
  BY DEF UpTo
<1> HIDE DEF m
<1>4. SubSeq(s, 1, m) = [i \in 1..m |-> s[i]]
  BY <1>1, <1>2 DEF IsList
<1>5. IsList(SubSeq(s, 1, m))
  BY <1>2, <1>4, ListOf
<1> QED BY <1>1, <1>2, <1>3, <1>4, <1>5

LEMMA SeqIsList ==
  ASSUME NEW S, NEW s \in Seq(S)
  PROVE  IsList(s)
<1>1. Len(s) \in Nat /\ DOMAIN s = 1..Len(s)
  OBVIOUS
<1>2. s = [i \in 1..Len(s) |-> s[i]]
  BY <1>1
<1> QED BY <1>1, <1>2, ListOf

LEMMA JoinedFits ==
  ASSUME NEW s, NEW t, IsList(s), IsList(t)
  PROVE  /\ IsList(s \o t)
         /\ \A i \in DOMAIN (s \o t) :
              \/ i \in DOMAIN s /\ (s \o t)[i] = s[i]
              \/ i - Len(s) \in DOMAIN t /\ i \notin DOMAIN s /\ (s \o t)[i] = t[i - Len(s)]
         /\ \A i \in DOMAIN s : i \in DOMAIN (s \o t) /\ (s \o t)[i] = s[i]
         /\ \A i \in DOMAIN t : i + Len(s) \in DOMAIN (s \o t) /\ (s \o t)[i + Len(s)] = t[i]
<1>1. Len(s) \in Nat /\ DOMAIN s = 1..Len(s) /\ Len(t) \in Nat /\ DOMAIN t = 1..Len(t)
  BY ListFits
<1>2. PICK S : s \in Seq(S) /\ t \in Seq(S)
  <2>1. s \in Seq({s[i] : i \in DOMAIN s} \union {t[i] : i \in DOMAIN t})
        /\ t \in Seq({s[i] : i \in DOMAIN s} \union {t[i] : i \in DOMAIN t})
    BY <1>1 DEF IsList
  <2> QED BY <2>1
<1> DEFINE u == s \o t
<1>3. u \in Seq(S) /\ Len(u) = Len(s) + Len(t)
      /\ \A i \in 1..(Len(s) + Len(t)) : u[i] = IF i <= Len(s) THEN s[i] ELSE t[i - Len(s)]
  BY <1>2, ConcatProperties
<1> HIDE DEF u
<1>4. DOMAIN u = 1..(Len(s) + Len(t)) /\ IsList(u)
  BY <1>3, SeqIsList, ListFits
<1>5. u = s \o t
  BY DEF u
<1>6. \A i \in DOMAIN u :
        (i \in DOMAIN s /\ u[i] = s[i]) \/ (i - Len(s) \in DOMAIN t /\ i \notin DOMAIN s /\ u[i] = t[i - Len(s)])
  BY <1>1, <1>3, <1>4
<1>7. (\A i \in DOMAIN s : i \in DOMAIN u /\ u[i] = s[i])
      /\ \A i \in DOMAIN t : i + Len(s) \in DOMAIN u /\ u[i + Len(s)] = t[i]
  BY <1>1, <1>3, <1>4
<1> QED BY <1>4, <1>5, <1>6, <1>7, Zenon

LEMMA AppendedFits ==
  ASSUME NEW s, NEW x, IsList(s)
  PROVE  /\ IsList(Append(s, x))
         /\ \A i \in DOMAIN Append(s, x) : (i \in DOMAIN s /\ Append(s, x)[i] = s[i]) \/ Append(s, x)[i] = x
         /\ \A i \in DOMAIN s : i \in DOMAIN Append(s, x) /\ Append(s, x)[i] = s[i]
         /\ \E i \in DOMAIN Append(s, x) : Append(s, x)[i] = x
<1>1. Len(s) \in Nat /\ DOMAIN s = 1..Len(s)
  BY ListFits
<1>2. PICK S : s \in Seq(S) /\ x \in S
  <2>1. s \in Seq({s[i] : i \in DOMAIN s} \union {x})
    BY <1>1 DEF IsList
  <2> QED BY <2>1
<1> DEFINE u == Append(s, x)
<1>3. u \in Seq(S) /\ Len(u) = Len(s) + 1 /\ (\A i \in 1..Len(s) : u[i] = s[i]) /\ u[Len(s) + 1] = x
  BY <1>2, AppendProperties
<1> HIDE DEF u
<1>4. DOMAIN u = 1..(Len(s) + 1) /\ IsList(u)
  BY <1>3, SeqIsList, ListFits
<1>5. u = Append(s, x)
  BY DEF u
<1>6. \A i \in DOMAIN u : i \in DOMAIN s \/ i = Len(s) + 1
  BY <1>1, <1>4
<1>7. Len(s) + 1 \in DOMAIN u /\ \A i \in DOMAIN s : i \in DOMAIN u
  BY <1>1, <1>4
<1> QED BY <1>1, <1>3, <1>4, <1>5, <1>6, <1>7, Zenon

LEMMA TailFits ==
  ASSUME NEW s, IsList(s), s # << >>
  PROVE  /\ IsList(Tail(s)) /\ 1 \in DOMAIN s /\ Head(s) = s[1]
         /\ \A i \in DOMAIN Tail(s) : i + 1 \in DOMAIN s /\ Tail(s)[i] = s[i + 1]
         /\ \A i \in DOMAIN s : i = 1 \/ (i - 1 \in DOMAIN Tail(s) /\ Tail(s)[i - 1] = s[i])
<1>1. Len(s) \in Nat /\ DOMAIN s = 1..Len(s)
  BY ListFits
<1>2. PICK S : s \in Seq(S)
  BY DEF IsList
<1>3. Len(s) # 0
  BY <1>2
<1> DEFINE u == Tail(s)
<1>4. u \in Seq(S) /\ Len(u) = Len(s) - 1 /\ \A i \in 1..Len(u) : u[i] = s[i + 1]
  BY <1>2, HeadTailProperties
<1>5. Head(s) = s[1]
  BY <1>2
<1> HIDE DEF u
<1>6. DOMAIN u = 1..(Len(s) - 1) /\ IsList(u)
  BY <1>4, SeqIsList, ListFits
<1>7. u = Tail(s)
  BY DEF u
<1>8. \A i \in DOMAIN u : i + 1 \in DOMAIN s /\ u[i] = s[i + 1]
  BY <1>1, <1>4, <1>6
<1>9. \A i \in DOMAIN s : i = 1 \/ (i - 1 \in DOMAIN u /\ u[i - 1] = s[i])
  BY <1>1, <1>4, <1>6
<1>10. 1 \in DOMAIN s
  BY <1>1, <1>3
<1> QED BY <1>5, <1>6, <1>7, <1>8, <1>9, <1>10, Zenon

LEMMA EmptyList == IsList(<< >>) /\ DOMAIN << >> = {}
<1>1. << >> \in Seq({}) /\ Len(<< >>) = 0
  BY EmptySeq
<1> DEFINE u == << >>
<1> HIDE DEF u
<1>2. u \in Seq({}) /\ Len(u) = 0
  BY <1>1 DEF u
<1>3. IsList(u)
  BY <1>2, SeqIsList, Zenon
<1>4. DOMAIN u = {}
  BY <1>2
<1> QED BY <1>3, <1>4, Zenon DEF u

LEMMA OneList ==
  ASSUME NEW x
  PROVE  IsList(<<x>>) /\ DOMAIN <<x>> = {1} /\ <<x>>[1] = x
<1>1. <<x>> \in Seq({x}) /\ DOMAIN <<x>> = {1} /\ <<x>>[1] = x
  OBVIOUS
<1>2. IsList(<<x>>)
  BY <1>1, SeqIsList, Zenon
<1> QED BY <1>1, <1>2, Zenon

LEMMA MadeList ==
  ASSUME NEW s, IsList(s), NEW t, DOMAIN t = DOMAIN s, t = [i \in DOMAIN s |-> t[i]]
  PROVE  IsList(t)
<1>1. Len(s) \in Nat /\ DOMAIN s = 1..Len(s)
  BY ListFits
<1>2. DOMAIN t = 1..Len(s) /\ t = [i \in 1..Len(s) |-> t[i]]
  BY <1>1
<1> QED BY <1>1, <1>2, ListOf

-----------------------------------------------------------------------------
(* The inductive invariant.  Its parts say of rows R, of what was reviewed V *)
(* and of tests left halfway H what they need, so that a step only has to    *)
(* say which of them it changes.                                             *)

RowFields == {"id", "ext", "category", "steps", "quarantined", "goal"}

StFields == {"pc", "page", "todo", "cases", "results", "session", "pages", "untested", "parts", "was", "fresh"}

Safe(id, ss, V, H) == <<id, ss>> \in V \/ id \in H

(* A row is found under its external id, which tells who wrote it. *)
RowFits(r, e, n) ==
  /\ r = [x \in RowFields |-> r[x]]
  /\ r.ext = e /\ r.id \in 1..n /\ r.quarantined \in BOOLEAN
  /\ r.category = "ai" <=> e[1] = "ai"
  /\ r.category = "explored" <=> e[1] = "explored"

RowSafe(r, V, H) == ModelWrote(r) /\ ~r.quarantined => Safe(r.id, r.steps, V, H)

(* An entry of the run: what it would run now is safe if it counts. *)
CaseSafe(c, R, V, H) ==
  ModelWrote(c) /\ ~c.quarantined /\ c.ext \in DOMAIN R /\ R[c.ext].id = c.id
    => Safe(c.id, R[c.ext].steps, V, H)

ResultSafe(r, V, H) == r.status = "FAILED" /\ ModelWrote(r) /\ ~r.quarantined => Safe(r.id, r.steps, V, H)

TestFits(t) ==
  /\ t.category = "ai" <=> t.slug[1] = "ai"
  /\ t.category # "explored" /\ t.slug[1] # "explored"

Told(s) == \A i, j \in DOMAIN s : s[i].category = "ai" /\ s[j].category = "ai" /\ s[i].slug = s[j].slug => i = j

Planned(s) == IsList(s) /\ (\A i \in DOMAIN s : TestFits(s[i])) /\ Told(s)

RowsInv ==
  \A e \in DOMAIN rows :
    /\ RowFits(rows[e], e, made)
    /\ RowSafe(rows[e], reviewed, halfway) \/ (st.fresh # NoTest /\ e = st.fresh.ext)

(* Before the first write the run has no entries, while it writes what is    *)
(* still planned is no entry yet, and the explorer's test comes last.        *)
StageInv ==
  /\ st = [x \in StFields |-> st[x]]
  /\ st.pc \in {"idle", "codebase", "analyze", "plan"} => st.cases = << >> /\ st.results = << >>
  /\ st.pc = "plan" => IsList(st.page.links)
  /\ st.pc = "write" =>
       /\ Planned(st.todo)
       /\ \A i \in DOMAIN st.todo : \A k \in DOMAIN st.cases :
            st.todo[i].category = "ai" => st.cases[k].ext # st.todo[i].slug
  /\ st.pc \in {"write", "explore"} => \A k \in DOMAIN st.cases : st.cases[k].ext[1] # "explored"

FreshInv ==
  st.fresh # NoTest =>
    /\ RowFits(st.fresh, st.fresh.ext, made)
    /\ st.fresh.ext \in DOMAIN rows => rows[st.fresh.ext].id = st.fresh.id
    /\ \/ st.pc = "write" /\ st.fresh.ext[1] = "ai" /\ \A i \in DOMAIN st.todo : st.todo[i].slug # st.fresh.ext
       \/ st.pc = "explore" /\ st.fresh.ext = Explored /\ st.was = NoTest

WasInv ==
  st.was # NoTest =>
    st.pc = "explore" /\ RowFits(st.was, Explored, made) /\ CaseSafe(st.was, rows, reviewed, halfway)

CasesInv ==
  /\ IsList(st.cases) /\ IsList(st.results)
  /\ \A k \in DOMAIN st.cases :
       RowFits(st.cases[k], st.cases[k].ext, made) /\ CaseSafe(st.cases[k], rows, reviewed, halfway)
  /\ \A k \in DOMAIN st.results : ResultSafe(st.results[k], reviewed, halfway)

Inv ==
  /\ made \in Nat /\ IsList(blueprint)
  /\ RowsInv /\ StageInv /\ FreshInv /\ WasInv /\ CasesInv /\ UnreviewedCannotFail

-----------------------------------------------------------------------------
(* What is planned. *)

NoneOfModel(s) == \A i \in DOMAIN s : s[i].category # "ai"

LEMMA JoinedPlans ==
  ASSUME NEW s, NEW t, Planned(s), Planned(t), NoneOfModel(s) \/ NoneOfModel(t)
  PROVE  Planned(s \o t) /\ (NoneOfModel(s) /\ NoneOfModel(t) => NoneOfModel(s \o t))
<1> USE DEF Planned
<1> DEFINE u == s \o t
<1>1. /\ IsList(u)
      /\ \A i \in DOMAIN u : \/ i \in DOMAIN s /\ u[i] = s[i]
                             \/ i - Len(s) \in DOMAIN t /\ i \notin DOMAIN s /\ u[i] = t[i - Len(s)]
  BY JoinedFits
<1>2. Len(s) \in Nat /\ DOMAIN u \subseteq Nat
  BY <1>1, ListFits
<1> HIDE DEF u
<1>3. ASSUME NEW i \in DOMAIN u
      PROVE  TestFits(u[i]) /\ (NoneOfModel(s) /\ NoneOfModel(t) => u[i].category # "ai")
  BY <1>1 DEF NoneOfModel
<1>4. ASSUME NEW i \in DOMAIN u, NEW j \in DOMAIN u,
             u[i].category = "ai", u[j].category = "ai", u[i].slug = u[j].slug
      PROVE  i = j
  <2>1. CASE NoneOfModel(t)
    <3>1. i \in DOMAIN s /\ u[i] = s[i] /\ j \in DOMAIN s /\ u[j] = s[j]
      BY <1>1, <1>4, <2>1 DEF NoneOfModel
    <3> QED BY <3>1, <1>4 DEF Told
  <2>2. CASE NoneOfModel(s)
    <3>1. /\ i - Len(s) \in DOMAIN t /\ u[i] = t[i - Len(s)]
          /\ j - Len(s) \in DOMAIN t /\ u[j] = t[j - Len(s)]
      BY <1>1, <1>4, <2>2 DEF NoneOfModel
    <3>2. i - Len(s) = j - Len(s)
      BY <3>1, <1>4 DEF Told
    <3> QED BY <3>2, <1>2
  <2> QED BY <2>1, <2>2
<1>5. Planned(u) /\ (NoneOfModel(s) /\ NoneOfModel(t) => NoneOfModel(u))
  BY <1>1, <1>3, <1>4 DEF Told, NoneOfModel
<1> QED BY <1>5 DEF u

LEMMA OneByRule ==
  ASSUME NEW slug, NEW category, NEW ss, category \notin {"ai", "explored"}, slug[1] \notin {"ai", "explored"}
  PROVE  Planned(<<Test(slug, category, ss)>>) /\ NoneOfModel(<<Test(slug, category, ss)>>)
<1> DEFINE t == Test(slug, category, ss)
<1>1. t.slug = slug /\ t.category = category
  BY DEF Test
<1> HIDE DEF t
<1>2. IsList(<<t>>) /\ \A i \in DOMAIN <<t>> : i = 1 /\ <<t>>[i] = t
  BY OneList
<1>3. TestFits(t) /\ t.category # "ai"
  BY <1>1 DEF TestFits
<1>4. Planned(<<t>>) /\ NoneOfModel(<<t>>)
  BY <1>2, <1>3 DEF Planned, Told, NoneOfModel
<1> QED BY <1>4 DEF t

LEMMA NothingPlanned == Planned(<< >>) /\ NoneOfModel(<< >>)
BY EmptyList DEF Planned, Told, NoneOfModel

LEMMA PageTestsPlanned ==
  ASSUME NEW a
  PROVE  Planned(page_tests(a)) /\ NoneOfModel(page_tests(a))
<1> DEFINE smoke == <<Test(<<"smoke">>, "smoke", <<Opens(a.url)>> \o Shows(a.title) \o <<Renders>>)>>
           interaction == IF \E i \in DOMAIN a.steps : a.steps[i].action \in {"fill", "click", "press"}
                          THEN <<Test(<<"interaction">>, "functional", a.steps)>> ELSE << >>
           content == IF a.headings = << >> THEN << >>
                      ELSE <<Test(<<"content">>, "content",
                                  <<Opens(a.url), Step("assert_contains_text", <<"body">>, <<a.headings[1]>>)>>)>>
<1>1. page_tests(a) = smoke \o interaction \o content
  BY DEF page_tests
<1>2. Planned(smoke) /\ NoneOfModel(smoke)
  BY OneByRule
<1>3. Planned(interaction) /\ NoneOfModel(interaction)
  BY OneByRule, NothingPlanned
<1>4. Planned(content) /\ NoneOfModel(content)
  BY OneByRule, NothingPlanned
<1> HIDE DEF smoke, interaction, content
<1>5. Planned(smoke \o interaction) /\ NoneOfModel(smoke \o interaction)
  BY <1>2, <1>3, JoinedPlans
<1> QED BY <1>1, <1>4, <1>5, JoinedPlans

(* Picking keeps what tells the elements apart. *)
OwnIds(s) == \A i, j \in DOMAIN s : AiSlug[s[i].id] = AiSlug[s[j].id] => i = j

LEMMA PickedIds ==
  ASSUME NEW s, IsList(s), OwnIds(s), NEW I, I \subseteq DOMAIN s
  PROVE  IsList(Picked(s, I)) /\ OwnIds(Picked(s, I))
<1> DEFINE p == Picked(s, I)
<1>1. IsList(p) /\ \A k \in DOMAIN p : Nth(I, k) \in I /\ Rank(I, Nth(I, k)) = k /\ p[k] = s[Nth(I, k)]
  BY PickedFits
<1> HIDE DEF p
<1>2. ASSUME NEW k \in DOMAIN p, NEW l \in DOMAIN p, AiSlug[p[k].id] = AiSlug[p[l].id]
      PROVE  k = l
  <2>1. Nth(I, k) = Nth(I, l)
    BY <1>1, <1>2 DEF OwnIds
  <2> QED BY <1>1, <2>1
<1>3. OwnIds(p)
  BY <1>2 DEF OwnIds
<1> QED BY <1>1, <1>3 DEF p

(* What the planner returns before it compares it with the page. *)
Returned(answer) == _remove_duplicates(Valid(_parse_response(answer)))

LEMMA ReturnedIsList ==
  ASSUME NEW answer, IsList(answer)
  PROVE  IsList(Returned(answer))
<1>1. IsList(_parse_response(answer))
  BY PickedFits DEF _parse_response
<1>2. ASSUME NEW s, IsList(s)
      PROVE  IsList(Valid(s)) /\ IsList(_remove_duplicates(s))
  BY <1>2, PickedFits DEF Valid, _remove_duplicates
<1>3. IsList(Valid(_parse_response(answer)))
  BY <1>1, <1>2
<1> QED BY <1>2, <1>3 DEF Returned

LEMMA AiTestsPlanned ==
  ASSUME NEW answer, NEW a, IsList(answer), OwnIds(Returned(answer))
  PROVE  Planned(ai_tests(answer, a))
<1> DEFINE given == Returned(answer)
           cases == generate_tests(answer, a)
           most == UpTo(cases, MAX_AI_TESTS)
           kept == Picked(most, {i \in DOMAIN most : Usable(most[i], a)})
           tests == [i \in DOMAIN kept |-> Test(<<"ai", AiSlug[kept[i].id]>>, "ai", SuiteSteps(kept[i], a))]
<1>1. IsList(given) /\ OwnIds(given)
  BY ReturnedIsList
<1>2. cases = Picked(given, {i \in DOMAIN given : validate_element_references(given[i], a)})
  BY DEF generate_tests, OnThePage, Returned
<1> HIDE DEF given, cases
<1>3. IsList(cases) /\ OwnIds(cases)
  BY <1>1, <1>2, PickedIds
<1>4. IsList(most) /\ DOMAIN most \subseteq DOMAIN cases /\ \A i \in DOMAIN most : most[i] = cases[i]
  BY <1>3, UpToFits, PlannerAssumption
<1> HIDE DEF most
<1>5. OwnIds(most)
  BY <1>3, <1>4 DEF OwnIds
<1>6. IsList(kept) /\ OwnIds(kept)
  BY <1>4, <1>5, PickedIds
<1> HIDE DEF kept
<1>7. DOMAIN tests = DOMAIN kept /\ tests = [i \in DOMAIN kept |-> tests[i]]
  OBVIOUS
<1>8. \A i \in DOMAIN kept : tests[i].slug = <<"ai", AiSlug[kept[i].id]>> /\ tests[i].category = "ai"
  BY DEF Test
<1> HIDE DEF tests
<1>9. IsList(tests)
  BY <1>6, <1>7, MadeList
<1>10. \A i \in DOMAIN tests : TestFits(tests[i])
  <2>1. ASSUME NEW i \in DOMAIN tests PROVE tests[i].slug[1] = "ai" /\ tests[i].category = "ai"
    BY <1>7, <1>8
  <2> QED BY <2>1 DEF TestFits
<1>11. Told(tests)
  <2>1. ASSUME NEW i \in DOMAIN tests, NEW j \in DOMAIN tests, tests[i].slug = tests[j].slug
        PROVE  i = j
    <3>1. tests[i].slug[2] = AiSlug[kept[i].id] /\ tests[j].slug[2] = AiSlug[kept[j].id]
      BY <1>7, <1>8
    <3> QED BY <1>6, <1>7, <2>1, <3>1 DEF OwnIds
  <2> QED BY <2>1 DEF Told
<1>12. Planned(tests)
  BY <1>9, <1>10, <1>11 DEF Planned
<1>13. to_suite_tests(cases, a) = tests
  BY DEF to_suite_tests, tests, kept, most
<1>14. ai_tests(answer, a) = IF Raises(answer) THEN << >> ELSE tests
  BY <1>13 DEF ai_tests, cases
<1> QED BY <1>12, <1>14, NothingPlanned

LEMMA CandidatesAreLists ==
  ASSUME NEW a, NEW b, IsList(a.links), IsList(b)
  PROVE  /\ IsList(candidate_pages(a, b))
         /\ \A i \in DOMAIN candidate_pages(a, b) : candidate_pages(a, b)[i].kind \in {"link", "route"}
<1> DEFINE found  == _get_routes(b)
           paths  == [i \in DOMAIN found |-> <<Host(a.url), found[i].path, "", "">>]
           links  == UpTo(Picked(a.links, Offered(a.links, a.url, {_normalize(a.url)})), LINK_PAGES)
           seen   == {_normalize(a.url)} \union {_normalize(links[i]) : i \in DOMAIN links}
           routes == UpTo(Picked(paths, Offered(paths, a.url, seen)), ROUTE_PAGES)
           L == [i \in DOMAIN links |-> Candidate("link", links[i])]
           R == [i \in DOMAIN routes |-> Candidate("route", routes[i])]
<1>1. candidate_pages(a, b) = L \o R
  BY DEF candidate_pages
<1>2. ASSUME NEW s, IsList(s), NEW base, NEW old, NEW n \in Nat
      PROVE  IsList(UpTo(Picked(s, Offered(s, base, old)), n))
  <2>1. Offered(s, base, old) \subseteq DOMAIN s
    BY DEF Offered
  <2>2. IsList(Picked(s, Offered(s, base, old)))
    BY <1>2, <2>1, PickedFits
  <2> QED BY <2>2, UpToFits
<1>3. LINK_PAGES \in Nat /\ ROUTE_PAGES \in Nat
  BY PagePlanAssumption
<1>4. IsList(links)
  BY <1>2, <1>3
<1>5. IsList(found)
  BY PickedFits DEF _get_routes
<1> HIDE DEF found, links, seen
<1>6. IsList(paths)
  BY <1>5, MadeList
<1> HIDE DEF paths
<1>7. IsList(routes)
  BY <1>2, <1>3, <1>6
<1> HIDE DEF routes
<1>8. IsList(L) /\ IsList(R)
  BY <1>4, <1>7, MadeList
<1>9. (\A i \in DOMAIN L : L[i].kind = "link") /\ \A i \in DOMAIN R : R[i].kind = "route"
  BY DEF Candidate
<1> HIDE DEF L, R
<1>10. IsList(L \o R)
  BY <1>8, JoinedFits
<1>11. \A i \in DOMAIN (L \o R) : (L \o R)[i].kind \in {"link", "route"}
  BY <1>8, <1>9, JoinedFits
<1> QED BY <1>1, <1>10, <1>11

LEMMA PageTestFits ==
  ASSUME NEW c, c.kind \in {"link", "route"}, NEW analyzed
  PROVE  TestFits(PageTest(c, analyzed)) /\ PageTest(c, analyzed).category # "ai"
<1>1. render_test(c).slug = <<c.kind, Slug[Path(c.url)]>> /\ render_test(c).category = c.kind
      /\ "steps" \in DOMAIN render_test(c)
  BY DEF render_test, Test
<1> DEFINE t == PageTest(c, analyzed)
           r == render_test(c)
<1>2. \E s : t = [r EXCEPT !.steps = s]
  BY DEF PageTest, stays_on_page_test, page_check_test, render_test, Test
<1>3. t.slug = r.slug /\ t.category = r.category
  BY <1>2 DEF render_test, Test
<1>4. t.slug[1] = c.kind /\ t.category = c.kind
  BY <1>1, <1>3
<1> QED BY <1>4 DEF TestFits

LEMMA OtherPagesPlanned ==
  ASSUME NEW a, NEW b, IsList(a.links), IsList(b), NEW analyzed,
         NEW candidates, candidates = _reachable(candidate_pages(a, b)), NEW tests,
         tests = [i \in DOMAIN candidates |-> PageTest(candidates[i], i \in analyzed)]
  PROVE  Planned(tests) /\ NoneOfModel(tests)
<1> DEFINE all == candidate_pages(a, b)
<1>1. IsList(all) /\ \A i \in DOMAIN all : all[i].kind \in {"link", "route"}
  BY CandidatesAreLists
<1>2. candidates = Picked(all, {i \in DOMAIN all : Others[all[i].url].status \in 1..399})
  BY DEF _reachable
<1> HIDE DEF all
<1> DEFINE alive == {i \in DOMAIN all : Others[all[i].url].status \in 1..399}
<1>a. alive \subseteq DOMAIN all /\ candidates = Picked(all, alive)
  BY <1>2
<1> HIDE DEF alive
<1>b. IsList(candidates) /\ \A k \in DOMAIN candidates : \E i \in DOMAIN all : candidates[k] = all[i]
  BY <1>1, <1>a, PickedFits
<1>3. IsList(candidates) /\ \A k \in DOMAIN candidates : candidates[k].kind \in {"link", "route"}
  BY <1>1, <1>b
<1>4. IsList(tests)
  BY <1>3, MadeList
<1>5. ASSUME NEW k \in DOMAIN tests PROVE TestFits(tests[k]) /\ tests[k].category # "ai"
  BY <1>3, PageTestFits
<1> QED BY <1>4, <1>5 DEF Planned, Told, NoneOfModel

-----------------------------------------------------------------------------
(* Rows and entries. *)

LEMMA IdleFacts ==
  /\ Idle = [x \in StFields |-> Idle[x]]
  /\ Idle.pc = "idle" /\ Idle.cases = << >> /\ Idle.results = << >> /\ Idle.was = NoTest /\ Idle.fresh = NoTest
BY DEF Idle, StFields

LEMMA RowIsNoNoTest ==
  ASSUME NEW r, NEW e, NEW n \in Nat, RowFits(r, e, n)
  PROVE  r # NoTest
<1>1. NoTest.id = 0
  BY DEF NoTest
<1>2. r.id \in 1..n
  BY DEF RowFits
<1> QED BY <1>1, <1>2

LEMMA FitsMore ==
  ASSUME NEW r, NEW e, NEW n \in Nat, NEW m \in Nat, n <= m, RowFits(r, e, n)
  PROVE  RowFits(r, e, m)
<1>1. r.id \in 1..m
  BY DEF RowFits
<1> QED BY <1>1 DEF RowFits

LEMMA SafeMore ==
  ASSUME NEW V, NEW W, V \subseteq W, NEW H, NEW K, H \subseteq K
  PROVE  /\ \A r : RowSafe(r, V, H) => RowSafe(r, W, K)
         /\ \A r : ResultSafe(r, V, H) => ResultSafe(r, W, K)
         /\ \A c, R : CaseSafe(c, R, V, H) => CaseSafe(c, R, W, K)
<1>1. \A id, ss : Safe(id, ss, V, H) => Safe(id, ss, W, K)
  BY DEF Safe
<1> QED BY <1>1 DEF RowSafe, ResultSafe, CaseSafe

LEMMA PutFits ==
  ASSUME NEW row
  PROVE  /\ DOMAIN Put(row) = DOMAIN rows \union {row.ext}
         /\ Put(row)[row.ext] = row
         /\ \A e \in DOMAIN rows \ {row.ext} : Put(row)[e] = rows[e]
BY DEF Put

LEMMA InsertFits ==
  ASSUME NEW ext, NEW category, NEW ss, NEW n \in Nat, made = n,
         category = "ai" <=> ext[1] = "ai", category = "explored" <=> ext[1] = "explored",
         NEW new, new = Insert(ext, category, ss)
  PROVE  /\ RowFits(new, ext, n + 1) /\ new.id = n + 1 /\ new.category = category /\ new.ext = ext
         /\ new.steps = ss /\ ~new.quarantined
<1>1. /\ new.id = n + 1 /\ new.category = category /\ new.ext = ext /\ new.steps = ss
      /\ new.quarantined = FALSE /\ new = [x \in RowFields |-> new[x]]
  BY DEF Insert, RowFields
<1>2. new.id \in 1..(n + 1)
  BY <1>1
<1> QED BY <1>1, <1>2 DEF RowFits

Marked(r, b)       == [r EXCEPT !.quarantined = b]
WithSteps(r, ss) == [r EXCEPT !.steps = ss]

LEMMA ChangedFits ==
  ASSUME NEW r, NEW e, NEW n, RowFits(r, e, n), NEW b \in BOOLEAN, NEW new, new = Marked(r, b)
  PROVE  /\ RowFits(new, e, n) /\ new.id = r.id /\ new.steps = r.steps /\ new.category = r.category
         /\ new.ext = e /\ new.quarantined = b
<1>1. /\ new.id = r.id /\ new.category = r.category /\ new.ext = r.ext /\ new.steps = r.steps
      /\ new.quarantined = b /\ new = [x \in RowFields |-> new[x]]
  BY DEF RowFits, RowFields, Marked
<1> QED BY <1>1 DEF RowFits

LEMMA EditedFits ==
  ASSUME NEW r, NEW e, NEW n, RowFits(r, e, n), NEW ss, NEW new, new = WithSteps(r, ss)
  PROVE  /\ RowFits(new, e, n) /\ new.id = r.id /\ new.steps = ss /\ new.category = r.category
         /\ new.ext = e /\ new.quarantined = r.quarantined
<1>1. /\ new.id = r.id /\ new.category = r.category /\ new.ext = r.ext /\ new.steps = ss
      /\ new.quarantined = r.quarantined /\ new = [x \in RowFields |-> new[x]]
  BY DEF RowFits, RowFields, WithSteps
<1> QED BY <1>1 DEF RowFits

LEMMA RewrittenFits ==
  ASSUME NEW r, NEW e, NEW n, RowFits(r, e, n), NEW ss, NEW b \in BOOLEAN, NEW new, new = Rewritten(r, ss, b)
  PROVE  /\ RowFits(new, e, n) /\ new.id = r.id /\ new.steps = ss /\ new.category = r.category
         /\ new.ext = e /\ new.quarantined = b
<1>1. /\ new.id = r.id /\ new.category = r.category /\ new.ext = r.ext /\ new.steps = ss
      /\ new.quarantined = b /\ new = [x \in RowFields |-> new[x]]
  BY DEF RowFits, RowFields, Rewritten
<1> QED BY <1>1 DEF RowFits

(* Only rules, the planner and the explorer write under their own slugs. *)
LEMMA WriterBySlug ==
  ASSUME NEW r, NEW e, NEW n, RowFits(r, e, n)
  PROVE  ModelWrote(r) <=> e[1] \in {"ai", "explored"}
BY DEF RowFits, ModelWrote

-----------------------------------------------------------------------------
(* What most steps leave as it is. *)

LEMMA EndedStays ==
  ASSUME UnreviewedCannotFail, UNCHANGED ended, reviewed \subseteq reviewed', halfway \subseteq halfway'
  PROVE  UnreviewedCannotFail'
BY DEF UnreviewedCannotFail

LEMMA RowsStay ==
  ASSUME RowsInv, UNCHANGED <<rows, made, reviewed, halfway>>,
         st'.fresh = st.fresh \/ (st.fresh # NoTest => st.fresh.ext \notin DOMAIN rows)
  PROVE  RowsInv'
BY DEF RowsInv

(* No entries yet, or the run has ended. *)
LEMMA EarlyStage ==
  ASSUME st' = [x \in StFields |-> st'[x]], st'.pc \in {"idle", "codebase", "analyze", "plan"},
         st'.cases = << >>, st'.results = << >>, st'.was = NoTest, st'.fresh = NoTest,
         st'.pc = "plan" => IsList(st'.page.links)
  PROVE  StageInv' /\ FreshInv' /\ WasInv' /\ CasesInv'
BY EmptyList DEF StageInv, FreshInv, WasInv, CasesInv

LEMMA NoFresh ==
  ASSUME Inv, st.pc \notin {"write", "explore"}
  PROVE  st.fresh = NoTest /\ st.was = NoTest
BY DEF Inv, FreshInv, WasInv

(* A run ends as an error: a test that is not quarantined yet was left        *)
(* halfway, or is gone.                                                       *)
LEMMA ErrorKeeps ==
  ASSUME Inv, EndsAs(Error), UNCHANGED <<made, blueprint, rows, reviewed>>, halfway \subseteq halfway',
         st.fresh # NoTest /\ st.fresh.ext \in DOMAIN rows => st.fresh.id \in halfway'
  PROVE  Inv'
<1>1. ended'.status = "error" /\ st' = Idle
  BY DEF EndsAs, Error, NoRun
<1>2. UnreviewedCannotFail'
  BY <1>1 DEF UnreviewedCannotFail
<1>3. StageInv' /\ FreshInv' /\ WasInv' /\ CasesInv'
  BY <1>1, IdleFacts, EarlyStage
<1>4. ASSUME NEW e \in DOMAIN rows
      PROVE  RowFits(rows[e], e, made) /\ RowSafe(rows[e], reviewed, halfway')
  <2>1. RowFits(rows[e], e, made)
    BY DEF Inv, RowsInv
  <2>2. CASE st.fresh # NoTest /\ e = st.fresh.ext
    <3>1. rows[e].id \in halfway'
      BY <2>2 DEF Inv, FreshInv
    <3> QED BY <2>1, <3>1 DEF RowSafe, Safe
  <2>3. CASE ~(st.fresh # NoTest /\ e = st.fresh.ext)
    BY <2>3, SafeMore DEF Inv, RowsInv
  <2> QED BY <2>1, <2>2, <2>3
<1>5. RowsInv'
  BY <1>4 DEF RowsInv
<1> QED BY <1>2, <1>3, <1>5 DEF Inv

(* A user changes rows: what models wrote keeps its id, and its steps unless  *)
(* the user wrote them.                                                       *)
LEMMA UserKeeps ==
  ASSUME Inv, UNCHANGED <<st, ended, blueprint, halfway>>, made' \in Nat, made <= made',
         reviewed \subseteq reviewed',
         \A e \in DOMAIN rows' :
           /\ RowFits(rows'[e], e, made')
           /\ RowSafe(rows'[e], reviewed', halfway) \/ (st.fresh # NoTest /\ e = st.fresh.ext),
         \A e \in DOMAIN rows' : e[1] \in {"ai", "explored"} =>
           /\ e \in DOMAIN rows /\ rows'[e].id = rows[e].id
           /\ rows'[e].steps = rows[e].steps \/ <<rows'[e].id, rows'[e].steps>> \in reviewed'
  PROVE  Inv'
<1> USE DEF Inv
<1>1. RowsInv' /\ StageInv'
  BY DEF RowsInv, StageInv
<1>2. UnreviewedCannotFail'
  BY EndedStays
<1>3. ASSUME NEW c, NEW e, RowFits(c, e, made), c.ext = e, CaseSafe(c, rows, reviewed, halfway)
      PROVE  RowFits(c, e, made') /\ CaseSafe(c, rows', reviewed', halfway)
  <2>1. RowFits(c, e, made')
    BY <1>3, FitsMore
  <2>2. ASSUME ModelWrote(c), ~c.quarantined, e \in DOMAIN rows', rows'[e].id = c.id
        PROVE  Safe(c.id, rows'[e].steps, reviewed', halfway)
    <3>1. /\ e \in DOMAIN rows /\ rows'[e].id = rows[e].id
          /\ rows'[e].steps = rows[e].steps \/ <<rows'[e].id, rows'[e].steps>> \in reviewed'
      BY <1>3, <2>2, WriterBySlug
    <3>2. Safe(c.id, rows[e].steps, reviewed, halfway)
      BY <1>3, <2>2, <3>1 DEF CaseSafe
    <3> QED BY <2>2, <3>1, <3>2 DEF Safe
  <2> QED BY <1>3, <2>1, <2>2 DEF CaseSafe
<1>4. CasesInv'
  <2>1. \A k \in DOMAIN st.results : ResultSafe(st.results[k], reviewed', halfway)
    BY SafeMore DEF CasesInv
  <2> QED BY <1>3, <2>1 DEF CasesInv
<1>5. WasInv'
  <2>1. st.was # NoTest => st.was.ext = Explored
    BY DEF WasInv, RowFits
  <2> QED BY <1>3, <2>1 DEF WasInv
<1>6. FreshInv'
  <2>1. ASSUME st.fresh # NoTest
        PROVE  /\ RowFits(st.fresh, st.fresh.ext, made')
               /\ st.fresh.ext \in DOMAIN rows' => rows'[st.fresh.ext].id = st.fresh.id
    <3>1. RowFits(st.fresh, st.fresh.ext, made) /\ st.fresh.ext[1] \in {"ai", "explored"}
      BY <2>1 DEF FreshInv, Explored
    <3>2. RowFits(st.fresh, st.fresh.ext, made')
      BY <3>1, FitsMore
    <3> QED BY <2>1, <3>1, <3>2 DEF FreshInv
  <2> QED BY <2>1 DEF FreshInv
<1> QED BY <1>1, <1>2, <1>4, <1>5, <1>6

-----------------------------------------------------------------------------
(* The stages up to the first write. *)

LEMMA InitInv == Init => Inv
<1> SUFFICES ASSUME Init PROVE Inv
  OBVIOUS
<1>1. DOMAIN rows = {} /\ st = Idle /\ ended.status = "none" /\ made = 0 /\ IsList(blueprint)
  BY EmptyList DEF Init, NoRun
<1>2. RowsInv /\ UnreviewedCannotFail
  BY <1>1 DEF RowsInv, UnreviewedCannotFail
<1>3. StageInv /\ FreshInv /\ WasInv /\ CasesInv
  BY <1>1, IdleFacts, EmptyList DEF StageInv, FreshInv, WasInv, CasesInv
<1> QED BY <1>1, <1>2, <1>3 DEF Inv

LEMMA AnalyzedLinks ==
  ASSUME NEW html \in Htmls, NEW renders \in BOOLEAN, NEW g
  PROVE  IsList(analyze_live_website(html, renders, g).links)
<1>1. IsList(html.links) /\ (_looks_client_rendered(html) => IsList(html.dom.links))
  BY SuiteAssumption DEF IsPage
<1> DEFINE shell == html.status < 400 /\ _looks_client_rendered(html)
           dom   == IF shell /\ renders THEN html.dom ELSE html
<1>2. IsList(dom.links)
  BY <1>1
<1>3. analyze_live_website(html, renders, g).links = dom.links
  BY DEF analyze_live_website
<1> QED BY <1>2, <1>3

LEMMA EarlyKeeps ==
  ASSUME Inv, StartRun \/ Codebase \/ Analyze
  PROVE  Inv'
<1> USE DEF Inv
<1>1. CASE StartRun
  <2>1. st' = [x \in StFields |-> st'[x]] /\ st'.pc = "codebase" /\ st'.cases = << >> /\ st'.results = << >>
        /\ st'.was = NoTest /\ st'.fresh = NoTest
    BY <1>1, IdleFacts DEF StartRun, StFields, Idle
  <2>2. StageInv' /\ FreshInv' /\ WasInv' /\ CasesInv'
    BY <2>1, EarlyStage
  <2>3. st.fresh = NoTest
    BY <1>1, NoFresh DEF StartRun
  <2>4. RowsInv'
    BY <1>1, <2>1, <2>3 DEF StartRun, RowsInv
  <2>5. UnreviewedCannotFail'
    BY <1>1 DEF StartRun, NoRun, UnreviewedCannotFail
  <2> QED BY <1>1, <2>2, <2>4, <2>5 DEF StartRun
<1>2. CASE Codebase
  <2>1. /\ st' = [x \in StFields |-> st'[x]] /\ st'.pc = "analyze" /\ st'.cases = << >> /\ st'.results = << >>
        /\ st'.was = st.was /\ st'.fresh = st.fresh
    BY <1>2 DEF Codebase, StFields, StageInv
  <2>2. st.fresh = NoTest /\ st.was = NoTest
    BY <1>2, NoFresh DEF Codebase
  <2>3. StageInv' /\ FreshInv' /\ WasInv' /\ CasesInv'
    BY <2>1, <2>2, EarlyStage
  <2>4. RowsInv'
    BY <1>2, <2>1, RowsStay DEF Codebase
  <2>5. UnreviewedCannotFail'
    BY <1>2, EndedStays DEF Codebase
  <2>6. IsList(blueprint')
    BY <1>2, SuiteAssumption DEF Codebase
  <2> QED BY <1>2, <2>3, <2>4, <2>5, <2>6 DEF Codebase
<1>3. CASE Analyze
  <2>1. PICK html \in Htmls, renders \in BOOLEAN :
          \E pg \in {analyze_live_website(html, renders, goal)} :
            IF pg.success THEN st' = [st EXCEPT !.pc = "plan", !.page = pg] /\ UNCHANGED ended
            ELSE EndsAs(Error)
    BY <1>3 DEF Analyze
  <2> DEFINE pg == analyze_live_website(html, renders, goal)
  <2>2. IsList(pg.links)
    BY AnalyzedLinks
  <2>3. IF pg.success THEN st' = [st EXCEPT !.pc = "plan", !.page = pg] /\ UNCHANGED ended
        ELSE EndsAs(Error)
    BY <2>1
  <2> HIDE DEF pg
  <2>4. st.fresh = NoTest /\ st.was = NoTest
    BY <1>3, NoFresh DEF Analyze
  <2>5. CASE EndsAs(Error)
    BY <1>3, <2>4, <2>5, ErrorKeeps DEF Analyze
  <2>6. CASE st' = [st EXCEPT !.pc = "plan", !.page = pg] /\ UNCHANGED ended
    <3>1. /\ st' = [x \in StFields |-> st'[x]] /\ st'.pc = "plan" /\ st'.cases = << >> /\ st'.results = << >>
          /\ st'.was = st.was /\ st'.fresh = st.fresh /\ st'.page = pg
      BY <1>3, <2>6 DEF Analyze, StFields, StageInv
    <3>2. StageInv' /\ FreshInv' /\ WasInv' /\ CasesInv'
      BY <2>2, <2>4, <3>1, EarlyStage
    <3>3. RowsInv'
      BY <1>3, <3>1, RowsStay DEF Analyze
    <3>4. UnreviewedCannotFail'
      BY <1>3, <2>6, EndedStays DEF Analyze
    <3> QED BY <1>3, <3>2, <3>3, <3>4 DEF Analyze
  <2> QED BY <2>3, <2>5, <2>6
<1> QED BY <1>1, <1>2, <1>3

LEMMA PlanKeeps ==
  ASSUME Inv, Plan, \A answer \in Answers : OwnIds(Returned(answer))
  PROVE  Inv'
<1> USE DEF Inv
<1>1. PICK answer \in Answers, analyzed \in SUBSET (1..DEEP_PAGES) :
        \E candidates \in {_reachable(candidate_pages(st.page, blueprint))} :
          st' = [st EXCEPT !.pc = "write",
                           !.todo = page_tests(st.page) \o ai_tests(answer, st.page)
                                      \o [i \in DOMAIN candidates |-> PageTest(candidates[i], i \in analyzed)],
                           !.pages = {c.url : c \in Range(candidates)}]
  BY DEF Plan
<1> DEFINE candidates == _reachable(candidate_pages(st.page, blueprint))
           others == [i \in DOMAIN candidates |-> PageTest(candidates[i], i \in analyzed)]
           rules == page_tests(st.page)
           asked == ai_tests(answer, st.page)
           pages == {c.url : c \in Range(candidates)}
<1>2. st' = [st EXCEPT !.pc = "write", !.todo = rules \o asked \o others, !.pages = pages]
  BY <1>1
<1>3. Planned(rules) /\ NoneOfModel(rules)
  BY PageTestsPlanned
<1>4. Planned(asked)
  BY SuiteAssumption, AiTestsPlanned
<1>a. IsList(st.page.links) /\ IsList(blueprint)
  BY DEF Plan, StageInv
<1>5. Planned(others) /\ NoneOfModel(others)
  BY <1>a, OtherPagesPlanned, Zenon
<1> HIDE DEF candidates, others, rules, asked, pages
<1>6. Planned(rules \o asked)
  BY <1>3, <1>4, JoinedPlans
<1>7. Planned(rules \o asked \o others)
  BY <1>5, <1>6, JoinedPlans
<1> DEFINE todo == rules \o asked \o others
<1>8. /\ st' = [x \in StFields |-> st'[x]] /\ st'.pc = "write" /\ st'.todo = todo /\ st'.cases = << >>
      /\ st'.results = << >> /\ st'.was = st.was /\ st'.fresh = st.fresh
  BY <1>2 DEF Plan, StFields, StageInv
<1> HIDE DEF todo
<1>9. st.fresh = NoTest /\ st.was = NoTest
  BY NoFresh DEF Plan
<1>10. StageInv'
  BY <1>7, <1>8, EmptyList DEF StageInv, todo
<1>11. FreshInv' /\ WasInv' /\ CasesInv'
  BY <1>8, <1>9, EmptyList DEF FreshInv, WasInv, CasesInv
<1>12. RowsInv'
  BY <1>8, RowsStay DEF Plan
<1>13. UnreviewedCannotFail'
  BY EndedStays DEF Plan
<1> QED BY <1>10, <1>11, <1>12, <1>13 DEF Plan

-----------------------------------------------------------------------------
(* Planned tests are written, one by one. *)

(* One row changes, one entry may join. *)
LEMMA EntriesKeep ==
  ASSUME Inv, made' \in Nat, made <= made', UNCHANGED <<reviewed, halfway>>, st'.results = st.results,
         \A k \in DOMAIN st.cases : CaseSafe(st.cases[k], rows', reviewed, halfway),
         \/ st'.cases = st.cases
         \/ \E c : /\ st'.cases = Append(st.cases, c)
                   /\ RowFits(c, c.ext, made') /\ CaseSafe(c, rows', reviewed, halfway)
  PROVE  CasesInv'
<1> USE DEF Inv
<1>1. \A k \in DOMAIN st.cases : RowFits(st.cases[k], st.cases[k].ext, made')
  BY FitsMore DEF CasesInv
<1>2. CASE st'.cases = st.cases
  BY <1>1, <1>2 DEF CasesInv
<1>3. CASE ~(st'.cases = st.cases)
  <2>1. PICK c : /\ st'.cases = Append(st.cases, c)
                 /\ RowFits(c, c.ext, made') /\ CaseSafe(c, rows', reviewed, halfway)
    BY <1>3
  <2>2. /\ IsList(st'.cases)
        /\ \A i \in DOMAIN st'.cases : (i \in DOMAIN st.cases /\ st'.cases[i] = st.cases[i]) \/ st'.cases[i] = c
    BY <2>1, AppendedFits DEF CasesInv
  <2>3. ASSUME NEW i \in DOMAIN st'.cases
        PROVE  RowFits(st'.cases[i], st'.cases[i].ext, made') /\ CaseSafe(st'.cases[i], rows', reviewed, halfway)
    BY <1>1, <2>1, <2>2
  <2> QED BY <2>2, <2>3 DEF CasesInv
<1> QED BY <1>2, <1>3

(* A row that is safe for the run is safe as an entry of it. *)
LEMMA RowIsEntry ==
  ASSUME NEW R, NEW c, NEW e, NEW n, NEW V, NEW H, e \in DOMAIN R, R[e] = c, RowFits(c, e, n), RowSafe(c, V, H)
  PROVE  c.ext = e /\ CaseSafe(c, R, V, H)
BY DEF RowFits, RowSafe, CaseSafe

(* What a write means for the table. *)
LEMMA PutKeepsRows ==
  ASSUME Inv, NEW new, NEW e, RowFits(new, e, made'), rows' = Put(new), made' \in Nat, made <= made',
         UNCHANGED <<reviewed, halfway>>,
         RowSafe(new, reviewed, halfway) \/ (st'.fresh # NoTest /\ e = st'.fresh.ext),
         st.fresh = NoTest \/ st.fresh.ext = e
  PROVE  RowsInv'
<1> USE DEF Inv
<1>1. new.ext = e
  BY DEF RowFits
<1>2. /\ DOMAIN rows' = DOMAIN rows \union {e} /\ rows'[e] = new
      /\ \A x \in DOMAIN rows \ {e} : rows'[x] = rows[x]
  BY <1>1, PutFits
<1>3. ASSUME NEW x \in DOMAIN rows \ {e}
      PROVE  RowFits(rows'[x], x, made') /\ RowSafe(rows'[x], reviewed, halfway)
  <2>1. RowFits(rows[x], x, made) /\ RowSafe(rows[x], reviewed, halfway)
    BY DEF RowsInv
  <2> QED BY <1>2, <2>1, FitsMore
<1> QED BY <1>2, <1>3 DEF RowsInv

(* The planned test t is written as the row new, and joins the run unless a   *)
(* second write has to come first.                                            *)
LEMMA WrittenKeeps ==
  ASSUME Inv, st.pc = "write", st.fresh = NoTest, st.todo # << >>, NEW t, t = Head(st.todo),
         NEW new, NEW later \in BOOLEAN, RowFits(new, t.slug, made'), made' \in Nat, made <= made', rows' = Put(new),
         st' = [st EXCEPT !.todo = Tail(@), !.fresh = IF later THEN new ELSE NoTest,
                          !.cases = IF later THEN @ ELSE Append(@, new)],
         UNCHANGED <<blueprint, ended, reviewed, halfway>>,
         later => t.category = "ai", ~later => RowSafe(new, reviewed, halfway)
  PROVE  Inv'
<1> USE DEF Inv
<1> DEFINE e == t.slug
           rest == Tail(st.todo)
<1>1. new.ext = e /\ new # NoTest
  BY RowIsNoNoTest DEF RowFits
<1>2. /\ DOMAIN rows' = DOMAIN rows \union {e} /\ rows'[e] = new
      /\ \A x \in DOMAIN rows \ {e} : rows'[x] = rows[x]
  BY <1>1, PutFits
<1>3. /\ Planned(st.todo) /\ t = st.todo[1] /\ 1 \in DOMAIN st.todo
      /\ IsList(rest) /\ \A i \in DOMAIN rest : i + 1 \in DOMAIN st.todo /\ rest[i] = st.todo[i + 1]
  BY TailFits DEF StageInv, Planned
<1>4. TestFits(t) /\ \A i \in DOMAIN rest : TestFits(rest[i]) /\ i \in Nat /\ i # 0
  <2>1. DOMAIN rest = 1..Len(rest) /\ Len(rest) \in Nat
    BY <1>3, ListFits
  <2> QED BY <1>3, <2>1 DEF Planned
<1>5. /\ st' = [x \in StFields |-> st'[x]] /\ st'.pc = "write" /\ st'.todo = rest /\ st'.results = st.results
      /\ st'.was = st.was /\ st'.fresh = (IF later THEN new ELSE NoTest)
      /\ st'.cases = (IF later THEN st.cases ELSE Append(st.cases, new))
  BY DEF StFields, StageInv
<1> HIDE DEF e, rest
<1>6. st.was = NoTest
  BY DEF WasInv
(* No other planned test of the planner is written under this slug. *)
<1>7. ASSUME NEW i \in DOMAIN rest, rest[i].category = "ai" \/ t.category = "ai"
      PROVE  rest[i].slug # e
  <2>1. SUFFICES ASSUME rest[i].slug = e PROVE FALSE
    OBVIOUS
  <2>2. rest[i].category = "ai" /\ t.category = "ai"
    BY <1>4, <1>7, <2>1 DEF TestFits, e
  <2>3. i + 1 = 1
    BY <1>3, <2>1, <2>2 DEF Planned, Told, e
  <2> QED BY <1>4, <2>3
(* An entry that was written under it before is none of a model. *)
<1>8. ASSUME NEW k \in DOMAIN st.cases
      PROVE  CaseSafe(st.cases[k], rows', reviewed, halfway)
  <2> DEFINE c == st.cases[k]
  <2>1. RowFits(c, c.ext, made) /\ CaseSafe(c, rows, reviewed, halfway)
    BY DEF CasesInv
  <2>2. /\ t.category = "ai" => c.ext # e
        /\ c.ext[1] # "explored"
    BY <1>3 DEF StageInv, e
  <2> HIDE DEF c
  <2>3. CASE c.ext = e
    <3>1. e[1] # "ai" /\ e[1] # "explored"
      BY <1>4, <2>2, <2>3 DEF TestFits, e
    <3>2. ~ModelWrote(c)
      BY <2>1, <2>3, <3>1, WriterBySlug
    <3> QED BY <3>2 DEF CaseSafe, c
  <2>4. CASE c.ext # e
    BY <1>2, <2>1, <2>4 DEF CaseSafe, c
  <2> QED BY <2>3, <2>4
<1>9. RowsInv'
  BY <1>1, <1>5, PutKeepsRows DEF e
<1>10. CasesInv'
  <2>1. CASE later
    BY <1>5, <1>8, <2>1, EntriesKeep
  <2>2. CASE ~later
    <3>1. CaseSafe(new, rows', reviewed, halfway) /\ RowFits(new, new.ext, made')
      BY <1>1, <1>2, <2>2, RowIsEntry DEF e
    <3> QED BY <1>5, <1>8, <2>2, <3>1, EntriesKeep
  <2> QED BY <2>1, <2>2
<1>11. FreshInv' /\ WasInv'
  <2>1. CASE later
    <3>1. e[1] = "ai"
      BY <1>4, <2>1 DEF TestFits, e
    <3>2. \A i \in DOMAIN rest : rest[i].slug # e
      BY <1>7, <2>1
    <3>3. RowFits(new, e, made')
      BY DEF e
    <3> QED BY <1>1, <1>2, <1>5, <1>6, <2>1, <3>1, <3>2, <3>3 DEF FreshInv, WasInv
  <2>2. CASE ~later
    BY <1>5, <1>6, <2>2 DEF FreshInv, WasInv
  <2> QED BY <2>1, <2>2
<1>12. StageInv'
  <2>1. Planned(rest)
    <3>1. Told(rest)
      <4>1. ASSUME NEW i \in DOMAIN rest, NEW j \in DOMAIN rest,
                   rest[i].category = "ai", rest[j].category = "ai", rest[i].slug = rest[j].slug
            PROVE  i = j
        <5>1. i + 1 = j + 1
          BY <1>3, <4>1 DEF Planned, Told
        <5> QED BY <1>4, <5>1
      <4> QED BY <4>1 DEF Told
    <3> QED BY <1>3, <1>4, <3>1 DEF Planned
  <2>2. \A k \in DOMAIN st'.cases : (k \in DOMAIN st.cases /\ st'.cases[k] = st.cases[k]) \/ (~later /\ st'.cases[k] = new)
    BY <1>5, AppendedFits DEF CasesInv
  <2>3. ASSUME NEW k \in DOMAIN st'.cases
        PROVE  /\ st'.cases[k].ext[1] # "explored"
               /\ \A i \in DOMAIN rest : rest[i].category = "ai" => st'.cases[k].ext # rest[i].slug
    <3>1. CASE k \in DOMAIN st.cases /\ st'.cases[k] = st.cases[k]
      BY <1>3, <3>1 DEF StageInv
    <3>2. CASE st'.cases[k] = new
      <4>1. e[1] # "explored"
        BY <1>4 DEF TestFits, e
      <4> QED BY <1>1, <1>7, <3>2, <4>1
    <3> QED BY <2>2, <3>1, <3>2
  <2>4. /\ st'.pc = "write" /\ Planned(st'.todo)
        /\ \A i \in DOMAIN st'.todo : \A k \in DOMAIN st'.cases :
             st'.todo[i].category = "ai" => st'.cases[k].ext # st'.todo[i].slug
    <3>1. st'.todo = rest /\ st'.pc = "write"
      BY <1>5
    <3> QED BY <2>1, <2>3, <3>1
  <2>5. st'.pc \notin {"idle", "codebase", "analyze", "plan"} /\ st'.pc # "plan"
    BY <2>4
  <2>6. st' = [x \in StFields |-> st'[x]]
    BY <1>5
  <2>7. \A k \in DOMAIN st'.cases : st'.cases[k].ext[1] # "explored"
    BY <2>3
  <2> QED BY <2>4, <2>5, <2>6, <2>7 DEF StageInv
<1>13. UnreviewedCannotFail'
  BY EndedStays
<1> QED BY <1>9, <1>10, <1>11, <1>12, <1>13

LEMMA UpsertKeeps ==
  ASSUME Inv, Upsert
  PROVE  Inv'
<1> USE DEF Inv
<1> DEFINE first == Head(st.todo)
           old   == Row(first.slug)
           isNew == old = NoTest
           new   == IF isNew THEN Insert(first.slug, first.category, first.steps)
                    ELSE IF old.steps = first.steps /\ old.goal = goal.pieces THEN old
                    ELSE Rewritten(old, first.steps, Quarantined(first, old))
           later == isNew /\ first.category = "ai"
<1>1. /\ st.pc = "write" /\ st.fresh = NoTest /\ st.todo # << >>
      /\ rows' = Put(new) /\ made' = (IF isNew THEN made + 1 ELSE made)
      /\ st' = [st EXCEPT !.todo = Tail(@), !.fresh = IF later THEN new ELSE NoTest,
                          !.cases = IF later THEN @ ELSE Append(@, new)]
      /\ UNCHANGED <<blueprint, ended, reviewed, halfway>>
  BY DEF Upsert
<1>2. TestFits(first)
  <2>1. IsList(st.todo) /\ \A i \in DOMAIN st.todo : TestFits(st.todo[i])
    BY <1>1 DEF StageInv, Planned
  <2>2. 1 \in DOMAIN st.todo /\ first = st.todo[1]
    BY <1>1, <2>1, TailFits
  <2> QED BY <2>1, <2>2
<1>3. made' \in Nat /\ made <= made' /\ made \in Nat
  <2>1. made \in Nat
    OBVIOUS
  <2>2. made' = made \/ made' = made + 1
    BY <1>1
  <2> QED BY <2>1, <2>2
<1>4. CASE isNew
  <2>1. new = Insert(first.slug, first.category, first.steps)
    BY <1>4
  <2>2. first.category = "ai" <=> first.slug[1] = "ai"
    BY <1>2 DEF TestFits
  <2>3. first.category = "explored" <=> first.slug[1] = "explored"
    BY <1>2 DEF TestFits
  <2> DEFINE slug == first.slug
             category == first.category
             ss == first.steps
  <2> HIDE DEF new, slug, category, ss
  <2>4. RowFits(new, slug, made + 1) /\ new.category = category
    BY <1>3, <2>1, <2>2, <2>3, InsertFits DEF slug, category, ss
  <2>5. RowFits(new, first.slug, made')
    BY <1>1, <1>4, <2>4 DEF slug
  <2>6. ~later => ~ModelWrote(new)
    BY <1>2, <1>4, <2>4 DEF TestFits, ModelWrote, category
  <2>7. ~later => RowSafe(new, reviewed, halfway)
    BY <2>6 DEF RowSafe
  <2>8. later \in BOOLEAN /\ (later => first.category = "ai")
    OBVIOUS
  <2> HIDE DEF first, later
  <2> QED BY <1>1, <1>3, <2>5, <2>7, <2>8, WrittenKeeps DEF first
<1>5. CASE ~isNew
  <2> DEFINE e == first.slug
  <2>1. e \in DOMAIN rows /\ old = rows[e]
    BY <1>5 DEF Row
  <2>2. RowFits(old, e, made) /\ RowSafe(old, reviewed, halfway)
    BY <1>1, <2>1 DEF RowsInv
  <2>3. RowFits(new, first.slug, made') /\ RowSafe(new, reviewed, halfway)
    <3>1. CASE old.steps = first.steps /\ old.goal = goal.pieces
      BY <1>1, <1>5, <2>2, <3>1
    <3>2. CASE ~(old.steps = first.steps /\ old.goal = goal.pieces)
      <4>1. Quarantined(first, old) \in BOOLEAN
        BY <2>2 DEF Quarantined, RowFits
      <4> DEFINE ss == first.steps
                 doubt == Quarantined(first, old)
      <4>2. new = Rewritten(old, ss, doubt)
        BY <1>5, <3>2
      <4>3. doubt <=> old.quarantined \/ first.category = "ai"
        BY DEF Quarantined
      <4> HIDE DEF old, new, ss, doubt, e
      <4>4. RowFits(new, e, made) /\ new.category = old.category /\ new.quarantined = doubt
        BY <2>2, <4>1, <4>2, RewrittenFits DEF doubt
      <4>5. ModelWrote(new) => first.category = "ai"
        <5>1. e[1] = "ai" => first.category = "ai"
          BY <1>2 DEF TestFits, e
        <5>2. e[1] # "explored"
          BY <1>2 DEF TestFits, e
        <5> QED BY <4>4, <5>1, <5>2, WriterBySlug
      <4>6. RowSafe(new, reviewed, halfway)
        BY <4>3, <4>4, <4>5 DEF RowSafe
      <4>7. made' = made
        BY <1>1, <1>5 DEF old
      <4> QED BY <4>4, <4>6, <4>7 DEF e
    <3> QED BY <3>1, <3>2
  <2>4. later = FALSE
    BY <1>5
  <2>5. later \in BOOLEAN /\ (later => first.category = "ai") /\ (~later => RowSafe(new, reviewed, halfway))
    BY <2>3, <2>4
  <2> HIDE DEF first, later, new
  <2> QED BY <1>1, <1>3, <2>3, <2>5, WrittenKeeps DEF first
<1> QED BY <1>4, <1>5

-----------------------------------------------------------------------------
(* The second write, and the explored test. *)

(* An entry of the run is as safe as it was when its row keeps its steps.     *)
LEMMA SameStepsKeep ==
  ASSUME NEW e \in DOMAIN rows, NEW new, new.ext = e, new.id = rows[e].id, new.steps = rows[e].steps,
         rows' = Put(new), NEW c, NEW V, NEW H, CaseSafe(c, rows, V, H)
  PROVE  CaseSafe(c, rows', V, H)
BY PutFits DEF CaseSafe

LEMMA DistrustKeeps ==
  ASSUME Inv, Distrust
  PROVE  Inv'
<1> USE DEF Inv
<1> DEFINE e   == st.fresh.ext
           row == rows[e]
           new == [row EXCEPT !.quarantined = TRUE]
<1>1. /\ st.fresh # NoTest /\ Stored(st.fresh) /\ rows' = Put(new)
      /\ st' = [st EXCEPT !.fresh = NoTest, !.cases = Append(@, new),
                          !.pc = IF st.pc = "explore" THEN "collect" ELSE @]
      /\ UNCHANGED <<made, blueprint, ended, reviewed, halfway>>
  BY DEF Distrust
<1>2. e \in DOMAIN rows /\ RowFits(row, e, made)
  BY <1>1 DEF Stored, RowsInv
<1>3. /\ st' = [x \in StFields |-> st'[x]] /\ st'.fresh = NoTest /\ st'.cases = Append(st.cases, new)
      /\ st'.todo = st.todo /\ st'.results = st.results /\ st'.was = st.was
      /\ st'.pc = (IF st.pc = "explore" THEN "collect" ELSE st.pc)
  BY <1>1 DEF StFields, StageInv
<1>4. \/ st.pc = "write" /\ e[1] = "ai" /\ \A i \in DOMAIN st.todo : st.todo[i].slug # e
      \/ st.pc = "explore" /\ e = Explored /\ st.was = NoTest
  BY <1>1 DEF FreshInv
<1> HIDE DEF row
<1> DEFINE doubt == TRUE
<1>a. new = Marked(row, doubt) /\ doubt \in BOOLEAN
  BY DEF Marked
<1> HIDE DEF e, new, doubt
<1>b. /\ RowFits(new, e, made) /\ new.id = row.id /\ new.steps = row.steps /\ new.ext = e
      /\ new.quarantined = doubt
  BY <1>a, <1>2, ChangedFits
<1>5. /\ RowFits(new, e, made) /\ new.id = row.id /\ new.steps = row.steps /\ new.ext = e
      /\ new.quarantined = TRUE
  BY <1>b DEF doubt
<1>6. RowSafe(new, reviewed, halfway)
  BY <1>5 DEF RowSafe
<1>7. RowsInv'
  BY <1>1, <1>5, <1>6, PutKeepsRows DEF e
<1>8. ASSUME NEW k \in DOMAIN st.cases
      PROVE  CaseSafe(st.cases[k], rows', reviewed, halfway)
  BY <1>1, <1>2, <1>5, SameStepsKeep DEF CasesInv, row
<1>9. CasesInv'
  <2>1. RowFits(new, new.ext, made') /\ CaseSafe(new, rows', reviewed, halfway)
    BY <1>1, <1>5 DEF CaseSafe
  <2> QED BY <1>1, <1>3, <1>8, <2>1, EntriesKeep
<1>10. FreshInv' /\ WasInv'
  BY <1>3, <1>4 DEF FreshInv, WasInv
<1>11. StageInv'
  <2>1. CASE st.pc = "explore"
    BY <1>3, <2>1 DEF StageInv
  <2>2. CASE st.pc # "explore"
    <3>1. /\ e[1] = "ai" /\ \A i \in DOMAIN st.todo : st.todo[i].slug # e
          /\ st.pc = "write"
      BY <1>4, <2>2
    <3>2. \A k \in DOMAIN st'.cases : (k \in DOMAIN st.cases /\ st'.cases[k] = st.cases[k]) \/ st'.cases[k] = new
      BY <1>3, AppendedFits DEF CasesInv
    <3>3. ASSUME NEW k \in DOMAIN st'.cases
          PROVE  /\ st'.cases[k].ext[1] # "explored"
                 /\ \A i \in DOMAIN st.todo : st.todo[i].category = "ai" => st'.cases[k].ext # st.todo[i].slug
      BY <1>5, <3>1, <3>2 DEF StageInv
    <3>4. Planned(st.todo)
      BY <3>1 DEF StageInv
    <3>5. st'.pc = "write"
      BY <1>3, <3>1
    <3> QED BY <1>3, <3>3, <3>4, <3>5 DEF StageInv
  <2> QED BY <2>1, <2>2
<1>12. UnreviewedCannotFail'
  BY <1>1, EndedStays
<1> QED BY <1>1, <1>7, <1>9, <1>10, <1>11, <1>12

LEMMA RowIsGoneKeeps ==
  ASSUME Inv, RowIsGone
  PROVE  Inv'
<1> USE DEF Inv
<1>1. CASE st.pc = "write" /\ st.fresh # NoTest /\ ~Stored(st.fresh) /\ EndsAs(Error)
           /\ UNCHANGED <<blueprint, rows, made, reviewed, halfway>>
  <2>1. st.fresh.ext \notin DOMAIN rows
    BY <1>1 DEF FreshInv, Stored
  <2> QED BY <1>1, <2>1, ErrorKeeps
<1>2. CASE /\ st.pc = "explore" /\ (IF st.fresh # NoTest THEN ~Stored(st.fresh) ELSE st.was # NoTest /\ ~Stored(st.was))
           /\ st' = [st EXCEPT !.pc = "collect", !.was = NoTest, !.fresh = NoTest]
           /\ UNCHANGED <<blueprint, rows, made, ended, reviewed, halfway>>
  <2>1. st.fresh # NoTest => st.fresh.ext \notin DOMAIN rows
    BY <1>2 DEF FreshInv, Stored
  <2>2. /\ st' = [x \in StFields |-> st'[x]] /\ st'.fresh = NoTest /\ st'.was = NoTest /\ st'.pc = "collect"
        /\ st'.cases = st.cases /\ st'.results = st.results
    BY <1>2 DEF StFields, StageInv
  <2>3. RowsInv'
    BY <1>2, <2>1, RowsStay
  <2>4. StageInv' /\ FreshInv' /\ WasInv'
    BY <2>2 DEF StageInv, FreshInv, WasInv
  <2>5. CasesInv'
    BY <1>2, <2>2 DEF CasesInv
  <2>6. UnreviewedCannotFail'
    BY <1>2, EndedStays
  <2> QED BY <1>2, <2>3, <2>4, <2>5, <2>6
<1> QED BY <1>1, <1>2 DEF RowIsGone

(* The plan ends: the run goes on to its last entries, one more or none.      *)
LEMMA CollectNext ==
  ASSUME Inv, st' = [x \in StFields |-> st'[x]], st'.pc = "collect", st'.fresh = NoTest, st'.was = NoTest,
         st'.results = st.results, st.fresh = NoTest, UNCHANGED <<blueprint, rows, made, ended, reviewed, halfway>>,
         \/ st'.cases = st.cases
         \/ \E c : /\ st'.cases = Append(st.cases, c)
                   /\ RowFits(c, c.ext, made) /\ CaseSafe(c, rows, reviewed, halfway)
  PROVE  Inv'
<1> USE DEF Inv
<1>1. RowsInv'
  BY RowsStay
<1>2. StageInv' /\ FreshInv' /\ WasInv'
  BY DEF StageInv, FreshInv, WasInv
<1>3. CasesInv'
  <2>1. \A k \in DOMAIN st.cases : CaseSafe(st.cases[k], rows', reviewed, halfway)
    BY DEF CasesInv
  <2>2. made' \in Nat /\ made <= made'
    OBVIOUS
  <2> QED BY <2>1, <2>2, EntriesKeep
<1>4. UnreviewedCannotFail'
  BY EndedStays
<1> QED BY <1>1, <1>2, <1>3, <1>4

(* A row that was read while no test waits for its second write. *)
LEMMA ReadRow ==
  ASSUME Inv, st.fresh = NoTest, NEW e, Row(e) # NoTest
  PROVE  /\ e \in DOMAIN rows /\ RowFits(Row(e), e, made) /\ Row(e).ext = e
         /\ CaseSafe(Row(e), rows, reviewed, halfway)
<1>1. e \in DOMAIN rows /\ Row(e) = rows[e]
  BY DEF Row
<1>2. RowFits(Row(e), e, made) /\ RowSafe(Row(e), reviewed, halfway)
  BY <1>1 DEF Inv, RowsInv
<1> QED BY <1>1, <1>2, RowIsEntry

LEMMA ReplaysKeeps ==
  ASSUME Inv, Replays
  PROVE  Inv'
<1>1. /\ st.pc = "write" /\ st.fresh = NoTest /\ ~needs_exploring(Row(Explored))
      /\ st' = [st EXCEPT !.pc = "collect", !.cases = Append(@, Row(Explored))]
      /\ UNCHANGED <<blueprint, rows, made, ended, reviewed, halfway>>
  BY DEF Replays
<1>2. Row(Explored) # NoTest
  BY <1>1 DEF needs_exploring
<1> DEFINE c == Row(Explored)
<1>3. RowFits(c, c.ext, made) /\ CaseSafe(c, rows, reviewed, halfway)
  BY <1>1, <1>2, ReadRow
<1>a. st' = [st EXCEPT !.pc = "collect", !.cases = Append(@, c)]
  BY <1>1
<1> HIDE DEF c
<1>4. st.was = NoTest /\ st = [x \in StFields |-> st[x]]
  BY <1>1 DEF Inv, WasInv, StageInv
<1>5. /\ st' = [x \in StFields |-> st'[x]] /\ st'.fresh = NoTest /\ st'.was = NoTest /\ st'.pc = "collect"
      /\ st'.cases = Append(st.cases, c) /\ st'.results = st.results
  BY <1>1, <1>a, <1>4 DEF StFields
<1> QED BY <1>1, <1>3, <1>5, CollectNext

LEMMA ExploreBeginsKeeps ==
  ASSUME Inv, ExploreBegins
  PROVE  Inv'
<1>1. /\ st.pc = "write" /\ st.fresh = NoTest
      /\ UNCHANGED <<blueprint, rows, made, ended, reviewed, halfway>>
      /\ \/ st' = [st EXCEPT !.pc = "explore", !.was = Row(Explored)]
         \/ st' = [st EXCEPT !.pc = "collect"]
  BY DEF ExploreBegins
<1>2. st.was = NoTest /\ st = [x \in StFields |-> st[x]]
  BY <1>1 DEF Inv, WasInv, StageInv
<1>3. CASE st' = [st EXCEPT !.pc = "collect"]
  <2>1. /\ st' = [x \in StFields |-> st'[x]] /\ st'.fresh = NoTest /\ st'.was = NoTest /\ st'.pc = "collect"
        /\ st'.cases = st.cases /\ st'.results = st.results
    BY <1>1, <1>2, <1>3 DEF StFields
  <2> QED BY <1>1, <2>1, CollectNext
<1>4. CASE st' = [st EXCEPT !.pc = "explore", !.was = Row(Explored)]
  <2> USE DEF Inv
  <2> DEFINE c == Row(Explored)
  <2>1. c # NoTest => RowFits(c, Explored, made) /\ CaseSafe(c, rows, reviewed, halfway)
    BY <1>1, ReadRow
  <2>a. st' = [st EXCEPT !.pc = "explore", !.was = c]
    BY <1>4
  <2> HIDE DEF c
  <2>2. /\ st' = [x \in StFields |-> st'[x]] /\ st'.fresh = NoTest /\ st'.was = c /\ st'.pc = "explore"
        /\ st'.cases = st.cases /\ st'.results = st.results
    BY <1>1, <1>2, <2>a DEF StFields
  <2>3. RowsInv'
    BY <1>1, <2>2, RowsStay
  <2>4. StageInv'
    BY <1>1, <2>2 DEF StageInv
  <2>5. FreshInv' /\ WasInv'
    BY <1>1, <2>1, <2>2 DEF FreshInv, WasInv
  <2>6. CasesInv'
    BY <1>1, <2>2 DEF CasesInv
  <2>7. UnreviewedCannotFail'
    BY <1>1, EndedStays
  <2> QED BY <1>1, <2>3, <2>4, <2>5, <2>6, <2>7
<1> QED BY <1>1, <1>3, <1>4

LEMMA ExploreFailsKeeps ==
  ASSUME Inv, ExploreFails
  PROVE  Inv'
<1> DEFINE c == st.was
<1>1. /\ st.pc = "explore" /\ st.fresh = NoTest
      /\ UNCHANGED <<blueprint, rows, made, ended, reviewed, halfway>>
      /\ st' = [st EXCEPT !.pc = "collect", !.was = NoTest,
                          !.cases = IF st.was = NoTest THEN @ ELSE Append(@, st.was)]
  BY DEF ExploreFails
<1>2. st = [x \in StFields |-> st[x]]
  BY DEF Inv, StageInv
<1>3. /\ st' = [x \in StFields |-> st'[x]] /\ st'.fresh = NoTest /\ st'.was = NoTest /\ st'.pc = "collect"
      /\ st'.cases = (IF c = NoTest THEN st.cases ELSE Append(st.cases, c)) /\ st'.results = st.results
  BY <1>1, <1>2 DEF StFields
<1>4. c # NoTest => RowFits(c, c.ext, made) /\ CaseSafe(c, rows, reviewed, halfway)
  BY DEF Inv, WasInv, RowFits
<1> HIDE DEF c
<1>5. \/ st'.cases = st.cases
      \/ \E x : /\ st'.cases = Append(st.cases, x)
                /\ RowFits(x, x.ext, made) /\ CaseSafe(x, rows, reviewed, halfway)
  BY <1>3, <1>4
<1> QED BY <1>1, <1>3, <1>5, CollectNext

LEMMA RecordKeeps ==
  ASSUME Inv, Record
  PROVE  Inv'
<1> USE DEF Inv
<1>1. PICK ss \in Recordings :
        LET new == IF st.was = NoTest THEN Insert(Explored, "explored", ss) ELSE Rewritten(Row(Explored), ss, TRUE)
        IN /\ st.was # NoTest => Stored(st.was)
           /\ rows' = Put(new)
           /\ made' = IF st.was = NoTest THEN made + 1 ELSE made
           /\ st' = IF st.was = NoTest THEN [st EXCEPT !.fresh = new]
                    ELSE [st EXCEPT !.pc = "collect", !.was = NoTest, !.cases = Append(@, new)]
  BY DEF Record
<1>2. st.pc = "explore" /\ st.fresh = NoTest /\ UNCHANGED <<blueprint, ended, reviewed, halfway>>
  BY DEF Record
<1>3. Explored[1] = "explored" /\ st = [x \in StFields |-> st[x]]
  BY DEF Explored, StageInv
(* The entries of the run are of other tests. *)
<1>4. ASSUME NEW new, rows' = Put(new), new.ext = Explored
      PROVE  \A k \in DOMAIN st.cases : CaseSafe(st.cases[k], rows', reviewed, halfway)
  <2>1. ASSUME NEW k \in DOMAIN st.cases
        PROVE  CaseSafe(st.cases[k], rows', reviewed, halfway)
    <3>1. st.cases[k].ext # Explored /\ CaseSafe(st.cases[k], rows, reviewed, halfway)
      BY <1>2, <1>3 DEF StageInv, CasesInv
    <3>2. DOMAIN rows' = DOMAIN rows \union {Explored} /\ \A x \in DOMAIN rows \ {Explored} : rows'[x] = rows[x]
      BY <1>4, PutFits
    <3> QED BY <3>1, <3>2 DEF CaseSafe
  <2> QED BY <2>1
<1>5. UnreviewedCannotFail'
  BY <1>2, EndedStays
<1>6. CASE st.was = NoTest
  <2> DEFINE new == Insert(Explored, "explored", ss)
  <2>1. rows' = Put(new) /\ made' = made + 1 /\ st' = [st EXCEPT !.fresh = new]
    BY <1>1, <1>6
  <2> DEFINE category == "explored"
             ext == Explored
  <2>2. (category = "ai" <=> ext[1] = "ai") /\ (category = "explored" <=> ext[1] = "explored")
    BY <1>3
  <2>3. new = Insert(ext, category, ss)
    OBVIOUS
  <2> HIDE DEF new, category, ext
  <2>4. RowFits(new, ext, made + 1) /\ new.ext = ext
    BY <2>2, <2>3, InsertFits
  <2>5. RowFits(new, Explored, made') /\ new.ext = Explored
    BY <2>1, <2>4 DEF ext
  <2>6. /\ st' = [x \in StFields |-> st'[x]] /\ st'.fresh = new /\ st'.pc = "explore" /\ st'.was = NoTest
        /\ st'.cases = st.cases /\ st'.results = st.results
    BY <1>2, <1>3, <1>6, <2>1 DEF StFields
  <2>7. made' \in Nat /\ made <= made' /\ new # NoTest
    BY <2>1, <2>5, RowIsNoNoTest
  <2>8. RowsInv'
    BY <1>2, <2>1, <2>5, <2>6, <2>7, PutKeepsRows
  <2>9. CasesInv'
    BY <1>2, <1>4, <2>1, <2>5, <2>6, <2>7, EntriesKeep
  <2>10. StageInv'
    BY <1>2, <2>6 DEF StageInv
  <2>11. Explored \in DOMAIN rows' /\ rows'[Explored] = new
    BY <2>1, <2>5, PutFits
  <2>12. FreshInv' /\ WasInv'
    BY <2>5, <2>6, <2>11 DEF FreshInv, WasInv
  <2> QED BY <1>2, <1>5, <2>7, <2>8, <2>9, <2>10, <2>12
<1>7. CASE st.was # NoTest
  <2> DEFINE old == Row(Explored)
             doubt == TRUE
             new == Rewritten(old, ss, doubt)
  <2>1. /\ Stored(st.was) /\ rows' = Put(new) /\ made' = made
        /\ st' = [st EXCEPT !.pc = "collect", !.was = NoTest, !.cases = Append(@, new)]
    BY <1>1, <1>7
  <2>2. old = rows[Explored] /\ Explored \in DOMAIN rows
    BY <1>7, <2>1 DEF Stored, WasInv, RowFits, Row
  <2>3. RowFits(old, Explored, made) /\ doubt \in BOOLEAN
    BY <2>2 DEF RowsInv
  <2>a. new = Rewritten(old, ss, doubt)
    OBVIOUS
  <2> HIDE DEF old, doubt, new
  <2>4. RowFits(new, Explored, made) /\ new.ext = Explored /\ new.quarantined = doubt
    BY <2>3, <2>a, RewrittenFits
  <2>5. RowSafe(new, reviewed, halfway) /\ CaseSafe(new, rows', reviewed, halfway)
    BY <2>4 DEF RowSafe, CaseSafe, doubt
  <2>6. /\ st' = [x \in StFields |-> st'[x]] /\ st'.fresh = NoTest /\ st'.pc = "collect" /\ st'.was = NoTest
        /\ st'.cases = Append(st.cases, new) /\ st'.results = st.results
    BY <1>2, <1>3, <2>1 DEF StFields
  <2>7. RowsInv'
    BY <1>2, <2>1, <2>4, <2>5, PutKeepsRows
  <2>8. CasesInv'
    BY <1>2, <1>4, <2>1, <2>4, <2>5, <2>6, EntriesKeep
  <2>9. StageInv' /\ FreshInv' /\ WasInv'
    BY <2>6 DEF StageInv, FreshInv, WasInv
  <2> QED BY <1>2, <1>5, <2>1, <2>7, <2>8, <2>9
<1> QED BY <1>6, <1>7

-----------------------------------------------------------------------------
(* The user's own tests join, and the tests are executed and reported. *)

LEMMA SavedFits ==
  ASSUME RowsInv, made \in Nat
  PROVE  IsList(Saved) /\ \A k \in DOMAIN Saved : \E e \in DOMAIN rows : Saved[k] = rows[e]
<1> DEFINE I == SavedIds
<1>1. \A i \in I : \E e \in DOMAIN rows : rows[e].id = i
  BY DEF SavedIds
<1>2. I \subseteq 1..made
  BY DEF SavedIds, RowsInv, RowFits
<1> HIDE DEF I
<1>a. IsFiniteSet(1..made)
  BY FS_Interval
<1>b. I \in SUBSET (1..made)
  BY <1>2
<1>c. IsFiniteSet(I)
  BY <1>a, <1>b, FS_Subset, Zenon
<1>3. I \subseteq Nat /\ IsFiniteSet(I)
  BY <1>2, <1>c
<1>4. Cardinality(I) \in Nat
  BY <1>3, FS_CardinalityType
<1> DEFINE n == Cardinality(I)
           at(k) == CHOOSE e \in DOMAIN rows : rows[e].id = Nth(I, k)
<1>5. Saved = [k \in 1..n |-> rows[at(k)]]
  BY DEF Saved, I
<1>6. ASSUME NEW k \in 1..n PROVE at(k) \in DOMAIN rows
  <2>1. Nth(I, k) \in I
    BY <1>3, NthFits
  <2> QED BY <1>1, <2>1
<1> HIDE DEF at, n
<1>7. DOMAIN Saved = 1..n /\ n \in Nat /\ Saved = [k \in 1..n |-> Saved[k]]
  BY <1>4, <1>5 DEF n
<1>8. IsList(Saved)
  BY <1>7, ListOf
<1>9. \A k \in DOMAIN Saved : Saved[k] = rows[at(k)]
  BY <1>5, <1>7
<1> QED BY <1>6, <1>7, <1>8, <1>9

LEMMA CollectKeeps ==
  ASSUME Inv, Collect
  PROVE  Inv'
<1> USE DEF Inv
<1> DEFINE cases  == st.cases \o Saved
           signIn == {i \in DOMAIN cases : _is_sign_in(cases[i])}
           first  == Picked(cases, signIn)
           rest   == Picked(cases, DOMAIN cases \ signIn)
           none   == goal.pieces # << >> /\ \A i \in DOMAIN cases : ~NamedLikeGoal(cases[i])
           order  == IF goal.sign_in_first THEN first \o rest ELSE cases
           parts  == IF none THEN {} ELSE st.page.untested
<1>1. /\ st.pc = "collect" /\ UNCHANGED <<blueprint, rows, made, ended, reviewed, halfway>>
      /\ st' = [st EXCEPT !.pc = "execute", !.cases = order, !.untested = none, !.parts = parts]
  BY DEF Collect
<1>2. st.fresh = NoTest /\ st.was = NoTest
  BY <1>1, NoFresh
<1> DEFINE Good(c) == RowFits(c, c.ext, made) /\ CaseSafe(c, rows, reviewed, halfway)
<1>3. IsList(Saved) /\ \A k \in DOMAIN Saved : Good(Saved[k])
  <2>1. IsList(Saved) /\ \A k \in DOMAIN Saved : \E e \in DOMAIN rows : Saved[k] = rows[e]
    BY SavedFits
  <2>2. ASSUME NEW e \in DOMAIN rows PROVE Good(rows[e])
    <3>1. RowFits(rows[e], e, made) /\ RowSafe(rows[e], reviewed, halfway)
      BY <1>2 DEF RowsInv
    <3> QED BY <3>1, RowIsEntry
  <2> HIDE DEF Good
  <2> QED BY <2>1, <2>2
<1>4. IsList(st.cases) /\ \A k \in DOMAIN st.cases : Good(st.cases[k])
  BY DEF CasesInv
<1> HIDE DEF Good
<1>5. IsList(cases) /\ \A k \in DOMAIN cases : Good(cases[k])
  <2>1. /\ IsList(cases)
        /\ \A i \in DOMAIN cases :
             \/ i \in DOMAIN st.cases /\ cases[i] = st.cases[i]
             \/ i - Len(st.cases) \in DOMAIN Saved /\ cases[i] = Saved[i - Len(st.cases)]
    <3> DEFINE a == st.cases
               b == Saved
    <3>1. IsList(a) /\ IsList(b) /\ cases = a \o b
      BY <1>3, <1>4
    <3> HIDE DEF a, b, cases
    <3>2. /\ IsList(cases)
          /\ \A i \in DOMAIN cases :
               \/ i \in DOMAIN a /\ cases[i] = a[i]
               \/ i - Len(a) \in DOMAIN b /\ cases[i] = b[i - Len(a)]
      BY <3>1, JoinedFits
    <3> QED BY <3>2 DEF a, b
  <2> QED BY <1>3, <1>4, <2>1
<1> HIDE DEF cases
<1>6. ASSUME NEW I, I \subseteq DOMAIN cases
      PROVE  IsList(Picked(cases, I)) /\ \A k \in DOMAIN Picked(cases, I) : Good(Picked(cases, I)[k])
  <2> DEFINE p == Picked(cases, I)
  <2>1. IsList(p) /\ \A k \in DOMAIN p : Nth(I, k) \in I /\ p[k] = cases[Nth(I, k)]
    BY <1>5, <1>6, PickedFits
  <2> HIDE DEF p
  <2>2. IsList(p) /\ \A k \in DOMAIN p : Good(p[k])
    BY <1>5, <1>6, <2>1
  <2> QED BY <2>2 DEF p
<1>7. signIn \subseteq DOMAIN cases /\ DOMAIN cases \ signIn \subseteq DOMAIN cases
  OBVIOUS
<1>8. /\ IsList(first) /\ \A k \in DOMAIN first : Good(first[k])
      /\ IsList(rest) /\ \A k \in DOMAIN rest : Good(rest[k])
  BY <1>6, <1>7
<1> HIDE DEF first, rest, none, parts
<1>9. IsList(order) /\ \A k \in DOMAIN order : Good(order[k])
  <2> DEFINE both == first \o rest
  <2>1. /\ IsList(both)
        /\ \A i \in DOMAIN both :
             \/ i \in DOMAIN first /\ both[i] = first[i]
             \/ i - Len(first) \in DOMAIN rest /\ both[i] = rest[i - Len(first)]
    BY <1>8, JoinedFits
  <2> HIDE DEF both
  <2>2. IsList(both) /\ \A k \in DOMAIN both : Good(both[k])
    BY <1>8, <2>1
  <2> QED BY <1>5, <2>2 DEF both
<1> HIDE DEF order
<1>10. /\ st' = [x \in StFields |-> st'[x]] /\ st'.pc = "execute" /\ st'.cases = order /\ st'.results = st.results
       /\ st'.was = NoTest /\ st'.fresh = NoTest
  <2>1. st = [x \in StFields |-> st[x]]
    BY DEF StageInv
  <2> QED BY <1>1, <1>2, <2>1 DEF StFields
<1>11. RowsInv'
  BY <1>1, <1>2, <1>10, RowsStay
<1>12. StageInv' /\ FreshInv' /\ WasInv'
  BY <1>10 DEF StageInv, FreshInv, WasInv
<1>13. CasesInv'
  BY <1>1, <1>9, <1>10 DEF CasesInv, Good
<1>14. UnreviewedCannotFail'
  BY <1>1, EndedStays
<1> QED BY <1>1, <1>11, <1>12, <1>13, <1>14

LEMMA ExecuteKeeps ==
  ASSUME Inv, ExecuteTest
  PROVE  Inv'
<1> USE DEF Inv
<1> DEFINE case == Head(st.cases)
           row  == rows[case.ext]
           rest == Tail(st.cases)
<1>1. PICK status \in Outcomes :
        st' = [st EXCEPT !.cases = Tail(@), !.results = Append(@, Result(case, row, status)),
                         !.session = @ \/ KeepsSession(case, status)]
  BY DEF ExecuteTest
<1>2. /\ st.pc = "execute" /\ st.cases # << >> /\ Stored(case)
      /\ UNCHANGED <<blueprint, rows, made, ended, reviewed, halfway>>
  BY DEF ExecuteTest
<1> DEFINE result  == Result(case, row, status)
           session == st.session \/ KeepsSession(case, status)
<1>3. st.fresh = NoTest /\ st.was = NoTest
  BY <1>2, NoFresh
<1>4. /\ IsList(rest) /\ \A i \in DOMAIN rest : i + 1 \in DOMAIN st.cases /\ rest[i] = st.cases[i + 1]
      /\ 1 \in DOMAIN st.cases /\ case = st.cases[1]
  BY <1>2, TailFits DEF CasesInv
<1>5. CaseSafe(case, rows, reviewed, halfway)
  BY <1>4 DEF CasesInv
<1>6. /\ result.id = case.id /\ result.category = case.category /\ result.quarantined = case.quarantined
      /\ result.steps = row.steps
  BY DEF Result
<1>7. ResultSafe(result, reviewed, halfway)
  BY <1>2, <1>5, <1>6 DEF CaseSafe, ResultSafe, ModelWrote, Stored
<1>a. st' = [st EXCEPT !.cases = rest, !.results = Append(st.results, result), !.session = session]
  BY <1>1
<1> HIDE DEF result, session, rest, case, row
<1>8. /\ st' = [x \in StFields |-> st'[x]] /\ st'.pc = "execute" /\ st'.cases = rest
      /\ st'.results = Append(st.results, result) /\ st'.was = NoTest /\ st'.fresh = NoTest
  <2>1. st = [x \in StFields |-> st[x]]
    BY DEF StageInv
  <2> QED BY <1>2, <1>3, <1>a, <2>1 DEF StFields
<1>9. /\ IsList(st'.results)
      /\ \A k \in DOMAIN st'.results : (k \in DOMAIN st.results /\ st'.results[k] = st.results[k]) \/ st'.results[k] = result
  BY <1>8, AppendedFits DEF CasesInv
<1>10. \A k \in DOMAIN st'.results : ResultSafe(st'.results[k], reviewed, halfway)
  BY <1>7, <1>9 DEF CasesInv
<1>11. ASSUME NEW k \in DOMAIN rest
       PROVE  RowFits(rest[k], rest[k].ext, made) /\ CaseSafe(rest[k], rows, reviewed, halfway)
  BY <1>4 DEF CasesInv
<1>12. CasesInv'
  BY <1>2, <1>4, <1>8, <1>9, <1>10, <1>11 DEF CasesInv
<1>13. RowsInv'
  BY <1>2, <1>3, <1>8, RowsStay
<1>14. StageInv' /\ FreshInv' /\ WasInv'
  BY <1>8 DEF StageInv, FreshInv, WasInv
<1>15. UnreviewedCannotFail'
  BY <1>2, EndedStays
<1> QED BY <1>2, <1>12, <1>13, <1>14, <1>15

LEMMA ReportKeeps ==
  ASSUME Inv, Report
  PROVE  Inv'
<1> USE DEF Inv
<1>1. /\ st.pc = "execute" /\ st' = Idle /\ UNCHANGED <<blueprint, rows, made, reviewed, halfway>>
      /\ ended'.tests = st.results /\ (ended'.status = "failed" => CountedFailures # {})
  BY DEF Report, EndsAs
<1>2. st.fresh = NoTest
  BY <1>1, NoFresh
<1>3. StageInv' /\ FreshInv' /\ WasInv' /\ CasesInv'
  BY <1>1, IdleFacts, EarlyStage
<1>4. RowsInv'
  BY <1>1, <1>2, RowsStay
<1>5. UnreviewedCannotFail'
  <2>1. SUFFICES ASSUME ended'.status = "failed"
                 PROVE  \E r \in Range(ended'.tests) :
                          /\ r.status = "FAILED"
                          /\ (ModelWrote(r) => <<r.id, r.steps>> \in reviewed \/ r.id \in halfway)
    BY <1>1 DEF UnreviewedCannotFail
  <2>2. PICK i \in DOMAIN st.results : st.results[i].status = "FAILED" /\ ~st.results[i].quarantined
    BY <1>1, <2>1 DEF CountedFailures
  <2> DEFINE r == st.results[i]
  <2>3. ResultSafe(r, reviewed, halfway)
    BY DEF CasesInv
  <2>4. r \in Range(ended'.tests)
    BY <1>1 DEF Range
  <2>5. r.status = "FAILED" /\ (ModelWrote(r) => <<r.id, r.steps>> \in reviewed \/ r.id \in halfway)
    BY <2>2, <2>3 DEF ResultSafe, Safe
  <2> HIDE DEF r
  <2> QED BY <2>4, <2>5
<1> QED BY <1>1, <1>3, <1>4, <1>5

LEMMA StopsKeeps ==
  ASSUME Inv, Stops \/ TestIsGone
  PROVE  Inv'
<1>1. CASE Stops
  <2>1. /\ halfway \subseteq halfway' /\ (st.fresh # NoTest => st.fresh.id \in halfway')
        /\ EndsAs(Error) /\ UNCHANGED <<made, blueprint, rows, reviewed>>
    BY <1>1 DEF Stops
  <2> QED BY <2>1, ErrorKeeps
<1>2. CASE TestIsGone
  <2>1. EndsAs(Error) /\ UNCHANGED <<made, blueprint, rows, reviewed, halfway>> /\ st.pc = "execute"
    BY <1>2 DEF TestIsGone
  <2>2. st.fresh = NoTest
    BY <2>1, NoFresh
  <2> QED BY <2>1, <2>2, ErrorKeeps
<1> QED BY <1>1, <1>2

-----------------------------------------------------------------------------
(* The user. *)

LEMMA TrustKeeps ==
  ASSUME Inv, Trust \/ Quarantine \/ Edit
  PROVE  Inv'
<1> USE DEF Inv
<1>0. made \in Nat /\ made <= made /\ UNCHANGED <<st, ended, blueprint, halfway, made>> /\ reviewed \subseteq reviewed'
  <2>1. UNCHANGED <<st, ended, blueprint, halfway, made>>
    BY DEF Trust, Quarantine, Edit
  <2>2. CASE Trust
    BY <2>1, <2>2 DEF Trust
  <2>3. CASE Quarantine
    BY <2>1, <2>3 DEF Quarantine
  <2>4. CASE Edit
    BY <2>1, <2>4 DEF Edit
  <2> QED BY <2>2, <2>3, <2>4
(* In each case one row changes. *)
<1>1. \E e \in DOMAIN rows : \E new :
        /\ rows' = Put(new) /\ RowFits(new, e, made) /\ new.id = rows[e].id
        /\ RowSafe(new, reviewed', halfway) \/ (st.fresh # NoTest /\ e = st.fresh.ext)
        /\ new.steps = rows[e].steps \/ <<new.id, new.steps>> \in reviewed'
  <2>1. CASE Trust
    <3>1. PICK e \in DOMAIN rows :
            /\ rows' = Put(Marked(rows[e], FALSE)) /\ reviewed' = reviewed \union {<<rows[e].id, rows[e].steps>>}
      BY <2>1 DEF Trust, Marked
    <3>2. RowFits(rows[e], e, made)
      BY DEF RowsInv
    <3> DEFINE doubt == FALSE
               row == rows[e]
               new == Marked(row, doubt)
    <3>3. doubt \in BOOLEAN /\ rows' = Put(new)
      BY <3>1
    <3> HIDE DEF doubt, row
    <3>4. RowFits(new, e, made) /\ new.id = row.id /\ new.steps = row.steps
      BY <3>2, <3>3, ChangedFits DEF row
    <3> HIDE DEF new
    <3>5. <<new.id, new.steps>> \in reviewed'
      BY <3>1, <3>4 DEF row
    <3> QED BY <3>3, <3>4, <3>5 DEF RowSafe, Safe, row
  <2>2. CASE Quarantine
    <3>1. PICK e \in DOMAIN rows : rows' = Put(Marked(rows[e], TRUE))
      BY <2>2 DEF Quarantine, Marked
    <3>2. RowFits(rows[e], e, made)
      BY DEF RowsInv
    <3> DEFINE doubt == TRUE
               row == rows[e]
               new == Marked(row, doubt)
    <3>3. doubt \in BOOLEAN /\ rows' = Put(new)
      BY <3>1
    <3> HIDE DEF doubt, row
    <3>4. RowFits(new, e, made) /\ new.id = row.id /\ new.steps = row.steps /\ new.quarantined = doubt
      BY <3>2, <3>3, ChangedFits DEF row
    <3> HIDE DEF new
    <3> QED BY <3>3, <3>4 DEF RowSafe, doubt, row
  <2>3. CASE Edit
    <3>1. PICK e \in DOMAIN rows, ss \in UserSteps :
            rows' = Put(WithSteps(rows[e], ss)) /\ reviewed' = reviewed \union {<<rows[e].id, ss>>}
      BY <2>3 DEF Edit, WithSteps
    <3>2. RowFits(rows[e], e, made)
      BY DEF RowsInv
    <3> DEFINE row == rows[e]
               new == WithSteps(row, ss)
    <3>3. rows' = Put(new)
      BY <3>1
    <3> HIDE DEF row
    <3>4. RowFits(new, e, made) /\ new.id = row.id /\ new.steps = ss
      BY <3>2, EditedFits DEF row
    <3> HIDE DEF new
    <3>5. <<new.id, new.steps>> \in reviewed'
      BY <3>1, <3>4 DEF row
    <3> QED BY <3>3, <3>4, <3>5 DEF RowSafe, Safe, row
  <2> QED BY <2>1, <2>2, <2>3
<1>2. PICK e \in DOMAIN rows : \E new :
        /\ rows' = Put(new) /\ RowFits(new, e, made) /\ new.id = rows[e].id
        /\ RowSafe(new, reviewed', halfway) \/ (st.fresh # NoTest /\ e = st.fresh.ext)
        /\ new.steps = rows[e].steps \/ <<new.id, new.steps>> \in reviewed'
  BY <1>1
<1>3. PICK new :
        /\ rows' = Put(new) /\ RowFits(new, e, made) /\ new.id = rows[e].id
        /\ RowSafe(new, reviewed', halfway) \/ (st.fresh # NoTest /\ e = st.fresh.ext)
        /\ new.steps = rows[e].steps \/ <<new.id, new.steps>> \in reviewed'
  BY <1>2
<1>4. /\ DOMAIN rows' = DOMAIN rows /\ rows'[e] = new
      /\ \A x \in DOMAIN rows \ {e} : rows'[x] = rows[x]
  <2>1. new.ext = e
    BY <1>3 DEF RowFits
  <2>2. DOMAIN rows \union {e} = DOMAIN rows
    OBVIOUS
  <2> QED BY <1>3, <2>1, <2>2, PutFits
<1>5. ASSUME NEW x \in DOMAIN rows'
      PROVE  /\ RowFits(rows'[x], x, made')
             /\ RowSafe(rows'[x], reviewed', halfway) \/ (st.fresh # NoTest /\ x = st.fresh.ext)
             /\ x \in DOMAIN rows /\ rows'[x].id = rows[x].id
             /\ rows'[x].steps = rows[x].steps \/ <<rows'[x].id, rows'[x].steps>> \in reviewed'
  <2>1. CASE x = e
    BY <1>0, <1>3, <1>4, <2>1
  <2>2. CASE x # e
    <3>1. /\ RowFits(rows[x], x, made)
          /\ RowSafe(rows[x], reviewed, halfway) \/ (st.fresh # NoTest /\ x = st.fresh.ext)
      BY <1>4, <2>2 DEF RowsInv
    <3> QED BY <1>0, <1>4, <2>2, <3>1, SafeMore
  <2> QED BY <2>1, <2>2
<1> QED BY <1>0, <1>5, UserKeeps

LEMMA DeleteKeeps ==
  ASSUME Inv, Delete
  PROVE  Inv'
<1> USE DEF Inv
<1>1. PICK e \in DOMAIN rows : rows' = [x \in DOMAIN rows \ {e} |-> rows[x]]
  BY DEF Delete
<1>2. UNCHANGED <<st, ended, blueprint, halfway, made, reviewed>>
  BY DEF Delete
<1>3. ASSUME NEW x \in DOMAIN rows'
      PROVE  x \in DOMAIN rows /\ rows'[x] = rows[x]
  BY <1>1
<1>4. ASSUME NEW x \in DOMAIN rows'
      PROVE  /\ RowFits(rows'[x], x, made)
             /\ RowSafe(rows'[x], reviewed, halfway) \/ (st.fresh # NoTest /\ x = st.fresh.ext)
  BY <1>3 DEF RowsInv
<1> QED BY <1>2, <1>3, <1>4, UserKeeps

LEMMA SaveKeeps ==
  ASSUME Inv, Save
  PROVE  Inv'
<1> USE DEF Inv
<1>1. PICK ss \in UserSteps :
        /\ rows' = Put(Insert(<<"saved", "mine">>, "saved", ss)) /\ made' = made + 1
        /\ reviewed' = reviewed \union {<<Insert(<<"saved", "mine">>, "saved", ss).id, ss>>}
  BY DEF Save
<1>2. UNCHANGED <<st, ended, blueprint, halfway>>
  BY DEF Save
<1> DEFINE ext == <<"saved", "mine">>
           category == "saved"
           new == Insert(ext, category, ss)
<1>3. /\ category = "ai" <=> ext[1] = "ai"
      /\ category = "explored" <=> ext[1] = "explored"
      /\ category \notin {"ai", "explored"} /\ ext[1] \notin {"ai", "explored"}
  OBVIOUS
<1>4. rows' = Put(new) /\ made' = made + 1 /\ made \in Nat /\ reviewed \subseteq reviewed'
  BY <1>1
<1>a. new = Insert(ext, category, ss)
  OBVIOUS
<1> HIDE DEF ext, category, new
<1>5. RowFits(new, ext, made + 1) /\ new.category = category /\ new.ext = ext
  BY <1>3, <1>4, <1>a, InsertFits
<1>6. /\ DOMAIN rows' = DOMAIN rows \union {ext} /\ rows'[ext] = new
      /\ \A x \in DOMAIN rows \ {ext} : rows'[x] = rows[x]
  BY <1>4, <1>5, PutFits
<1>7. made' \in Nat /\ made <= made'
  BY <1>4
<1>8. ASSUME NEW x \in DOMAIN rows \ {ext}
      PROVE  /\ RowFits(rows'[x], x, made')
             /\ RowSafe(rows'[x], reviewed', halfway) \/ (st.fresh # NoTest /\ x = st.fresh.ext)
             /\ rows'[x].id = rows[x].id /\ rows'[x].steps = rows[x].steps
  <2>1. /\ RowFits(rows[x], x, made)
        /\ RowSafe(rows[x], reviewed, halfway) \/ (st.fresh # NoTest /\ x = st.fresh.ext)
    BY DEF RowsInv
  <2> QED BY <1>4, <1>6, <1>7, <2>1, FitsMore, SafeMore
<1>9. RowFits(rows'[ext], ext, made') /\ RowSafe(rows'[ext], reviewed', halfway)
  BY <1>3, <1>4, <1>5, <1>6 DEF RowSafe, ModelWrote
<1>10. \A x \in DOMAIN rows' : x = ext \/ x \in DOMAIN rows \ {ext}
  BY <1>6
<1> QED BY <1>2, <1>3, <1>4, <1>7, <1>8, <1>9, <1>10, UserKeeps

LEMMA ChangeGoalKeeps ==
  ASSUME Inv, ChangeGoal
  PROVE  Inv'
<1>1. UNCHANGED <<blueprint, rows, made, st, halfway, reviewed>> /\ ended'.status = "none"
  BY DEF ChangeGoal, NoRun
<1>2. UnreviewedCannotFail'
  BY <1>1 DEF UnreviewedCannotFail
<1> QED BY <1>1, <1>2 DEF Inv, RowsInv, StageInv, FreshInv, WasInv, CasesInv

-----------------------------------------------------------------------------
LEMMA NextInv ==
  ASSUME Inv, [Next]_vars, \A answer \in Answers : OwnIds(Returned(answer))
  PROVE  Inv'
<1>1. CASE UNCHANGED vars
  BY <1>1 DEF vars, Inv, RowsInv, StageInv, FreshInv, WasInv, CasesInv, UnreviewedCannotFail
<1>2. CASE StartRun \/ Codebase \/ Analyze
  BY <1>2, EarlyKeeps
<1>3. CASE Plan
  BY <1>3, PlanKeeps
<1>4. CASE Upsert
  BY <1>4, UpsertKeeps
<1>5. CASE Distrust
  BY <1>5, DistrustKeeps
<1>6. CASE RowIsGone
  BY <1>6, RowIsGoneKeeps
<1>7. CASE Replays
  BY <1>7, ReplaysKeeps
<1>8. CASE ExploreBegins
  BY <1>8, ExploreBeginsKeeps
<1>9. CASE ExploreFails
  BY <1>9, ExploreFailsKeeps
<1>10. CASE Record
  BY <1>10, RecordKeeps
<1>11. CASE Collect
  BY <1>11, CollectKeeps
<1>12. CASE ExecuteTest
  BY <1>12, ExecuteKeeps
<1>13. CASE TestIsGone \/ Stops
  BY <1>13, StopsKeeps
<1>14. CASE Report
  BY <1>14, ReportKeeps
<1>15. CASE Trust \/ Quarantine \/ Edit
  BY <1>15, TrustKeeps
<1>16. CASE Delete
  BY <1>16, DeleteKeeps
<1>17. CASE Save
  BY <1>17, SaveKeeps
<1>18. CASE ChangeGoal
  BY <1>18, ChangeGoalKeeps
<1> QED
  BY <1>1, <1>2, <1>3, <1>4, <1>5, <1>6, <1>7, <1>8, <1>9, <1>10, <1>11, <1>12, <1>13, <1>14, <1>15, <1>16, <1>17, <1>18
     DEF Next

(* A run fails on a test a rule or a person wrote, or on steps of a model     *)
(* that a person trusted or wrote - runner.py:492-528, explore.py: the        *)
(* quarantine is set again whenever a model's test is rewritten, the entry of *)
(* the run carries the mark it had when it was collected while execution      *)
(* reads the steps again, and a user may trust, quarantine, edit or delete    *)
(* the row at any step.  The planner's cases are taken to have ids whose      *)
(* slugs differ: runner.py does not check it.                                 *)
THEOREM ModelsTestsCannotFail ==
  ASSUME \A answer \in Answers : OwnIds(Returned(answer))
  PROVE  Spec => []UnreviewedCannotFail
<1>1. Init => Inv
  BY InitInv
<1>2. Inv /\ [Next]_vars => Inv'
  BY NextInv
<1>3. Inv => UnreviewedCannotFail
  BY DEF Inv
<1> QED BY <1>1, <1>2, <1>3, PTL DEF Spec

-----------------------------------------------------------------------------
(* What a run executes is what it planned.  Of a planned test the promises   *)
(* about a finished run need this much: its steps, as they are stored under  *)
(* its slug, touch only the page that was analyzed (a test of the planner),  *)
(* account for the goal (the scenario), and open the page (a page's test).   *)

Ran(ss, a) == IF Readable(ss) THEN test_case_to_engine_plan(ss, a.url) ELSE << >>

OnPage(ss, a) ==
  \A k \in DOMAIN Ran(ss, a) : Ran(ss, a)[k].target \in KnownSelectors(a) \union {<< >>}

(* A page with fields has one that the plan fills in, or a button it names. *)
FilledIn(dom, g) ==
  \/ _extract_inputs(dom) = << >>
  \/ FormSteps(_extract_inputs(dom), g.values) # << >>
  \/ _primary_button(_extract_buttons(dom), TRUE) # << >>

Fillable ==
  \A html \in Htmls, g \in Goals :
    FilledIn(html, g) /\ (_looks_client_rendered(html) => FilledIn(html.dom, g))

Accounts(ss, untested, g) ==
  \A k \in DOMAIN split_goal(g.pieces) :
    \/ split_goal(g.pieces)[k] \in untested
    \/ /\ later_part_steps(split_goal(g.pieces)[k], g.values) # << >>
       /\ Range(later_part_steps(split_goal(g.pieces)[k], g.values)) \subseteq Range(ss)
    \/ k = 1 /\ (Fillable => UsesForm(Range(ss), split_goal(g.pieces), g.values))

Opened(ss, url) == \E k \in DOMAIN ss : ss[k].action = "navigate" /\ Path(ss[k].value) = Path(url)

(* Slugs tell the paths of the site apart. *)
Apart == \A p, q \in DOMAIN Slug : Slug[p] = Slug[q] => p = q

StepsFit(slug, ss, a, pages, g) ==
  /\ slug[1] = "ai" => OnPage(ss, a)
  /\ slug = <<"interaction">> => Accounts(ss, a.untested, g)
  /\ Apart => \A url \in pages : slug \in PageSlugs(url) => Opened(ss, url)

WriterFits(e) == e.category = "ai" <=> e.ext[1] = "ai"

(* The rows, with ids of their own. *)
TableInv ==
  /\ made \in Nat
  /\ \A e \in DOMAIN rows : RowFits(rows[e], e, made)
  /\ \A d, e \in DOMAIN rows : rows[d].id = rows[e].id => d = e

(* What is stored under a slug fits, unless a user changed it meanwhile. *)
StillFits(slug, R, T, a, pages, g) ==
  slug \in DOMAIN R /\ slug \notin T => StepsFit(slug, R[slug].steps, a, pages, g)

UrlsKnown(s) == IsList(s) /\ \A i \in DOMAIN s : Path(s[i]) \in DOMAIN Slug

RoutesKnown(b) == IsList(b) /\ \A i \in DOMAIN b : b[i].path \in DOMAIN Slug

(* What the analysis hands to the plan. *)
PageFits(a, g) == UrlsKnown(a.links) /\ Accounts(a.steps, a.untested, g)

InputInv ==
  /\ goal \in Goals /\ RoutesKnown(blueprint)
  /\ st = [x \in StFields |-> st[x]]
  /\ st.pc = "plan" => PageFits(st.page, goal)

TodoFits(test, a, pages, g) ==
  TestFits(test) /\ StepsFit(test.slug, test.steps, a, pages, g)

AllFit(tests, a, pages, g) == IsList(tests) /\ \A k \in DOMAIN tests : TodoFits(tests[k], a, pages, g)

TodoInv ==
  /\ st.pc # "write" => st.todo = << >>
  /\ AllFit(st.todo, st.page, st.pages, goal)
  /\ st.pages # {} => st.pc \in {"write", "explore", "collect", "execute"}
  /\ \A url \in st.pages : Path(url) \in DOMAIN Slug

CasesFit(cs, R, T, a, pages, g) ==
  IsList(cs) /\ \A k \in DOMAIN cs : WriterFits(cs[k]) /\ StillFits(cs[k].ext, R, T, a, pages, g)

FreshFits(c, R, T, a, pages, g) ==
  c.ext[1] \in {"ai", "explored"} /\ StillFits(c.ext, R, T, a, pages, g)

EntryInv ==
  /\ st.pc \in {"idle", "codebase", "analyze", "plan"} => st.cases = << >> /\ st.results = << >>
  /\ CasesFit(st.cases, rows, touched, st.page, st.pages, goal)
  /\ st.fresh # NoTest =>
       st.pc \in {"write", "explore"} /\ st.was = NoTest /\ FreshFits(st.fresh, rows, touched, st.page, st.pages, goal)
  /\ st.was # NoTest => st.pc = "explore" /\ st.was.ext = Explored /\ st.was.category # "ai"

ResultFits(r, T, a, pages, g) ==
  /\ WriterFits(r) /\ r.ran = Ran(r.steps, a)
  /\ r.ext \in T \/ StepsFit(r.ext, r.steps, a, pages, g)

ResultsFit(rs, T, a, pages, g) == IsList(rs) /\ \A k \in DOMAIN rs : ResultFits(rs[k], T, a, pages, g)

ResultInv == ResultsFit(st.results, touched, st.page, st.pages, goal)

Among(slug, s) == \E i \in DOMAIN s : s[i].ext = slug

Planning(slug, todo) == \E i \in DOMAIN todo : todo[i].slug = slug

(* No page of the plan is lost on the way to its result, nor is the goal. *)
PagesKept(todo, cases, results, pages) ==
  \A url \in pages : \E slug \in PageSlugs(url) :
    Planning(slug, todo) \/ Among(slug, cases) \/ Among(slug, results)

Tested(s) == \E i \in DOMAIN s : NamedLikeGoal(s[i])

CompleteInv ==
  /\ PagesKept(st.todo, st.cases, st.results, st.pages)
  /\ st.pc = "execute" /\ goal.pieces # << >> /\ ~st.untested =>
       st.parts = st.page.untested /\ (Tested(st.cases) \/ Tested(st.results))

ReportInv ==
  /\ PlannerStaysOnThePage
  /\ Apart => EveryPathIsVisited
  /\ Fillable => GoalIsAccountedFor

RunInv == TableInv /\ InputInv /\ TodoInv /\ EntryInv /\ ResultInv /\ CompleteInv /\ ReportInv

-----------------------------------------------------------------------------
(* A list of lists, flattened: nothing is lost and nothing is added. *)

Joins(ss, f) == f = [i \in 1..Len(ss) |-> IF i = 1 THEN ss[i] ELSE f[i - 1] \o ss[i]]

JoinsUpTo(ss, n, f) ==
  DOMAIN f = 1..n /\ \A i \in 1..n : f[i] = IF i = 1 THEN ss[i] ELSE f[i - 1] \o ss[i]

LEMMA JoinsOneMore ==
  ASSUME NEW ss, NEW n \in Nat, n # 0, NEW f, JoinsUpTo(ss, n - 1, f)
  PROVE  \E g : JoinsUpTo(ss, n, g)
<1> DEFINE newest == IF n = 1 THEN ss[n] ELSE f[n - 1] \o ss[n]
           g == [i \in 1..n |-> IF i = n THEN newest ELSE f[i]]
<1> HIDE DEF newest
<1>0. DOMAIN g = 1..n /\ g[n] = newest /\ \A i \in 1..(n - 1) : g[i] = f[i]
  OBVIOUS
<1> HIDE DEF g
<1>1. DOMAIN g = 1..n /\ g[n] = (IF n = 1 THEN ss[n] ELSE f[n - 1] \o ss[n]) /\ \A i \in 1..(n - 1) : g[i] = f[i]
  BY <1>0 DEF newest
<1>2. ASSUME NEW i \in 1..n
      PROVE  g[i] = IF i = 1 THEN ss[i] ELSE g[i - 1] \o ss[i]
  <2>1. CASE i = n
    <3>1. n # 1 => n - 1 \in 1..(n - 1)
      OBVIOUS
    <3>2. n # 1 => g[n - 1] = f[n - 1]
      BY <1>1, <3>1
    <3> QED BY <1>1, <2>1, <3>2
  <2>2. CASE i # n
    <3>1. i \in 1..(n - 1) /\ (i # 1 => i - 1 \in 1..(n - 1))
      BY <2>2
    <3>2. g[i] = f[i] /\ (i # 1 => g[i - 1] = f[i - 1])
      BY <1>1, <3>1
    <3>3. f[i] = IF i = 1 THEN ss[i] ELSE f[i - 1] \o ss[i]
      BY <3>1 DEF JoinsUpTo
    <3> QED BY <3>2, <3>3
  <2> QED BY <2>1, <2>2
<1> QED BY <1>1, <1>2 DEF JoinsUpTo

LEMMA JoinsExist ==
  ASSUME NEW ss, IsList(ss)
  PROVE  \E f : Joins(ss, f)
<1>1. Len(ss) \in Nat
  BY ListFits
<1> DEFINE Lost == {n \in Nat : ~\E f : JoinsUpTo(ss, n, f)}
<1>2. ASSUME NEW n \in Lost, \A m \in Lost : n <= m
      PROVE  FALSE
  <2>1. n \in Nat /\ ~\E f : JoinsUpTo(ss, n, f)
    OBVIOUS
  <2>2. CASE n = 0
    <3>1. JoinsUpTo(ss, 0, [i \in 1..0 |-> ss])
      BY DEF JoinsUpTo
    <3> QED BY <2>1, <2>2, <3>1
  <2>3. CASE n # 0
    <3>1. n - 1 \in Nat /\ n - 1 \notin Lost
      BY <1>2, <2>1, <2>3
    <3>2. PICK f : JoinsUpTo(ss, n - 1, f)
      BY <3>1
    <3> QED BY <2>1, <2>3, <3>2, JoinsOneMore
  <2> QED BY <2>2, <2>3
<1>3. Lost = {}
  <2>1. Lost \subseteq Nat
    OBVIOUS
  <2> HIDE DEF Lost
  <2> QED BY <1>2, <2>1, LeastNatural
<1>4. PICK f : JoinsUpTo(ss, Len(ss), f)
  BY <1>1, <1>3
<1> DEFINE g == [i \in 1..Len(ss) |-> f[i]]
<1>5. \A i \in 1..Len(ss) : g[i] = IF i = 1 THEN ss[i] ELSE g[i - 1] \o ss[i]
  <2> SUFFICES ASSUME NEW i \in 1..Len(ss) PROVE g[i] = IF i = 1 THEN ss[i] ELSE g[i - 1] \o ss[i]
    OBVIOUS
  <2>1. g[i] = f[i] /\ f[i] = IF i = 1 THEN ss[i] ELSE f[i - 1] \o ss[i]
    BY <1>4 DEF JoinsUpTo
  <2>2. i # 1 => i - 1 \in 1..Len(ss)
    BY <1>1
  <2>3. i # 1 => g[i - 1] = f[i - 1]
    BY <2>2
  <2> QED BY <2>1, <2>3
<1>6. g = [i \in 1..Len(ss) |-> g[i]]
  OBVIOUS
<1> HIDE DEF g
<1>7. [i \in 1..Len(ss) |-> g[i]] = [i \in 1..Len(ss) |-> IF i = 1 THEN ss[i] ELSE g[i - 1] \o ss[i]]
  BY <1>5
<1> QED BY <1>6, <1>7 DEF Joins

(* What the first n lists of ss joined to. *)
Gathers(ss, n, s) ==
  /\ IsList(s)
  /\ \A k \in DOMAIN s : \E i \in 1..n : \E j \in DOMAIN ss[i] : s[k] = ss[i][j]
  /\ \A i \in 1..n : \A j \in DOMAIN ss[i] : \E k \in DOMAIN s : s[k] = ss[i][j]

LEMMA JoinsGather ==
  ASSUME NEW ss, IsList(ss), \A i \in DOMAIN ss : IsList(ss[i]), NEW f, Joins(ss, f)
  PROVE  \A n \in DOMAIN ss : Gathers(ss, n, f[n])
<1>1. Len(ss) \in Nat /\ DOMAIN ss = 1..Len(ss)
  BY ListFits
<1> DEFINE Wrong == {n \in DOMAIN ss : ~Gathers(ss, n, f[n])}
<1>2. \A n \in DOMAIN ss : f[n] = IF n = 1 THEN ss[n] ELSE f[n - 1] \o ss[n]
  BY <1>1 DEF Joins
<1>3. ASSUME NEW n \in Wrong, \A m \in Wrong : n <= m
      PROVE  FALSE
  <2>1. n \in DOMAIN ss /\ n \in Nat /\ ~Gathers(ss, n, f[n])
    BY <1>1
  <2>2. CASE n = 1
    <3>1. f[n] = ss[n] /\ 1..n = {1} /\ IsList(ss[n])
      BY <1>2, <2>1, <2>2
    <3>2. Gathers(ss, n, f[n])
      BY <2>2, <3>1 DEF Gathers
    <3> QED BY <2>1, <3>2
  <2>3. CASE n # 1
    <3> DEFINE s == f[n - 1]
               t == ss[n]
    <3>1. n - 1 \in DOMAIN ss /\ n - 1 \notin Wrong
      BY <1>1, <1>3, <2>1, <2>3
    <3>2. Gathers(ss, n - 1, s)
      BY <3>1
    <3>3. f[n] = s \o t /\ IsList(t)
      BY <1>2, <2>1, <2>3
    <3>4. IsList(s)
      BY <3>2 DEF Gathers
    <3>5. 1..n = 1..(n - 1) \union {n} /\ t = ss[n]
      BY <2>1, <2>3, <1>1
    <3> HIDE DEF s, t
    <3> DEFINE u == s \o t
    <3>6. /\ IsList(u)
          /\ \A k \in DOMAIN u : \/ k \in DOMAIN s /\ u[k] = s[k]
                                 \/ k - Len(s) \in DOMAIN t /\ u[k] = t[k - Len(s)]
          /\ \A k \in DOMAIN s : k \in DOMAIN u /\ u[k] = s[k]
          /\ \A k \in DOMAIN t : k + Len(s) \in DOMAIN u /\ u[k + Len(s)] = t[k]
      BY <3>3, <3>4, JoinedFits
    <3> HIDE DEF u
    <3>7. ASSUME NEW k \in DOMAIN u
          PROVE  \E i \in 1..n : \E j \in DOMAIN ss[i] : u[k] = ss[i][j]
      <4>1. CASE k \in DOMAIN s /\ u[k] = s[k]
        BY <4>1, <3>2, <3>5 DEF Gathers
      <4>2. CASE k - Len(s) \in DOMAIN t /\ u[k] = t[k - Len(s)]
        BY <4>2, <3>5
      <4> QED BY <3>6, <4>1, <4>2
    <3>8. ASSUME NEW i \in 1..n, NEW j \in DOMAIN ss[i]
          PROVE  \E k \in DOMAIN u : u[k] = ss[i][j]
      <4>1. CASE i \in 1..(n - 1)
        BY <4>1, <3>2, <3>6 DEF Gathers
      <4>2. CASE i = n
        BY <4>2, <3>5, <3>6
      <4> QED BY <3>5, <4>1, <4>2
    <3>9. Gathers(ss, n, u)
      BY <3>6, <3>7, <3>8 DEF Gathers
    <3> QED BY <2>1, <3>3, <3>9 DEF u
  <2> QED BY <2>2, <2>3
<1>4. Wrong = {}
  <2>1. Wrong \subseteq Nat
    BY <1>1
  <2> HIDE DEF Wrong
  <2> QED BY <1>3, <2>1, LeastNatural
<1> QED BY <1>4

LEMMA FlattenedFits ==
  ASSUME NEW ss, IsList(ss), \A i \in DOMAIN ss : IsList(ss[i])
  PROVE  /\ IsList(FlattenSeq(ss))
         /\ \A k \in DOMAIN FlattenSeq(ss) : \E i \in DOMAIN ss : \E j \in DOMAIN ss[i] : FlattenSeq(ss)[k] = ss[i][j]
         /\ \A i \in DOMAIN ss : \A j \in DOMAIN ss[i] : \E k \in DOMAIN FlattenSeq(ss) : FlattenSeq(ss)[k] = ss[i][j]
<1>1. Len(ss) \in Nat /\ DOMAIN ss = 1..Len(ss)
  BY ListFits
<1>2. CASE Len(ss) = 0
  <2>1. FlattenSeq(ss) = ss /\ DOMAIN ss = {}
    BY <1>1, <1>2 DEF FlattenSeq
  <2> QED BY <2>1
<1>3. CASE Len(ss) # 0
  <2> DEFINE f == CHOOSE g : Joins(ss, g)
  <2>1. Joins(ss, f)
    BY JoinsExist
  <2>2. FlattenSeq(ss) = f[Len(ss)]
    BY <1>3 DEF FlattenSeq, Joins
  <2> HIDE DEF f
  <2>3. Gathers(ss, Len(ss), f[Len(ss)])
    <3>1. Len(ss) \in DOMAIN ss
      BY <1>1, <1>3
    <3> QED BY <2>1, <3>1, JoinsGather
  <2> QED BY <1>1, <2>2, <2>3 DEF Gathers
<1> QED BY <1>2, <1>3

-----------------------------------------------------------------------------
(* The planner's tests. *)

(* A list of steps whose targets are of T, as they are stored and as they    *)
(* are executed.                                                             *)
Touches(s, T) == s.target \in T \union {<< >>} \/ s.action \in {"url_contains", "url_equals"}

AllTouch(s, T) == IsList(s) /\ \A k \in DOMAIN s : Touches(s[k], T)

AllTarget(s, T) == IsList(s) /\ \A k \in DOMAIN s : s[k].target \in T \union {<< >>}

LEMMA JoinedTouch ==
  ASSUME NEW T, NEW s, NEW t
  PROVE  /\ AllTouch(s, T) /\ AllTouch(t, T) => AllTouch(s \o t, T)
         /\ AllTarget(s, T) /\ AllTarget(t, T) => AllTarget(s \o t, T)
<1> DEFINE u == s \o t
<1>1. IsList(s) /\ IsList(t) =>
        /\ IsList(u)
        /\ \A i \in DOMAIN u : \/ i \in DOMAIN s /\ u[i] = s[i]
                               \/ i - Len(s) \in DOMAIN t /\ u[i] = t[i - Len(s)]
  BY JoinedFits
<1> HIDE DEF u
<1>2. AllTouch(s, T) /\ AllTouch(t, T) => AllTouch(u, T)
  BY <1>1 DEF AllTouch
<1>3. AllTarget(s, T) /\ AllTarget(t, T) => AllTarget(u, T)
  BY <1>1 DEF AllTarget
<1> QED BY <1>2, <1>3 DEF u

(* Every step of an engine plan is made of a stored step of the same target, *)
(* or has none.                                                              *)
LEMMA EngineStepTarget ==
  ASSUME NEW s, NEW url, NEW T,
         s.target \in T \union {<< >>} \/ s.action \in {"url_contains", "url_equals"}
  PROVE  EngineStep(s, url).target \in T \union {<< >>}
<1>1. CASE s.action \in {"url_contains", "url_equals"}
  <2>1. IsCheck(s) /\ s.action \in AssertionType
    BY <1>1 DEF IsCheck, AssertionType
  <2>2. map_assertion_to_engine(s) = Step("assert_url", << >>, s.value)
    <3>1. _assertion_type(s.action) = s.action
      BY <2>1 DEF _assertion_type
    <3> QED BY <1>1, <3>1 DEF map_assertion_to_engine
  <2> QED BY <2>1, <2>2 DEF EngineStep, Step
<1>2. CASE s.target \in T \union {<< >>}
  <2>1. map_assertion_to_engine(s).target \in {s.target, << >>}
    BY DEF map_assertion_to_engine, Step
  <2>2. AsAction(s, url).target = s.target
    BY DEF AsAction, Step
  <2> QED BY <1>2, <2>1, <2>2 DEF EngineStep
<1> QED BY <1>1, <1>2

LEMMA EngineSteps ==
  ASSUME NEW ss, IsList(ss), NEW url, NEW T, AllTouch(ss, T), NEW I, I \subseteq DOMAIN ss
  PROVE  AllTarget([k \in 1..Cardinality(I) |-> EngineStep(ss[Nth(I, k)], url)], T)
<1>1. I \subseteq Nat /\ IsFiniteSet(I)
  <2>1. DOMAIN ss \subseteq Nat /\ IsFiniteSet(DOMAIN ss)
    BY ListFits
  <2> QED BY <2>1, FS_Subset
<1>2. Cardinality(I) \in Nat /\ \A k \in 1..Cardinality(I) : Nth(I, k) \in I
  BY <1>1, FS_CardinalityType, NthFits
<1> DEFINE p == [k \in 1..Cardinality(I) |-> EngineStep(ss[Nth(I, k)], url)]
           n == Cardinality(I)
<1>3. \A k \in 1..n : EngineStep(ss[Nth(I, k)], url).target \in T \union {<< >>}
  BY <1>2, EngineStepTarget DEF AllTouch, Touches
<1>4. DOMAIN p = 1..n /\ p = [k \in 1..n |-> p[k]] /\ n \in Nat
  BY <1>2
<1>5. \A k \in 1..n : p[k].target \in T \union {<< >>}
  BY <1>3
<1> HIDE DEF p, n
<1>6. IsList(p)
  BY <1>4, ListOf
<1>7. AllTarget(p, T)
  BY <1>4, <1>5, <1>6 DEF AllTarget
<1> QED BY <1>7 DEF p

LEMMA PlanTargets ==
  ASSUME NEW ss, NEW url, NEW T, AllTouch(ss, T)
  PROVE  AllTarget(test_case_to_engine_plan(ss, url), T)
<1> DEFINE plan(I)  == [k \in 1..Cardinality(I) |-> EngineStep(ss[Nth(I, k)], url)]
           attached == DOMAIN ss \ Leading(ss)
           leading  == Leading(ss)
           first == IF attached = {} THEN <<Step("goto", << >>, url)>> ELSE plan(attached)
           rear  == plan(leading)
<1>1. IsList(ss) /\ leading \subseteq DOMAIN ss /\ attached \subseteq DOMAIN ss
  BY DEF Leading, AllTouch
<1>2. test_case_to_engine_plan(ss, url) = first \o rear
  BY DEF test_case_to_engine_plan
<1>3. AllTarget(plan(attached), T) /\ AllTarget(rear, T)
  <2> HIDE DEF attached, leading
  <2> QED BY <1>1, EngineSteps
<1>4. AllTarget(<<Step("goto", << >>, url)>>, T)
  <2> DEFINE g == Step("goto", << >>, url)
  <2>1. g.target = << >>
    BY DEF Step
  <2> HIDE DEF g
  <2>2. AllTarget(<<g>>, T)
    BY <2>1, OneList DEF AllTarget
  <2> QED BY <2>2 DEF g
<1>5. AllTarget(first, T)
  BY <1>3, <1>4
<1> HIDE DEF first, rear
<1> QED BY <1>2, <1>3, <1>5, JoinedTouch

LEMMA AiStepsFit ==
  ASSUME NEW c, IsCase(c), NEW a, Usable(c, a)
  PROVE  OnPage(SuiteSteps(c, a), a)
<1> DEFINE T == KnownSelectors(a)
           I == {i \in DOMAIN c.steps : Kept(c.steps[i])}
           own == Picked(c.steps, I)
           first(s) == <<Step(s.action, s.target, s.value)>>
           groups == [i \in DOMAIN own |-> first(own[i]) \o own[i].checks]
           middle == FlattenSeq(groups)
           opens == <<Opens(a.url)>>
           Sound(s) == AllTouch(s.checks, T) /\ AllTouch(first(s), T)
<1>1. SuiteSteps(c, a) = opens \o middle \o c.checks
  BY DEF SuiteSteps
<1>2. ASSUME NEW i \in I PROVE Sound(c.steps[i])
  <2> DEFINE s == c.steps[i]
  <2>1. s.target \in T \union {<< >>} /\ AllTouch(s.checks, T)
    BY DEF IsCase, Usable, _add_check, AllTouch, Touches
  <2> HIDE DEF s, T
  <2> DEFINE g == Step(s.action, s.target, s.value)
  <2>2. Touches(g, T)
    BY <2>1 DEF Step, Touches
  <2> HIDE DEF g
  <2>3. AllTouch(<<g>>, T)
    BY <2>2, OneList DEF AllTouch
  <2> QED BY <2>1, <2>3 DEF g, s
<1>3. AllTouch(c.checks, T)
  BY DEF IsCase, Usable, _add_check, AllTouch, Touches
<1>4. IsList(own) /\ \A k \in DOMAIN own : \E i \in I : own[k] = c.steps[i]
  <2> DEFINE all == c.steps
             J == I
  <2>1. IsList(all) /\ J \subseteq DOMAIN all
    BY DEF IsCase
  <2> HIDE DEF J, all
  <2>2. IsList(Picked(all, J)) /\ \A k \in DOMAIN Picked(all, J) : \E i \in J : Picked(all, J)[k] = all[i]
    BY <2>1, PickedFits
  <2> QED BY <2>2 DEF J, all
<1> HIDE DEF I, own, T
<1>5. ASSUME NEW k \in DOMAIN own
      PROVE  AllTouch(first(own[k]) \o own[k].checks, T)
  <2>1. Sound(own[k])
    BY <1>2, <1>4
  <2> QED BY <2>1, JoinedTouch
<1> HIDE DEF first
<1>6. AllTouch(middle, T)
  <2>0. DOMAIN groups = DOMAIN own /\ groups = [i \in DOMAIN own |-> groups[i]]
    OBVIOUS
  <2>1. \A i \in DOMAIN groups : AllTouch(groups[i], T)
    BY <1>5
  <2> HIDE DEF groups
  <2>2. IsList(groups)
    BY <1>4, <2>0, MadeList
  <2>3. \A i \in DOMAIN groups : IsList(groups[i])
    BY <2>1 DEF AllTouch
  <2>4. IsList(middle) /\ \A k \in DOMAIN middle : \E i \in DOMAIN groups : \E j \in DOMAIN groups[i] : middle[k] = groups[i][j]
    BY <2>2, <2>3, FlattenedFits
  <2> HIDE DEF middle
  <2> QED BY <2>1, <2>4 DEF AllTouch
<1>7. AllTouch(opens, T)
  <2> DEFINE g == Opens(a.url)
  <2>1. Touches(g, T)
    BY DEF Opens, Step, Touches
  <2> HIDE DEF g
  <2>2. AllTouch(<<g>>, T)
    BY <2>1, OneList DEF AllTouch
  <2> QED BY <2>2 DEF g
<1> HIDE DEF opens, middle
<1>8. AllTouch(opens \o middle \o c.checks, T)
  <2>1. AllTouch(opens \o middle, T)
    BY <1>6, <1>7, JoinedTouch
  <2> QED BY <1>3, <2>1, JoinedTouch
<1> DEFINE ss == SuiteSteps(c, a)
<1>9. AllTouch(ss, T)
  BY <1>1, <1>8
<1> HIDE DEF ss
<1>10. AllTarget(test_case_to_engine_plan(ss, a.url), T)
  BY <1>9, PlanTargets
<1>11. OnPage(ss, a)
  BY <1>10, EmptyList DEF OnPage, Ran, T, AllTarget
<1> QED BY <1>11 DEF ss

(* What a list has of another. *)
SomeIn(s, t) == IsList(s) /\ \A k \in DOMAIN s : \E i \in DOMAIN t : s[k] = t[i]

LEMMA SomeOf ==
  ASSUME NEW s, IsList(s)
  PROVE  /\ \A I : I \subseteq DOMAIN s => SomeIn(Picked(s, I), s)
         /\ \A n \in Nat : SomeIn(UpTo(s, n), s)
<1>1. ASSUME NEW I, I \subseteq DOMAIN s
      PROVE  SomeIn(Picked(s, I), s)
  <2> DEFINE p == Picked(s, I)
  <2>1. IsList(p) /\ \A k \in DOMAIN p : Nth(I, k) \in I /\ p[k] = s[Nth(I, k)]
    BY <1>1, PickedFits
  <2> HIDE DEF p
  <2>2. SomeIn(p, s)
    BY <1>1, <2>1 DEF SomeIn
  <2> QED BY <2>2 DEF p
<1>2. ASSUME NEW n \in Nat
      PROVE  SomeIn(UpTo(s, n), s)
  <2> DEFINE p == UpTo(s, n)
  <2>1. IsList(p) /\ \A k \in DOMAIN p : k \in DOMAIN s /\ p[k] = s[k]
    BY UpToFits
  <2> HIDE DEF p
  <2>2. SomeIn(p, s)
    BY <2>1 DEF SomeIn
  <2> QED BY <2>2 DEF p
<1> QED BY <1>1, <1>2

LEMMA AmongAll ==
  ASSUME NEW s, NEW t, NEW u, SomeIn(s, t), SomeIn(t, u)
  PROVE  SomeIn(s, u)
BY DEF SomeIn

(* The tests of the planner are made of cases of its answer. *)
AiFits(test, answer, a) ==
  /\ test.category = "ai" /\ test.slug[1] = "ai" /\ test.slug # <<"interaction">>
  /\ OnPage(test.steps, a)

LEMMA AiTestFits ==
  ASSUME NEW answer \in Answers, NEW a, NEW i \in DOMAIN answer, NEW c, c = answer[i], Usable(c, a)
  PROVE  AiFits(Test(<<"ai", AiSlug[c.id]>>, "ai", SuiteSteps(c, a)), answer, a)
<1>1. IsCase(c)
  BY SuiteAssumption
<1> DEFINE ss == SuiteSteps(c, a)
           name == AiSlug[c.id]
<1>2. OnPage(ss, a)
  BY <1>1, AiStepsFit
<1>3. name = AiSlug[answer[i].id]
  OBVIOUS
<1> HIDE DEF ss, name
<1> DEFINE t == Test(<<"ai", name>>, "ai", ss)
<1>4. t.category = "ai" /\ t.slug = <<"ai", name>> /\ t.steps = ss
  BY DEF Test
<1>5. t.slug[1] = "ai" /\ t.slug[2] = name /\ t.slug # <<"interaction">>
  BY <1>4
<1> HIDE DEF t
<1>6. AiFits(t, answer, a)
  BY <1>2, <1>3, <1>4, <1>5 DEF AiFits
<1> QED BY <1>6 DEF t, ss, name

LEMMA AiTestsFit ==
  ASSUME NEW answer \in Answers, NEW a
  PROVE  IsList(ai_tests(answer, a)) /\ \A k \in DOMAIN ai_tests(answer, a) : AiFits(ai_tests(answer, a)[k], answer, a)
<1> DEFINE parsed == _parse_response(answer)
           good == Valid(parsed)
           given == _remove_duplicates(good)
           cases == generate_tests(answer, a)
           most == UpTo(cases, MAX_AI_TESTS)
           U == {i \in DOMAIN most : Usable(most[i], a)}
           kept == Picked(most, U)
           tests == [i \in DOMAIN kept |-> Test(<<"ai", AiSlug[kept[i].id]>>, "ai", SuiteSteps(kept[i], a))]
<1>1. SomeIn(cases, answer)
  <2>1. IsList(answer)
    BY SuiteAssumption
  <2>2. SomeIn(parsed, answer)
    BY <2>1, SomeOf DEF _parse_response
  <2>3. ASSUME NEW s, IsList(s)
        PROVE  SomeIn(Valid(s), s) /\ SomeIn(_remove_duplicates(s), s) /\ SomeIn(OnThePage(s, a), s)
    BY <2>3, SomeOf DEF Valid, _remove_duplicates, OnThePage
  <2>4. cases = OnThePage(given, a)
    BY DEF generate_tests
  <2> HIDE DEF cases, parsed
  <2>5. IsList(parsed)
    BY <2>2 DEF SomeIn
  <2>6. SomeIn(good, parsed) /\ IsList(good)
    BY <2>3, <2>5 DEF SomeIn
  <2> HIDE DEF good
  <2>7. SomeIn(given, good) /\ IsList(given)
    BY <2>3, <2>6 DEF SomeIn
  <2> HIDE DEF given
  <2>8. SomeIn(cases, given)
    BY <2>3, <2>4, <2>7
  <2>9. SomeIn(given, answer)
    BY <2>2, <2>6, <2>7, AmongAll
  <2> QED BY <2>8, <2>9, AmongAll
<1> HIDE DEF parsed, good, given, cases
<1>2. SomeIn(most, answer) /\ IsList(most)
  BY <1>1, SomeOf, AmongAll, PlannerAssumption DEF SomeIn
<1> HIDE DEF most
<1>2a. U \subseteq DOMAIN most /\ \A i \in U : Usable(most[i], a)
  OBVIOUS
<1> HIDE DEF U
<1>3. IsList(kept) /\ \A k \in DOMAIN kept : \E i \in U : kept[k] = most[i]
  BY <1>2, <1>2a, PickedFits
<1>4. \A k \in DOMAIN kept : (\E i \in DOMAIN answer : kept[k] = answer[i]) /\ Usable(kept[k], a)
  BY <1>2, <1>2a, <1>3 DEF SomeIn
<1> HIDE DEF kept
<1>5. DOMAIN tests = DOMAIN kept /\ tests = [i \in DOMAIN kept |-> tests[i]]
  OBVIOUS
<1>6. ASSUME NEW k \in DOMAIN tests
      PROVE  AiFits(tests[k], answer, a)
  <2> DEFINE c == kept[k]
  <2>1. tests[k] = Test(<<"ai", AiSlug[c.id]>>, "ai", SuiteSteps(c, a))
    BY <1>5
  <2>2. PICK i \in DOMAIN answer : c = answer[i]
    BY <1>4, <1>5
  <2>3. Usable(c, a)
    BY <1>4, <1>5
  <2> HIDE DEF c
  <2> QED BY <2>1, <2>2, <2>3, AiTestFits
<1> HIDE DEF tests
<1>7. IsList(tests)
  BY <1>3, <1>5, MadeList
<1>8. ai_tests(answer, a) = IF Raises(answer) THEN << >> ELSE tests
  <2>1. to_suite_tests(cases, a) = tests
    BY DEF to_suite_tests, tests, kept, most, U
  <2> QED BY <2>1 DEF ai_tests, cases
<1> QED BY <1>6, <1>7, <1>8, EmptyList

-----------------------------------------------------------------------------
(* The scenario accounts for the goal. *)

(* What a field adds to what was there. *)
Further(i, acc, values) ==
  IF Len(Fills(acc.steps)) >= MAX_FILLS THEN acc
  ELSE [steps  |-> acc.steps \o FieldSteps(i, acc.chosen, values),
        chosen |-> IF i.type = "radio" /\ i.required THEN acc.chosen \union {i.name} ELSE acc.chosen]

NothingFilled == [steps |-> << >>, chosen |-> {}]

FilledUpTo(inputs, values, n, f) ==
  /\ DOMAIN f = 0..n
  /\ \A k \in 0..n : f[k] = IF k = 0 THEN NothingFilled ELSE Further(inputs[k], f[k - 1], values)

FilledAs(inputs, values, n, f) ==
  f = [k \in 0..n |-> IF k = 0 THEN NothingFilled ELSE Further(inputs[k], f[k - 1], values)]

LEMMA FilledOneMore ==
  ASSUME NEW inputs, NEW values, NEW n \in Nat, n # 0, NEW f, FilledUpTo(inputs, values, n - 1, f)
  PROVE  \E g : FilledUpTo(inputs, values, n, g)
<1> DEFINE newest == Further(inputs[n], f[n - 1], values)
           g == [i \in 0..n |-> IF i = n THEN newest ELSE f[i]]
<1> HIDE DEF newest
<1>0. DOMAIN g = 0..n /\ g[n] = newest /\ \A i \in 0..(n - 1) : g[i] = f[i]
  OBVIOUS
<1> HIDE DEF g
<1>1. ASSUME NEW i \in 0..n
      PROVE  g[i] = IF i = 0 THEN NothingFilled ELSE Further(inputs[i], g[i - 1], values)
  <2>1. CASE i = n
    <3>1. n - 1 \in 0..(n - 1)
      OBVIOUS
    <3>2. g[n - 1] = f[n - 1]
      BY <1>0, <3>1
    <3> QED BY <1>0, <2>1, <3>2 DEF newest
  <2>2. CASE i # n
    <3>1. i \in 0..(n - 1) /\ (i # 0 => i - 1 \in 0..(n - 1))
      BY <2>2
    <3>2. g[i] = f[i] /\ (i # 0 => g[i - 1] = f[i - 1])
      BY <1>0, <3>1
    <3>3. f[i] = IF i = 0 THEN NothingFilled ELSE Further(inputs[i], f[i - 1], values)
      BY <3>1 DEF FilledUpTo
    <3> QED BY <3>2, <3>3
  <2> QED BY <2>1, <2>2
<1> QED BY <1>0, <1>1 DEF FilledUpTo

LEMMA FilledExists ==
  ASSUME NEW inputs, NEW values, NEW m \in Nat
  PROVE  \E f : FilledAs(inputs, values, m, f)
<1> DEFINE Lost == {n \in Nat : ~\E f : FilledUpTo(inputs, values, n, f)}
<1>2. ASSUME NEW n \in Lost, \A k \in Lost : n <= k
      PROVE  FALSE
  <2>1. n \in Nat /\ ~\E f : FilledUpTo(inputs, values, n, f)
    OBVIOUS
  <2>2. CASE n = 0
    <3>1. FilledUpTo(inputs, values, 0, [i \in 0..0 |-> NothingFilled])
      BY DEF FilledUpTo
    <3> QED BY <2>1, <2>2, <3>1
  <2>3. CASE n # 0
    <3>1. n - 1 \in Nat /\ n - 1 \notin Lost
      BY <1>2, <2>1, <2>3
    <3>2. PICK f : FilledUpTo(inputs, values, n - 1, f)
      BY <3>1
    <3> QED BY <2>1, <2>3, <3>2, FilledOneMore
  <2> QED BY <2>2, <2>3
<1>3. Lost = {}
  <2>1. Lost \subseteq Nat
    OBVIOUS
  <2> HIDE DEF Lost
  <2> QED BY <1>2, <2>1, LeastNatural
<1>4. PICK f : FilledUpTo(inputs, values, m, f)
  BY <1>3
<1> DEFINE g == [i \in 0..m |-> f[i]]
<1>5. \A i \in 0..m : g[i] = IF i = 0 THEN NothingFilled ELSE Further(inputs[i], g[i - 1], values)
  <2> SUFFICES ASSUME NEW i \in 0..m PROVE g[i] = IF i = 0 THEN NothingFilled ELSE Further(inputs[i], g[i - 1], values)
    OBVIOUS
  <2>1. g[i] = f[i] /\ f[i] = IF i = 0 THEN NothingFilled ELSE Further(inputs[i], f[i - 1], values)
    BY <1>4 DEF FilledUpTo
  <2>2. i # 0 => i - 1 \in 0..m
    OBVIOUS
  <2>3. i # 0 => g[i - 1] = f[i - 1]
    BY <2>2
  <2> QED BY <2>1, <2>3
<1>6. g = [i \in 0..m |-> g[i]]
  OBVIOUS
<1> HIDE DEF g
<1>7. [i \in 0..m |-> g[i]] = [i \in 0..m |-> IF i = 0 THEN NothingFilled ELSE Further(inputs[i], g[i - 1], values)]
  BY <1>5
<1> QED BY <1>6, <1>7 DEF FilledAs

(* The steps of a form: a list of what is typed, chosen and ticked. *)
FormList(ss) == IsList(ss) /\ \A i \in DOMAIN ss : ss[i].action \in {"select", "check", "fill"}

LEMMA OneFormStep ==
  ASSUME NEW s, s.action \in {"select", "check", "fill"}
  PROVE  FormList(<<s>>)
BY OneList DEF FormList

LEMMA NoFormStep == FormList(<< >>)
BY EmptyList DEF FormList

LEMMA JoinedForms ==
  ASSUME NEW s, NEW t, FormList(s), FormList(t)
  PROVE  FormList(s \o t)
<1> DEFINE u == s \o t
<1>1. /\ IsList(u)
      /\ \A i \in DOMAIN u : \/ i \in DOMAIN s /\ u[i] = s[i]
                             \/ i - Len(s) \in DOMAIN t /\ u[i] = t[i - Len(s)]
  BY JoinedFits DEF FormList
<1> HIDE DEF u
<1>2. FormList(u)
  BY <1>1 DEF FormList
<1> QED BY <1>2 DEF u

LEMMA FieldStepsAreList ==
  ASSUME NEW f, NEW chosen, NEW values
  PROVE  FormList(FieldSteps(f, chosen, values))
<1> DEFINE w == Step("select", f.selector, <<f.option>>)
           x == Step("check", f.selector, << >>)
           y == Step("fill", f.selector, ValueFor(f, values))
<1>1. FieldSteps(f, chosen, values) \in {<<w>>, <<x>>, <<y>>, << >>}
  BY DEF FieldSteps
<1>2. w.action = "select" /\ x.action = "check" /\ y.action = "fill"
  BY DEF Step
<1> HIDE DEF w, x, y
<1>3. FormList(<<w>>) /\ FormList(<<x>>) /\ FormList(<<y>>)
  BY <1>2, OneFormStep
<1> QED BY <1>1, <1>3, NoFormStep

LEMMA FurtherIsList ==
  ASSUME NEW i, NEW acc, FormList(acc.steps), NEW values
  PROVE  FormList(Further(i, acc, values).steps)
<1>1. FormList(acc.steps \o FieldSteps(i, acc.chosen, values))
  BY FieldStepsAreList, JoinedForms
<1> DEFINE s == acc.steps \o FieldSteps(i, acc.chosen, values)
<1>2. Further(i, acc, values) = acc \/ Further(i, acc, values).steps = s
  BY DEF Further
<1> HIDE DEF s
<1> QED BY <1>1, <1>2 DEF s

LEMMA FormIsList ==
  ASSUME NEW inputs, IsList(inputs), NEW values
  PROVE  FormList(FormSteps(inputs, values))
<1> DEFINE m == Len(inputs)
           f == CHOOSE g : FilledAs(inputs, values, m, g)
<1>1. m \in Nat
  BY ListFits
<1>2. FilledAs(inputs, values, m, f)
  BY <1>1, FilledExists
<1>3. FormSteps(inputs, values) = f[m].steps
  BY DEF FormSteps, FilledAs, NothingFilled, Further
<1> HIDE DEF f, m
<1> DEFINE Wrong == {k \in Nat : k <= m /\ ~FormList(f[k].steps)}
<1>4. \A k \in 0..m : f[k] = IF k = 0 THEN NothingFilled ELSE Further(inputs[k], f[k - 1], values)
  BY <1>2 DEF FilledAs
<1>5. ASSUME NEW n \in Wrong, \A k \in Wrong : n <= k
      PROVE  FALSE
  <2>1. n \in 0..m /\ ~FormList(f[n].steps)
    BY <1>1
  <2>2. CASE n = 0
    <3>1. f[n] = NothingFilled
      BY <1>4, <2>1, <2>2
    <3> QED BY <2>1, <3>1, NoFormStep DEF NothingFilled
  <2>3. CASE n # 0
    <3>1. n - 1 \in Nat /\ n - 1 <= m /\ n - 1 \notin Wrong
      BY <1>1, <1>5, <2>1, <2>3
    <3>2. FormList(f[n - 1].steps)
      BY <3>1
    <3>3. f[n] = Further(inputs[n], f[n - 1], values)
      BY <1>4, <2>1, <2>3
    <3> QED BY <2>1, <3>2, <3>3, FurtherIsList
  <2> QED BY <2>2, <2>3
<1>6. Wrong = {}
  <2>1. Wrong \subseteq Nat
    OBVIOUS
  <2> HIDE DEF Wrong
  <2> QED BY <1>5, <2>1, LeastNatural
<1> QED BY <1>1, <1>3, <1>6

(* A step of a part's own: a check, or a click on what the part names. *)
OwnStep(s) ==
  \/ s.action \in {"assert_visible", "assert_contains_text"}
  \/ s.action = "click" /\ s.target[1] \in {"add of", "box of", "named"}

LEMMA LaterPartIsList ==
  ASSUME NEW part, NEW values
  PROVE  /\ IsList(later_part_steps(part, values))
         /\ \A i \in DOMAIN later_part_steps(part, values) : OwnStep(later_part_steps(part, values)[i])
<1> DEFINE item == IF part.noun = "it" THEN values.text ELSE part.noun
           w == Step("assert_visible", <<"body">>, << >>)
           x == Step("assert_contains_text", <<"body">>, <<part.noun>>)
           y1 == Step("click", <<"add of", part.noun>>, << >>)
           y2 == Step("assert_visible", <<"count of the cart">>, << >>)
           z1 == Step("click", <<"box of", item>>, << >>)
           z2 == Step("assert_visible", <<"ticked box of", item>>, << >>)
           n == Step("click", <<"named", part.noun>>, << >>)
           ss == later_part_steps(part, values)
<1>1. ss \in {<<w>>, <<x>>, <<y1, y2>>, <<z1, z2>>, <<n>>, << >>}
  BY DEF later_part_steps
<1>2. OwnStep(w) /\ OwnStep(x) /\ OwnStep(y1) /\ OwnStep(y2) /\ OwnStep(z1) /\ OwnStep(z2) /\ OwnStep(n)
  BY DEF OwnStep, Step
<1> HIDE DEF w, x, y1, y2, z1, z2, n, ss
<1>3. \A u, v : IsList(<<u, v>>) /\ DOMAIN <<u, v>> = {1, 2}
  BY DEF IsList
<1>4. IsList(ss)
  BY <1>1, <1>3, OneList, EmptyList
<1>5. \A i \in DOMAIN ss : ss[i] \in {w, x, y1, y2, z1, z2, n}
  BY <1>1, <1>3, OneList, EmptyList
<1>6. \A i \in DOMAIN ss : OwnStep(ss[i])
  BY <1>2, <1>5
<1> QED BY <1>4, <1>6 DEF ss

LEMMA OwnStepsAreOwn ==
  ASSUME NEW parts, NEW values, NEW s \in OwnSteps(parts, values)
  PROVE  OwnStep(s)
<1>1. PICK part \in Range(parts) : s \in Range(later_part_steps(part, values))
  BY DEF OwnSteps
<1>2. PICK i \in DOMAIN later_part_steps(part, values) : s = later_part_steps(part, values)[i]
  BY <1>1 DEF Range
<1> QED BY <1>2, LaterPartIsList

LEMMA OutcomeIsList ==
  ASSUME NEW part, NEW inputs, NEW values
  PROVE  IsList(form_outcome(part, inputs, values))
<1> DEFINE passwords == SelectSeq(inputs, LAMBDA f : f.type = "password" \/ f.hint = "pass")
<1> HIDE DEF passwords
<1> DEFINE w == Step("assert_hidden", passwords[1].selector, << >>)
           x == Step("assert_contains_text", <<"body">>, <<values.text>>)
<1>1. form_outcome(part, inputs, values) \in {<<w>>, <<x>>, << >>}
  BY DEF form_outcome, passwords
<1> HIDE DEF w, x
<1> QED BY <1>1, OneList, EmptyList

(* A part that is not left to the form gives its steps, or is untested. *)
LEMMA PartsAccounted ==
  ASSUME NEW parts, IsList(parts), NEW inputs, NEW values, NEW form_used,
         NEW plan, plan = plan_goal(parts, inputs, values, form_used)
  PROVE  /\ IsList(plan.steps)
         /\ \A k \in DOMAIN parts :
              \/ k = 1 /\ form_used
              \/ parts[k] \in plan.untested
              \/ /\ later_part_steps(parts[k], values) # << >>
                 /\ \A j \in DOMAIN later_part_steps(parts[k], values) :
                      \E i \in DOMAIN plan.steps : plan.steps[i] = later_part_steps(parts[k], values)[j]
<1> DEFINE byForm(i) == i = 1 /\ form_used /\ ByForm(parts[i], values)
           new(i)    == IF byForm(i) THEN form_outcome(parts[i], inputs, values) ELSE later_part_steps(parts[i], values)
           lists == [i \in DOMAIN parts |-> new(i)]
           silent == {j \in DOMAIN parts : ~byForm(j) /\ new(j) = << >>}
<1>1. plan.steps = FlattenSeq(lists) /\ plan.untested = {parts[i] : i \in silent}
  BY DEF plan_goal
<1>2. \A i \in DOMAIN parts : IsList(new(i))
  BY LaterPartIsList, OutcomeIsList
<1>3. \A i \in DOMAIN parts : ~byForm(i) => new(i) = later_part_steps(parts[i], values) /\ (new(i) = << >> => i \in silent)
  OBVIOUS
<1>3a. \A i \in DOMAIN parts : byForm(i) => i = 1 /\ form_used
  OBVIOUS
<1>4. DOMAIN lists = DOMAIN parts /\ lists = [i \in DOMAIN parts |-> lists[i]] /\ \A i \in DOMAIN parts : lists[i] = new(i)
  OBVIOUS
<1> HIDE DEF lists, silent, byForm, new
<1>5. IsList(lists) /\ \A i \in DOMAIN lists : IsList(lists[i])
  BY <1>2, <1>4, MadeList
<1>6. /\ IsList(FlattenSeq(lists))
      /\ \A i \in DOMAIN lists : \A j \in DOMAIN lists[i] : \E k \in DOMAIN FlattenSeq(lists) : FlattenSeq(lists)[k] = lists[i][j]
  BY <1>5, FlattenedFits
<1>7. ASSUME NEW k \in DOMAIN parts, ~byForm(k), new(k) # << >>
      PROVE  /\ later_part_steps(parts[k], values) # << >>
             /\ \A j \in DOMAIN later_part_steps(parts[k], values) :
                  \E i \in DOMAIN plan.steps : plan.steps[i] = later_part_steps(parts[k], values)[j]
  <2> DEFINE t == later_part_steps(parts[k], values)
             ss == FlattenSeq(lists)
  <2>1. lists[k] = t /\ k \in DOMAIN lists /\ t # << >>
    BY <1>3, <1>4, <1>7
  <2> HIDE DEF t, ss
  <2>2. \A j \in DOMAIN t : \E i \in DOMAIN ss : ss[i] = t[j]
    BY <1>6, <2>1 DEF ss
  <2>3. plan.steps = ss
    BY <1>1 DEF ss
  <2> QED BY <2>1, <2>2, <2>3 DEF t
<1>8. ASSUME NEW k \in DOMAIN parts, ~byForm(k), new(k) = << >>
      PROVE  parts[k] \in plan.untested
  BY <1>1, <1>3, <1>8
<1> QED BY <1>1, <1>3a, <1>6, <1>7, <1>8

JoinOf(u, s, t) == IsList(s) /\ IsList(t) /\ u = s \o t

LEMMA RearStays ==
  ASSUME NEW u, NEW s, NEW t, JoinOf(u, s, t)
  PROVE  \A j \in DOMAIN t : \E i \in DOMAIN u : u[i] = t[j]
<1>1. \A i \in DOMAIN t : i + Len(s) \in DOMAIN u /\ u[i + Len(s)] = t[i]
  BY JoinedFits DEF JoinOf
<1> QED BY <1>1

LEMMA FrontStays ==
  ASSUME NEW u, NEW s, NEW t, JoinOf(u, s, t)
  PROVE  \A j \in DOMAIN s : \E i \in DOMAIN u : u[i] = s[j]
<1>1. \A i \in DOMAIN s : i \in DOMAIN u /\ u[i] = s[i]
  BY JoinedFits DEF JoinOf
<1> QED BY <1>1

LEMMA SplitIsList ==
  ASSUME NEW g \in Goals
  PROVE  IsList(split_goal(g.pieces)) /\ (g.pieces = << >> => DOMAIN split_goal(g.pieces) = {})
<1> DEFINE pieces == g.pieces
           I == {i \in DOMAIN pieces : i = 1 \/ ~pieces[i].credential}
<1>1. IsList(pieces)
  BY SuiteAssumption
<1>2. I \subseteq DOMAIN pieces /\ split_goal(pieces) = Picked(pieces, I)
  BY DEF split_goal
<1> HIDE DEF I, pieces
<1>3. IsList(Picked(pieces, I)) /\ \A k \in DOMAIN Picked(pieces, I) : Nth(I, k) \in I
  BY <1>1, <1>2, PickedFits
<1>4. pieces = << >> => DOMAIN Picked(pieces, I) = {}
  BY <1>2, <1>3, EmptyList
<1> QED BY <1>2, <1>3, <1>4 DEF pieces

(* A button the plan presses has a selector of its own. *)
LEMMA ButtonIsNamed ==
  ASSUME NEW dom, IsList(dom.buttons), NEW has, NEW b, b = _primary_button(_extract_buttons(dom), has), b # << >>
  PROVE  b[1].selector[1] \in {"#", "class", "text"}
<1> DEFINE s == _extract_buttons(dom)
           named  == {i \in DOMAIN s : s[i].selector # <<"button">>}
           submit == {i \in named : s[i].type = "submit" \/ s[i].text \in SubmitWords}
           ids    == {i \in named : s[i].id # ""}
           best   == CASE has /\ submit # {}                -> submit
                       [] (~has \/ submit = {}) /\ ids # {} -> ids
                       [] OTHER                             -> named
<1>1. b = UpTo(Picked(s, best), 1)
  BY DEF _primary_button
<1>2. best \subseteq named /\ named \subseteq DOMAIN s /\ \A i \in named : s[i].selector # <<"button">>
  OBVIOUS
<1>3. DOMAIN s = DOMAIN dom.buttons /\ s = [i \in DOMAIN dom.buttons |-> s[i]]
  BY DEF _extract_buttons
<1>4. \A i \in DOMAIN s : s[i].selector[1] \in {"#", "class", "text"} \/ s[i].selector = <<"button">>
  BY DEF _extract_buttons
<1> HIDE DEF best, s, named
<1>5. IsList(s)
  BY <1>3, MadeList
<1> DEFINE p == Picked(s, best)
<1>6. IsList(p) /\ \A k \in DOMAIN p : \E i \in named : p[k] = s[i]
  BY <1>2, <1>5, PickedFits
<1> HIDE DEF p
<1>7. IsList(UpTo(p, 1)) /\ \A k \in DOMAIN UpTo(p, 1) : k \in DOMAIN p /\ UpTo(p, 1)[k] = p[k]
  BY <1>6, UpToFits
<1>8. 1 \in DOMAIN b
  BY <1>1, <1>7, TailFits DEF p
<1>9. PICK i \in named : b[1] = s[i]
  BY <1>1, <1>6, <1>7, <1>8 DEF p
<1> QED BY <1>2, <1>4, <1>9

(* What the plan does on a form that no part's own steps ask for. *)
LEMMA FormIsUsed ==
  ASSUME NEW dom, IsPage(dom), NEW g, FilledIn(dom, g), NEW parts,
         NEW inputs, inputs = _extract_inputs(dom), IsList(inputs),
         NEW button, button = _primary_button(_extract_buttons(dom), inputs # << >>),
         inputs # << >> \/ button # << >>,
         NEW whole, button # << >> => Step("click", button[1].selector, << >>) \in whole,
         Range(FormSteps(inputs, g.values)) \subseteq whole
  PROVE  UsesForm(whole, parts, g.values)
<1>1. CASE button # << >>
  <2> DEFINE x == Step("click", button[1].selector, << >>)
  <2>1. x.action = "click" /\ x.target = button[1].selector /\ x \in whole
    BY <1>1 DEF Step
  <2>2. button[1].selector[1] \in {"#", "class", "text"}
    BY <1>1, ButtonIsNamed DEF IsPage
  <2> HIDE DEF x
  <2>3. ~OwnStep(x)
    BY <2>1, <2>2 DEF OwnStep
  <2>4. x \notin OwnSteps(parts, g.values)
    BY <2>3, OwnStepsAreOwn
  <2> QED BY <2>1, <2>4 DEF UsesForm
<1>2. CASE button = << >>
  <2> DEFINE form == FormSteps(inputs, g.values)
  <2>1. form # << >>
    <3>1. inputs # << >>
      BY <1>2
    <3>2. (inputs # << >>) = TRUE
      BY <3>1
    <3>3. button = _primary_button(_extract_buttons(dom), TRUE)
      BY <3>2
    <3> QED BY <1>2, <3>1, <3>3 DEF FilledIn
  <2>2. FormList(form)
    BY FormIsList
  <2> HIDE DEF form
  <2>3. 1 \in DOMAIN form
    BY <2>1, <2>2, TailFits DEF FormList
  <2>4. form[1] \in whole /\ form[1].action \in {"select", "check", "fill"}
    BY <2>2, <2>3 DEF FormList, Range, form
  <2>5. ~OwnStep(form[1])
    BY <2>4 DEF OwnStep
  <2>6. form[1] \notin OwnSteps(parts, g.values)
    BY <2>5, OwnStepsAreOwn
  <2> QED BY <2>4, <2>6 DEF UsesForm
<1> QED BY <1>1, <1>2

LEMMA ScenarioAccounts ==
  ASSUME NEW url, NEW dom, IsPage(dom), NEW g \in Goals, Fillable => FilledIn(dom, g),
         NEW inputs, inputs = _extract_inputs(dom), IsList(inputs), NEW buttons, buttons = _extract_buttons(dom),
         NEW plan, plan = _plan_scenario(url, inputs, buttons, g)
  PROVE  Accounts(plan.steps, plan.untested, g)
<1> DEFINE values  == g.values
           parts   == split_goal(g.pieces)
           useForm == parts = << >> \/ ByForm(parts[1], values)
           filled  == FormSteps(inputs, values)
           form    == IF useForm THEN filled ELSE << >>
           button  == IF useForm THEN _primary_button(buttons, inputs # << >>) ELSE << >>
           used    == useForm /\ (inputs # << >> \/ button # << >>)
           planned == plan_goal(parts, inputs, values, used)
           fills   == Fills(form)
           x == Step("click", button[1].selector, << >>)
           y == Step("press", fills[Len(fills)].target, <<"Enter">>)
           z == Step("assert_visible", <<"body">>, << >>)
           sends   == CASE button # << >> -> <<x>>
                        [] button = << >> /\ fills # << >> -> <<y>>
                        [] button = << >> /\ fills = << >> /\ planned.steps # << >> -> << >>
                        [] OTHER -> <<z>>
           opens == <<Step("navigate", << >>, url)>>
<1>1. plan.steps = ((opens \o form) \o sends) \o planned.steps /\ plan.untested = planned.untested
  BY DEF _plan_scenario
<1>2. IsList(parts)
  BY SplitIsList
<1>3. IsList(filled)
  BY FormIsList DEF FormList
<1>3a. button # << >> => sends = <<x>>
  OBVIOUS
<1>3b. used => useForm /\ form = filled /\ button = _primary_button(buttons, inputs # << >>)
              /\ (inputs # << >> \/ button # << >>)
  OBVIOUS
<1> HIDE DEF filled, fills, x, y, z, button, used
<1>4. IsList(form)
  BY <1>3, EmptyList
<1>5. sends \in {<<x>>, <<y>>, <<z>>, << >>}
  OBVIOUS
<1> HIDE DEF sends, form
<1>6. IsList(sends)
  BY <1>5, OneList, EmptyList
<1>7. IsList(opens)
  BY OneList
<1> HIDE DEF opens, parts, planned
<1>8. IsList((opens \o form) \o sends)
  BY <1>4, <1>6, <1>7, JoinedFits
<1> DEFINE front == (opens \o form) \o sends
           ss == planned.steps
<1>9. /\ IsList(ss)
      /\ \A k \in DOMAIN parts :
           \/ k = 1 /\ used
           \/ parts[k] \in planned.untested
           \/ /\ later_part_steps(parts[k], values) # << >>
              /\ \A j \in DOMAIN later_part_steps(parts[k], values) :
                   \E i \in DOMAIN ss : ss[i] = later_part_steps(parts[k], values)[j]
  BY <1>2, PartsAccounted DEF planned
<1>10. IsList(front)
  BY <1>8
<1>10a. IsList(ss)
  BY <1>9
<1>10b. Range(form) \subseteq Range(front) /\ Range(sends) \subseteq Range(front)
  <2> DEFINE early == opens \o form
  <2>1. JoinOf(early, opens, form)
    BY <1>4, <1>7 DEF JoinOf
  <2>2. IsList(early)
    BY <1>4, <1>7, JoinedFits
  <2>3. front = early \o sends
    OBVIOUS
  <2> HIDE DEF early, front
  <2>4. JoinOf(front, early, sends)
    BY <1>6, <2>2, <2>3 DEF JoinOf
  <2>5. Range(form) \subseteq Range(early)
    BY <2>1, RearStays DEF Range
  <2>6. Range(early) \subseteq Range(front)
    BY <2>4, FrontStays DEF Range
  <2>7. Range(sends) \subseteq Range(front)
    BY <2>4, RearStays DEF Range
  <2> QED BY <2>5, <2>6, <2>7
<1> HIDE DEF front, ss, values, useForm
<1> DEFINE all == front \o ss
<1>11. \A j \in DOMAIN ss : \E i \in DOMAIN all : all[i] = ss[j]
  <2>1. JoinOf(all, front, ss)
    BY <1>10, <1>10a DEF JoinOf
  <2> HIDE DEF all
  <2> QED BY <2>1, RearStays
<1>11a. Range(front) \subseteq Range(all)
  <2>1. JoinOf(all, front, ss)
    BY <1>10, <1>10a DEF JoinOf
  <2> HIDE DEF all
  <2> QED BY <2>1, FrontStays DEF Range
<1>12. plan.steps = all
  BY <1>1 DEF front, ss
<1> HIDE DEF all
<1>13. ASSUME NEW k \in DOMAIN parts
       PROVE  \/ k = 1 /\ used
              \/ parts[k] \in plan.untested
              \/ /\ later_part_steps(parts[k], values) # << >>
                 /\ Range(later_part_steps(parts[k], values)) \subseteq Range(plan.steps)
  <2> DEFINE t == later_part_steps(parts[k], values)
  <2>1. \/ k = 1 /\ used
        \/ parts[k] \in plan.untested
        \/ t # << >> /\ \A j \in DOMAIN t : \E i \in DOMAIN all : all[i] = t[j]
    BY <1>1, <1>9, <1>11
  <2> HIDE DEF t
  <2>2. \A j \in DOMAIN t : (\E i \in DOMAIN all : all[i] = t[j]) => t[j] \in Range(all)
    BY DEF Range
  <2>3. (\A j \in DOMAIN t : t[j] \in Range(all)) => Range(t) \subseteq Range(all)
    BY DEF Range
  <2>4. (k = 1 /\ used) \/ parts[k] \in plan.untested \/ (t # << >> /\ Range(t) \subseteq Range(plan.steps))
    BY <1>12, <2>1, <2>2, <2>3
  <2> QED BY <2>4 DEF t
<1>14. used /\ Fillable => UsesForm(Range(plan.steps), parts, values)
  <2> SUFFICES ASSUME used, Fillable PROVE UsesForm(Range(plan.steps), parts, values)
    OBVIOUS
  <2>1. FilledIn(dom, g) /\ button = _primary_button(_extract_buttons(dom), inputs # << >>)
        /\ (inputs # << >> \/ button # << >>)
    BY <1>3b
  <2>2. Range(FormSteps(inputs, g.values)) \subseteq Range(plan.steps)
    BY <1>3b, <1>10b, <1>11a, <1>12 DEF filled, values
  <2>3. button # << >> => x \in Range(plan.steps)
    <3>1. x \in Range(<<x>>)
      BY OneList DEF Range
    <3> QED BY <1>3a, <1>10b, <1>11a, <1>12, <3>1
  <2> DEFINE whole == Range(plan.steps)
  <2>4. (button # << >> => Step("click", button[1].selector, << >>) \in whole)
        /\ Range(FormSteps(inputs, g.values)) \subseteq whole
    BY <2>2, <2>3 DEF x
  <2> HIDE DEF whole
  <2> QED BY <2>1, <2>4, FormIsUsed DEF whole, values
<1> QED BY <1>13, <1>14 DEF Accounts, parts, values

LEMMA AnalyzedFits ==
  ASSUME NEW html \in Htmls, NEW renders \in BOOLEAN, NEW g \in Goals
  PROVE  PageFits(analyze_live_website(html, renders, g), g)
<1> DEFINE shell == html.status < 400 /\ _looks_client_rendered(html)
           dom   == IF shell /\ renders THEN html.dom ELSE html
           inputs  == _extract_inputs(dom)
           buttons == _extract_buttons(dom)
           plan    == _plan_scenario(html.url, inputs, buttons, g)
           a == analyze_live_website(html, renders, g)
<1>1. a.links = dom.links /\ a.steps = plan.steps /\ a.untested = plan.untested
  BY DEF analyze_live_website
<1>2. IsPage(dom)
  BY SuiteAssumption
<1>2a. Fillable => FilledIn(dom, g)
  BY DEF Fillable
<1> HIDE DEF dom
<1>3. IsList(inputs)
  <2> DEFINE fields == dom.fields
             I == {i \in DOMAIN fields : /\ fields[i].type \notin {"hidden", "image"}
                                         /\ fields[i].type \in {"textarea", "select"} => fields[i].id # "" \/ fields[i].name # ""}
             kept == Picked(fields, I)
  <2>1. IsList(fields) /\ I \subseteq DOMAIN fields
    BY <1>2 DEF IsPage
  <2>2. DOMAIN inputs = DOMAIN kept /\ inputs = [i \in DOMAIN kept |-> inputs[i]]
    BY DEF _extract_inputs
  <2> HIDE DEF I, fields, inputs
  <2>3. IsList(kept)
    BY <2>1, PickedFits
  <2> HIDE DEF kept
  <2> QED BY <2>2, <2>3, MadeList
<1>3a. inputs = _extract_inputs(dom) /\ buttons = _extract_buttons(dom)
  OBVIOUS
<1> HIDE DEF inputs, buttons
<1>4. Accounts(plan.steps, plan.untested, g)
  BY <1>2, <1>2a, <1>3, <1>3a, ScenarioAccounts
<1> HIDE DEF plan, a
<1>5. PageFits(a, g)
  BY <1>1, <1>2, <1>4 DEF PageFits, IsPage, UrlsKnown
<1> QED BY <1>5 DEF a

-----------------------------------------------------------------------------
(* The tests the plan is made of. *)

LEMMA JoinedTests ==
  ASSUME NEW a, NEW pages, NEW g, NEW s, NEW t, AllFit(s, a, pages, g), AllFit(t, a, pages, g)
  PROVE  AllFit(s \o t, a, pages, g)
<1> DEFINE u == s \o t
<1>1. /\ IsList(u)
      /\ \A i \in DOMAIN u : \/ i \in DOMAIN s /\ u[i] = s[i]
                             \/ i - Len(s) \in DOMAIN t /\ u[i] = t[i - Len(s)]
  BY JoinedFits DEF AllFit
<1> HIDE DEF u
<1>2. AllFit(u, a, pages, g)
  BY <1>1 DEF AllFit
<1> QED BY <1>2 DEF u

LEMMA OneTest ==
  ASSUME NEW a, NEW pages, NEW g, NEW t, TodoFits(t, a, pages, g)
  PROVE  AllFit(<<t>>, a, pages, g) /\ AllFit(<< >>, a, pages, g)
<1>1. AllFit(<<t>>, a, pages, g)
  BY OneList DEF AllFit
<1>2. AllFit(<< >>, a, pages, g)
  BY EmptyList DEF AllFit
<1> QED BY <1>1, <1>2

LEMMA PageSlugKinds ==
  ASSUME NEW url, NEW slug \in PageSlugs(url)
  PROVE  slug[1] \in {"link", "route"}
BY DEF PageSlugs

(* Nothing is asked of the steps of any other test. *)
LEMMA OtherFits ==
  ASSUME NEW slug, slug[1] \notin {"ai", "interaction", "link", "route"}
  PROVE  \A ss, a, pages, g : StepsFit(slug, ss, a, pages, g)
<1>1. slug # <<"interaction">> /\ slug[1] # "ai"
  OBVIOUS
<1>2. \A url : slug \notin PageSlugs(url)
  BY PageSlugKinds
<1> QED BY <1>1, <1>2 DEF StepsFit

LEMMA PageTestsFit ==
  ASSUME NEW a, NEW pages, NEW g, Accounts(a.steps, a.untested, g)
  PROVE  AllFit(page_tests(a), a, pages, g)
<1> DEFINE x == <<Opens(a.url)>> \o Shows(a.title) \o <<Renders>>
           y == <<Opens(a.url), Step("assert_contains_text", <<"body">>, <<a.headings[1]>>)>>
           s == Test(<<"smoke">>, "smoke", x)
           t == Test(<<"interaction">>, "functional", a.steps)
           u == Test(<<"content">>, "content", y)
           uses == \E i \in DOMAIN a.steps : a.steps[i].action \in {"fill", "click", "press"}
           first == <<s>>
           next == IF uses THEN <<t>> ELSE << >>
           rear == IF a.headings = << >> THEN << >> ELSE <<u>>
<1>1. page_tests(a) = (first \o next) \o rear
  BY DEF page_tests
<1> HIDE DEF x, y
<1>2. /\ s.slug = <<"smoke">> /\ s.category = "smoke"
      /\ t.slug = <<"interaction">> /\ t.category = "functional" /\ t.steps = a.steps
      /\ u.slug = <<"content">> /\ u.category = "content"
  BY DEF Test
<1> HIDE DEF s, t, u
<1>3. TodoFits(s, a, pages, g)
  <2>1. s.slug[1] = "smoke"
    BY <1>2
  <2> QED BY <1>2, <2>1, OtherFits DEF TodoFits, TestFits
<1>4. TodoFits(u, a, pages, g)
  <2>1. u.slug[1] = "content"
    BY <1>2
  <2> QED BY <1>2, <2>1, OtherFits DEF TodoFits, TestFits
<1>5. uses => TodoFits(t, a, pages, g)
  <2>1. t.slug[1] = "interaction"
    BY <1>2
  <2>2. \A url : t.slug \notin PageSlugs(url)
    BY <2>1, PageSlugKinds
  <2> QED BY <1>2, <2>1, <2>2 DEF TodoFits, TestFits, StepsFit
<1> HIDE DEF uses
<1>6. AllFit(first, a, pages, g) /\ AllFit(<< >>, a, pages, g)
  BY <1>3, OneTest
<1>7. AllFit(next, a, pages, g)
  BY <1>5, <1>6, OneTest
<1>8. AllFit(rear, a, pages, g)
  BY <1>4, <1>6, OneTest
<1> HIDE DEF first, next, rear
<1>9. AllFit(first \o next, a, pages, g)
  BY <1>6, <1>7, JoinedTests
<1> QED BY <1>1, <1>8, <1>9, JoinedTests

LEMMA AskedFit ==
  ASSUME NEW answer \in Answers, NEW a, NEW pages, NEW g
  PROVE  AllFit(ai_tests(answer, a), a, pages, g)
<1> DEFINE tests == ai_tests(answer, a)
<1>1. IsList(tests) /\ \A k \in DOMAIN tests : AiFits(tests[k], answer, a)
  BY AiTestsFit
<1> HIDE DEF tests
<1>2. ASSUME NEW k \in DOMAIN tests
      PROVE  TodoFits(tests[k], a, pages, g)
  <2> DEFINE t == tests[k]
  <2>1. AiFits(t, answer, a)
    BY <1>1
  <2> HIDE DEF t
  <2>2. t.category = "ai" /\ t.slug[1] = "ai" /\ t.slug # <<"interaction">> /\ OnPage(t.steps, a)
    BY <2>1 DEF AiFits
  <2>3. \A url : t.slug \notin PageSlugs(url)
    BY <2>2, PageSlugKinds
  <2>4. StepsFit(t.slug, t.steps, a, pages, g)
    BY <2>2, <2>3 DEF StepsFit
  <2>5. TodoFits(t, a, pages, g)
    BY <2>2, <2>4 DEF TodoFits, TestFits
  <2> QED BY <2>5 DEF t
<1>3. AllFit(tests, a, pages, g)
  BY <1>1, <1>2 DEF AllFit
<1> QED BY <1>3 DEF tests

(* A page's test opens the page. *)
LEMMA BothLists ==
  ASSUME NEW s, NEW t, IsList(s), IsList(t)
  PROVE  IsList(s \o t)
BY JoinedFits

LEMMA ChecksAfterOpening ==
  ASSUME NEW c, NEW pg
  PROVE  \E rest : IsList(rest) /\ page_check_test(c, pg) = [render_test(c) EXCEPT !.steps = <<Opens(c.url)>> \o rest]
<1> DEFINE fields  == SelectSeq(pg.inputs, LAMBDA f : f.type \notin _NO_FIELD)
           buttons == SelectSeq(pg.buttons, LAMBDA b : b.selector # <<"button">>)
           seen(s) == IF s = << >> THEN << >> ELSE <<Step("assert_visible", s[1].selector, << >>)>>
           titled == Shows(pg.title)
           headed == IF pg.headings = << >> THEN << >>
                     ELSE <<Step("assert_contains_text", <<"body">>, <<pg.headings[1]>>)>>
           checks == titled \o headed \o seen(fields) \o seen(buttons)
           rest == IF checks = << >> THEN <<Renders>> ELSE checks
<1>1. page_check_test(c, pg) = [render_test(c) EXCEPT !.steps = <<Opens(c.url)>> \o rest]
  BY DEF page_check_test
<1>2. ASSUME NEW s PROVE IsList(seen(s))
  <2> DEFINE x == Step("assert_visible", s[1].selector, << >>)
  <2>1. seen(s) \in {<< >>, <<x>>}
    OBVIOUS
  <2> HIDE DEF x, seen
  <2> QED BY <2>1, OneList, EmptyList
<1>3. IsList(titled)
  <2> DEFINE x == Step("assert_contains_text", <<"head > title">>, <<pg.title>>)
  <2>1. titled \in {<< >>, <<x>>}
    BY DEF Shows
  <2> HIDE DEF x, titled
  <2> QED BY <2>1, OneList, EmptyList
<1>4. IsList(headed)
  <2> DEFINE x == Step("assert_contains_text", <<"body">>, <<pg.headings[1]>>)
  <2>1. headed \in {<< >>, <<x>>}
    OBVIOUS
  <2> HIDE DEF x, headed
  <2> QED BY <2>1, OneList, EmptyList
<1>5. IsList(seen(fields)) /\ IsList(seen(buttons))
  BY <1>2
<1>6. IsList(<<Renders>>)
  BY OneList
<1> DEFINE third == seen(fields)
           fourth == seen(buttons)
<1>5a. IsList(third) /\ IsList(fourth)
  BY <1>5
<1>7. checks = ((titled \o headed) \o third) \o fourth
  OBVIOUS
<1> HIDE DEF titled, headed, seen, fields, buttons, checks, third, fourth
<1>8. IsList(checks)
  <2>1. IsList(titled \o headed)
    BY <1>3, <1>4, BothLists
  <2>2. IsList((titled \o headed) \o third)
    BY <1>5a, <2>1, BothLists
  <2> QED BY <1>5a, <1>7, <2>2, BothLists
<1>9. IsList(rest)
  BY <1>6, <1>8
<1> HIDE DEF rest
<1> QED BY <1>1, <1>9

LEMMA PageTestOpens ==
  ASSUME NEW c, NEW analyzed, NEW t, t = PageTest(c, analyzed)
  PROVE  /\ t.slug = <<c.kind, Slug[Path(c.url)]>> /\ t.category = c.kind
         /\ Opened(t.steps, c.url)
<1> DEFINE o == Opens(c.url)
           slug == <<c.kind, Slug[Path(c.url)]>>
           check == Step("assert_url", << >>, <<Path(c.url)>>)
           pg == analyze_live_website(Others[c.url], FALSE, NoGoal)
           Begins(s) == 1 \in DOMAIN s /\ s[1] = o
<1>1. o.action = "navigate" /\ o.value = c.url
  BY DEF Opens, Step
<1>2. render_test(c) = [slug |-> slug, category |-> c.kind, steps |-> <<o, Renders>>]
  BY DEF render_test, Test
<1>3. PICK rest : IsList(rest) /\ page_check_test(c, pg) = [render_test(c) EXCEPT !.steps = <<o>> \o rest]
  BY ChecksAfterOpening
<1>4. \E ss : Begins(ss) /\ t = [slug |-> slug, category |-> c.kind, steps |-> ss]
  <2> DEFINE x == <<o, Renders>>
             y == Append(x, check)
             z == <<o>> \o rest
  <2>1. Begins(x) /\ Begins(y)
    <3> HIDE DEF o, check
    <3> QED OBVIOUS
  <2>2. Begins(z)
    <3> HIDE DEF o
    <3>1. IsList(<<o>>) /\ 1 \in DOMAIN <<o>> /\ <<o>>[1] = o
      BY OneList
    <3> DEFINE f == <<o>>
    <3>2. IsList(f) /\ 1 \in DOMAIN f /\ f[1] = o
      BY <3>1
    <3> HIDE DEF f
    <3>3. 1 \in DOMAIN (f \o rest) /\ (f \o rest)[1] = f[1]
      BY <1>3, <3>2, JoinedFits
    <3> QED BY <3>2, <3>3 DEF f
  <2> HIDE DEF o, check, slug, pg
  <2> DEFINE T(s) == [slug |-> slug, category |-> c.kind, steps |-> s]
  <2>3. render_test(c) = T(x)
    BY <1>2
  <2>4. stays_on_page_test(c) \in {T(x), T(y)}
    BY <2>3 DEF stays_on_page_test, check, Opens
  <2> HIDE DEF x, z
  <2>4a. page_check_test(c, pg) = [T(x) EXCEPT !.steps = z]
    BY <1>3, <2>3 DEF z
  <2>5. page_check_test(c, pg) = T(z)
    BY <2>4a
  <2>6. t \in {T(x), T(y), T(z)}
    BY <2>3, <2>4, <2>5 DEF PageTest, pg
  <2> HIDE DEF x, y, z
  <2> QED BY <2>1, <2>2, <2>6
<1>5. PICK ss : Begins(ss) /\ t = [slug |-> slug, category |-> c.kind, steps |-> ss]
  BY <1>4
<1>6. Opened(ss, c.url)
  BY <1>1, <1>5 DEF Opened
<1>7. t.slug = slug /\ t.category = c.kind /\ t.steps = ss
  BY <1>5
<1> QED BY <1>6, <1>7

(* Candidates are links and routes whose paths have a slug. *)
Known(c) == c.kind \in {"link", "route"} /\ Path(c.url) \in DOMAIN Slug

AllKnown(s) == IsList(s) /\ \A i \in DOMAIN s : Known(s[i])

LEMMA OfferedKnown ==
  ASSUME NEW s, UrlsKnown(s), NEW base, NEW old, NEW n \in Nat
  PROVE  UrlsKnown(UpTo(Picked(s, Offered(s, base, old)), n))
<1> DEFINE p == Picked(s, Offered(s, base, old))
           q == UpTo(p, n)
<1>1. Offered(s, base, old) \subseteq DOMAIN s
  BY DEF Offered
<1>2. SomeIn(p, s) /\ IsList(p)
  BY <1>1, SomeOf DEF UrlsKnown, SomeIn
<1> HIDE DEF p
<1>3. SomeIn(q, p)
  BY <1>2, SomeOf
<1> HIDE DEF q
<1>4. UrlsKnown(q)
  BY <1>2, <1>3 DEF SomeIn, UrlsKnown
<1> QED BY <1>4 DEF q, p

LEMMA KindsKnown ==
  ASSUME NEW s, UrlsKnown(s), NEW kind \in {"link", "route"}
  PROVE  AllKnown([i \in DOMAIN s |-> Candidate(kind, s[i])])
<1> DEFINE t == [i \in DOMAIN s |-> Candidate(kind, s[i])]
<1>1. DOMAIN t = DOMAIN s /\ t = [i \in DOMAIN s |-> t[i]]
  OBVIOUS
<1>2. \A i \in DOMAIN s : t[i].kind = kind /\ t[i].url = s[i]
  BY DEF Candidate
<1> HIDE DEF t
<1>3. IsList(t)
  BY <1>1, MadeList DEF UrlsKnown
<1>4. AllKnown(t)
  BY <1>1, <1>2, <1>3 DEF AllKnown, Known, UrlsKnown
<1> QED BY <1>4 DEF t

LEMMA JoinedKnown ==
  ASSUME NEW s, NEW t, AllKnown(s), AllKnown(t)
  PROVE  AllKnown(s \o t)
<1> DEFINE u == s \o t
<1>1. /\ IsList(u)
      /\ \A i \in DOMAIN u : \/ i \in DOMAIN s /\ u[i] = s[i]
                             \/ i - Len(s) \in DOMAIN t /\ u[i] = t[i - Len(s)]
  BY JoinedFits DEF AllKnown
<1> HIDE DEF u
<1>2. AllKnown(u)
  BY <1>1 DEF AllKnown
<1> QED BY <1>2 DEF u

LEMMA CandidatesKnown ==
  ASSUME NEW a, UrlsKnown(a.links), NEW b, RoutesKnown(b)
  PROVE  AllKnown(candidate_pages(a, b))
<1> DEFINE given  == a.links
           found  == _get_routes(b)
           paths  == [i \in DOMAIN found |-> <<Host(a.url), found[i].path, "", "">>]
           links  == UpTo(Picked(given, Offered(given, a.url, {_normalize(a.url)})), LINK_PAGES)
           seen   == {_normalize(a.url)} \union {_normalize(links[i]) : i \in DOMAIN links}
           routes == UpTo(Picked(paths, Offered(paths, a.url, seen)), ROUTE_PAGES)
           L == [i \in DOMAIN links |-> Candidate("link", links[i])]
           R == [i \in DOMAIN routes |-> Candidate("route", routes[i])]
<1>1. candidate_pages(a, b) = L \o R
  BY DEF candidate_pages
<1>2. LINK_PAGES \in Nat /\ ROUTE_PAGES \in Nat
  BY PagePlanAssumption
<1>3. UrlsKnown(given)
  OBVIOUS
<1> HIDE DEF given, seen
<1>4. UrlsKnown(links)
  BY <1>2, <1>3, OfferedKnown
<1>5. SomeIn(found, b)
  <2> DEFINE I == {i \in DOMAIN b : b[i].method \in {"GET", "ANY", "*", "ALL"} /\ ~b[i].param /\ ~b[i].api}
  <2>1. I \subseteq DOMAIN b /\ found = Picked(b, I) /\ IsList(b)
    BY DEF _get_routes, RoutesKnown
  <2> HIDE DEF I, found
  <2> QED BY <2>1, SomeOf
<1> HIDE DEF found, links
<1>6. UrlsKnown(paths)
  <2>1. DOMAIN paths = DOMAIN found /\ paths = [i \in DOMAIN found |-> paths[i]]
    OBVIOUS
  <2>2. \A i \in DOMAIN found : Path(paths[i]) = found[i].path
    BY DEF Path
  <2> HIDE DEF paths
  <2>3. IsList(paths)
    BY <1>5, <2>1, MadeList DEF SomeIn
  <2> QED BY <1>5, <2>1, <2>2, <2>3 DEF SomeIn, RoutesKnown, UrlsKnown
<1> HIDE DEF paths
<1>7. UrlsKnown(routes)
  BY <1>2, <1>6, OfferedKnown
<1> HIDE DEF routes
<1>8. AllKnown(L) /\ AllKnown(R)
  BY <1>4, <1>7, KindsKnown
<1> HIDE DEF L, R
<1> QED BY <1>1, <1>8, JoinedKnown

LEMMA ReachableKnown ==
  ASSUME NEW s, AllKnown(s)
  PROVE  AllKnown(_reachable(s))
<1> DEFINE I == {i \in DOMAIN s : Others[s[i].url].status \in 1..399}
           p == _reachable(s)
<1>1. I \subseteq DOMAIN s /\ p = Picked(s, I) /\ IsList(s)
  BY DEF _reachable, AllKnown
<1> HIDE DEF I, p
<1>2. SomeIn(p, s)
  BY <1>1, SomeOf
<1>3. AllKnown(p)
  BY <1>2 DEF SomeIn, AllKnown
<1> QED BY <1>3 DEF p

(* Each page of the plan has a test, and each of these tests opens its page. *)
LEMMA OtherPagesFit ==
  ASSUME NEW candidates, AllKnown(candidates), NEW analyzed, NEW a, NEW g,
         NEW tests, tests = [i \in DOMAIN candidates |-> PageTest(candidates[i], i \in analyzed)],
         NEW pages, pages = {c.url : c \in Range(candidates)}
  PROVE  /\ AllFit(tests, a, pages, g)
         /\ \A url \in pages : Path(url) \in DOMAIN Slug
         /\ \A url \in pages : \E i \in DOMAIN tests : tests[i].slug \in PageSlugs(url)
<1>1. DOMAIN tests = DOMAIN candidates /\ tests = [i \in DOMAIN candidates |-> tests[i]]
  OBVIOUS
<1>2. IsList(tests)
  BY <1>1, MadeList DEF AllKnown
<1>3. ASSUME NEW i \in DOMAIN candidates
      PROVE  LET c == candidates[i] IN
             /\ tests[i].slug = <<c.kind, Slug[Path(c.url)]>> /\ tests[i].category = c.kind
             /\ Opened(tests[i].steps, c.url)
  <2> DEFINE c == candidates[i]
             w == i \in analyzed
             t == PageTest(c, w)
  <2>1. tests[i] = t
    OBVIOUS
  <2> HIDE DEF c, w
  <2>2. t.slug = <<c.kind, Slug[Path(c.url)]>> /\ t.category = c.kind /\ Opened(t.steps, c.url)
    BY PageTestOpens
  <2> HIDE DEF t
  <2> QED BY <2>1, <2>2 DEF c
<1>4. \A url \in pages : \E i \in DOMAIN candidates : url = candidates[i].url
  BY DEF Range
<1>5. \A i \in DOMAIN candidates : Known(candidates[i])
  BY DEF AllKnown
<1>6. \A url \in pages : Path(url) \in DOMAIN Slug
  BY <1>4, <1>5 DEF Known
<1>7. ASSUME NEW url \in pages
      PROVE  \E i \in DOMAIN tests : tests[i].slug \in PageSlugs(url)
  <2>1. PICK i \in DOMAIN candidates : url = candidates[i].url
    BY <1>4
  <2>2. candidates[i].kind \in {"link", "route"}
    BY <1>5 DEF Known
  <2>3. tests[i].slug \in PageSlugs(url)
    BY <1>3, <2>1, <2>2 DEF PageSlugs
  <2> QED BY <1>1, <2>3
<1>8. ASSUME NEW i \in DOMAIN tests
      PROVE  TodoFits(tests[i], a, pages, g)
  <2> DEFINE c == candidates[i]
             t == tests[i]
             ss == t.steps
  <2>1. t.slug = <<c.kind, Slug[Path(c.url)]>> /\ t.category = c.kind /\ Opened(ss, c.url)
    BY <1>1, <1>3
  <2>2. Known(c)
    BY <1>1, <1>5
  <2> HIDE DEF c, t, ss
  <2>3. t.slug[1] = c.kind /\ c.kind \notin {"ai", "interaction"} /\ t.slug # <<"interaction">>
    BY <2>1, <2>2 DEF Known
  <2>4. ASSUME Apart, NEW url \in pages, t.slug \in PageSlugs(url)
        PROVE  Opened(ss, url)
    <3>1. Slug[Path(c.url)] = Slug[Path(url)]
      BY <2>1, <2>4 DEF PageSlugs
    <3>2. Path(c.url) = Path(url)
      BY <1>6, <2>2, <2>4, <3>1 DEF Known, Apart
    <3> QED BY <2>1, <3>2 DEF Opened
  <2>5. StepsFit(t.slug, ss, a, pages, g)
    BY <2>3, <2>4 DEF StepsFit
  <2>6. TodoFits(t, a, pages, g)
    BY <2>1, <2>2, <2>3, <2>5 DEF TodoFits, TestFits, Known, ss
  <2> QED BY <2>6 DEF t
<1>9. AllFit(tests, a, pages, g)
  BY <1>2, <1>8 DEF AllFit
<1> QED BY <1>6, <1>7, <1>9

-----------------------------------------------------------------------------
(* Frames: what a step may do to the rows and to the run. *)

(* A row that appears or changes in S is one a user touched, or fits. *)
Keeps(R, S, T, U, a, pages, g) ==
  /\ T \subseteq U
  /\ \A slug \in DOMAIN S :
       slug \in U \/ (slug \in DOMAIN R /\ S[slug].steps = R[slug].steps) \/ StepsFit(slug, S[slug].steps, a, pages, g)

LEMMA StillKeeps ==
  ASSUME NEW R, NEW S, NEW T, NEW U, NEW a, NEW pages, NEW g, Keeps(R, S, T, U, a, pages, g)
  PROVE  /\ \A slug : StillFits(slug, R, T, a, pages, g) => StillFits(slug, S, U, a, pages, g)
         /\ \A cs : CasesFit(cs, R, T, a, pages, g) => CasesFit(cs, S, U, a, pages, g)
         /\ \A c : FreshFits(c, R, T, a, pages, g) => FreshFits(c, S, U, a, pages, g)
         /\ \A rs : ResultsFit(rs, T, a, pages, g) => ResultsFit(rs, U, a, pages, g)
<1>1. \A slug : StillFits(slug, R, T, a, pages, g) => StillFits(slug, S, U, a, pages, g)
  BY DEF Keeps, StillFits
<1>2. \A cs : CasesFit(cs, R, T, a, pages, g) => CasesFit(cs, S, U, a, pages, g)
  BY <1>1 DEF CasesFit
<1>3. \A c : FreshFits(c, R, T, a, pages, g) => FreshFits(c, S, U, a, pages, g)
  BY <1>1 DEF FreshFits
<1>4. \A r : ResultFits(r, T, a, pages, g) => ResultFits(r, U, a, pages, g)
  BY DEF Keeps, ResultFits
<1>5. \A rs : ResultsFit(rs, T, a, pages, g) => ResultsFit(rs, U, a, pages, g)
  BY <1>4 DEF ResultsFit
<1> QED BY <1>1, <1>2, <1>3, <1>5

LEMMA NoChange ==
  ASSUME NEW R, NEW T, NEW a, NEW pages, NEW g
  PROVE  Keeps(R, R, T, T, a, pages, g)
BY DEF Keeps

LEMMA ReportStays ==
  ASSUME ReportInv, UNCHANGED <<goal, ended>>, touched \subseteq touched'
  PROVE  ReportInv'
<1>1. PlannerStaysOnThePage'
  BY DEF ReportInv, PlannerStaysOnThePage
<1>2. ASSUME Apart, NEW url \in ended.pages, Reported, PageSlugs(url) \intersect touched' = {}
      PROVE  \E r \in Range(ended.tests) : \E k \in DOMAIN r.steps :
               r.steps[k].action = "navigate" /\ Path(r.steps[k].value) = Path(url)
  <2>1. PageSlugs(url) \intersect touched = {}
    BY <1>2
  <2> QED BY <1>2, <2>1 DEF ReportInv, EveryPathIsVisited
<1>3. Apart => EveryPathIsVisited'
  BY <1>2 DEF EveryPathIsVisited, Reported
<1>4. Fillable => GoalIsAccountedFor'
  BY DEF ReportInv, GoalIsAccountedFor, Reported
<1> QED BY <1>1, <1>3, <1>4 DEF ReportInv

LEMMA NoReport ==
  ASSUME ended' = Error \/ ended' = NoRun
  PROVE  ReportInv'
<1>1. ended'.tests = << >> /\ ended'.status \in {"none", "error"}
  BY DEF Error, NoRun
<1>2. Range(ended'.tests) = {}
  BY <1>1, EmptyList DEF Range
<1>3. PlannerStaysOnThePage'
  BY <1>2 DEF PlannerStaysOnThePage
<1>4. ~Reported'
  BY <1>1 DEF Reported
<1>5. EveryPathIsVisited' /\ GoalIsAccountedFor'
  BY <1>4 DEF EveryPathIsVisited, GoalIsAccountedFor
<1> QED BY <1>3, <1>5 DEF ReportInv

(* A run at its beginning, or none. *)
Beginning(s) ==
  /\ s = [x \in StFields |-> s[x]]
  /\ s.pc \in {"idle", "codebase", "analyze", "plan"}
  /\ s.todo = << >> /\ s.cases = << >> /\ s.results = << >> /\ s.pages = {}
  /\ s.fresh = NoTest /\ s.was = NoTest

LEMMA IdleBegins == Beginning(Idle) /\ Beginning([Idle EXCEPT !.pc = "codebase"])
<1>1. Idle = [x \in StFields |-> Idle[x]]
  BY IdleFacts
<1>2. /\ Idle.pc = "idle" /\ Idle.todo = << >> /\ Idle.cases = << >> /\ Idle.results = << >> /\ Idle.pages = {}
      /\ Idle.fresh = NoTest /\ Idle.was = NoTest
  BY DEF Idle
<1> DEFINE s == [Idle EXCEPT !.pc = "codebase"]
<1>3. /\ s = [x \in StFields |-> s[x]] /\ s.pc = "codebase"
      /\ s.todo = Idle.todo /\ s.cases = Idle.cases /\ s.results = Idle.results /\ s.pages = Idle.pages
      /\ s.fresh = Idle.fresh /\ s.was = Idle.was
  BY <1>1 DEF StFields
<1> HIDE DEF s
<1>4. Beginning(s)
  BY <1>2, <1>3 DEF Beginning
<1>5. Beginning(Idle)
  BY <1>1, <1>2 DEF Beginning
<1> QED BY <1>4, <1>5 DEF s

LEMMA EarlyRun ==
  ASSUME RunInv, st.pc \in {"idle", "codebase", "analyze", "plan"}
  PROVE  Beginning(st)
BY DEF RunInv, InputInv, TodoInv, EntryInv, Beginning

LEMMA BeginningRuns ==
  ASSUME RunInv, UNCHANGED <<rows, made>>, goal' \in Goals, RoutesKnown(blueprint'), Beginning(st'),
         st'.pc = "plan" => PageFits(st'.page, goal'), ReportInv'
  PROVE  RunInv'
<1>1. TableInv'
  BY DEF RunInv, TableInv
<1>2. InputInv'
  BY DEF InputInv, Beginning
<1>3. TodoInv'
  BY EmptyList DEF TodoInv, Beginning, AllFit
<1>4. EntryInv'
  BY EmptyList DEF EntryInv, Beginning, CasesFit
<1>5. ResultInv'
  BY EmptyList DEF ResultInv, ResultsFit, Beginning
<1>6. CompleteInv'
  BY DEF CompleteInv, PagesKept, Beginning
<1> QED BY <1>1, <1>2, <1>3, <1>4, <1>5, <1>6 DEF RunInv

LEMMA InitRun == Init => RunInv
<1> SUFFICES ASSUME Init PROVE RunInv
  OBVIOUS
<1>1. DOMAIN rows = {} /\ st = Idle /\ ended = NoRun /\ made = 0 /\ goal \in Goals /\ blueprint = << >>
  BY EmptyList DEF Init
<1>2. TableInv
  BY <1>1 DEF TableInv
<1>3. RoutesKnown(blueprint)
  BY <1>1, EmptyList DEF RoutesKnown
<1>a. Beginning(st) /\ st.pc # "plan"
  BY <1>1, IdleBegins, IdleFacts
<1>b. InputInv
  BY <1>1, <1>3, <1>a DEF InputInv, Beginning
<1>c. TodoInv
  BY <1>a, EmptyList DEF TodoInv, Beginning, AllFit
<1>d. EntryInv
  BY <1>a, EmptyList DEF EntryInv, Beginning, CasesFit
<1>e. ResultInv /\ CompleteInv
  BY <1>a, EmptyList DEF ResultInv, ResultsFit, CompleteInv, PagesKept, Beginning
<1>5. ended.tests = << >> /\ ended.status = "none"
  BY <1>1 DEF NoRun
<1>6. Range(ended.tests) = {} /\ ~Reported
  BY <1>5, EmptyList DEF Range, Reported
<1>7. ReportInv
  BY <1>6 DEF ReportInv, PlannerStaysOnThePage, EveryPathIsVisited, GoalIsAccountedFor
<1> QED BY <1>2, <1>b, <1>c, <1>d, <1>e, <1>7 DEF RunInv

(* What a user does while a run is on. *)
LEMMA UserRuns ==
  ASSUME RunInv, UNCHANGED <<goal, blueprint, st, ended>>, TableInv',
         Keeps(rows, rows', touched, touched', st.page, st.pages, goal)
  PROVE  RunInv'
<1>1. InputInv' /\ TodoInv' /\ CompleteInv'
  BY DEF RunInv, InputInv, TodoInv, CompleteInv
<1>2. EntryInv' /\ ResultInv'
  BY StillKeeps DEF RunInv, EntryInv, ResultInv
<1>3. ReportInv'
  BY ReportStays DEF RunInv, Keeps
<1> QED BY <1>1, <1>2, <1>3 DEF RunInv

(* A row is written. *)
LEMMA PutTable ==
  ASSUME TableInv, NEW new, NEW e, RowFits(new, e, made'), made' \in Nat, made <= made', rows' = Put(new),
         new.id = made + 1 \/ (e \in DOMAIN rows /\ new.id = rows[e].id)
  PROVE  TableInv'
<1>1. new.ext = e
  BY DEF RowFits
<1>2. DOMAIN rows' = DOMAIN rows \union {e} /\ rows'[e] = new /\ \A d \in DOMAIN rows \ {e} : rows'[d] = rows[d]
  BY <1>1, PutFits
<1>3. ASSUME NEW d \in DOMAIN rows'
      PROVE  RowFits(rows'[d], d, made')
  <2>1. CASE d = e
    BY <1>2, <2>1
  <2>2. CASE d # e
    <3>1. RowFits(rows[d], d, made)
      BY <1>2, <2>2 DEF TableInv
    <3> QED BY <1>2, <2>2, <3>1, FitsMore DEF TableInv
  <2> QED BY <2>1, <2>2
<1>4. ASSUME NEW d \in DOMAIN rows', d # e
      PROVE  rows'[d].id # rows'[e].id
  <2>1. d \in DOMAIN rows /\ rows'[d] = rows[d] /\ rows[d].id \in 1..made /\ made \in Nat
    BY <1>2, <1>4 DEF TableInv, RowFits
  <2>2. e \in DOMAIN rows => rows[d].id # rows[e].id
    BY <1>4, <2>1 DEF TableInv
  <2> QED BY <1>2, <2>1, <2>2
<1>5. ASSUME NEW d \in DOMAIN rows', NEW f \in DOMAIN rows', rows'[d].id = rows'[f].id
      PROVE  d = f
  <2>1. CASE d = e
    BY <1>4, <1>5, <2>1
  <2>2. CASE f = e
    BY <1>4, <1>5, <2>2
  <2>3. CASE d # e /\ f # e
    BY <1>2, <1>5, <2>3 DEF TableInv
  <2> QED BY <2>1, <2>2, <2>3
<1> QED BY <1>3, <1>5 DEF TableInv

LEMMA PutStill ==
  ASSUME NEW new, NEW e, new.ext = e, rows' = Put(new), NEW a, NEW pages, NEW g,
         StepsFit(e, new.steps, a, pages, g) \/ (e \in DOMAIN rows /\ new.steps = rows[e].steps)
  PROVE  Keeps(rows, rows', touched, touched, a, pages, g)
<1>1. DOMAIN rows' = DOMAIN rows \union {e} /\ rows'[e] = new /\ \A d \in DOMAIN rows \ {e} : rows'[d] = rows[d]
  BY PutFits
<1> QED BY <1>1 DEF Keeps

(* The plan is written, and what the explorer makes joins it. *)
LEMMA PlanningRuns ==
  ASSUME RunInv, TableInv', UNCHANGED <<goal, blueprint, touched, ended>>,
         Keeps(rows, rows', touched, touched, st.page, st.pages, goal),
         st' = [x \in StFields |-> st'[x]], st'.page = st.page, st'.pages = st.pages, st'.results = st.results,
         st.pc \in {"write", "explore"}, st'.pc \in {"write", "explore", "collect"},
         AllFit(st'.todo, st.page, st.pages, goal), st'.pc # "write" => st'.todo = << >>,
         CasesFit(st'.cases, rows', touched, st.page, st.pages, goal),
         st'.fresh = NoTest \/ (st'.was = NoTest /\ st'.pc \in {"write", "explore"} /\ FreshFits(st'.fresh, rows', touched, st.page, st.pages, goal)),
         st'.was = NoTest \/ (st'.pc = "explore" /\ st'.was.ext = Explored /\ st'.was.category # "ai"),
         \A slug : slug[1] \in {"link", "route"} =>
           (Planning(slug, st.todo) => Planning(slug, st'.todo) \/ Among(slug, st'.cases)),
         \A slug : Among(slug, st.cases) => Among(slug, st'.cases)
  PROVE  RunInv'
<1>1. InputInv'
  BY DEF RunInv, InputInv
<1>2. TodoInv'
  BY DEF RunInv, TodoInv
<1>3. EntryInv'
  BY DEF EntryInv
<1>4. ResultInv'
  BY DEF RunInv, ResultInv
<1>5. CompleteInv'
  <2>1. ASSUME NEW url \in st.pages
        PROVE  \E slug \in PageSlugs(url) :
                 Planning(slug, st'.todo) \/ Among(slug, st'.cases) \/ Among(slug, st'.results)
    <3>1. PICK slug \in PageSlugs(url) :
            Planning(slug, st.todo) \/ Among(slug, st.cases) \/ Among(slug, st.results)
      BY DEF RunInv, CompleteInv, PagesKept
    <3>2. slug[1] \in {"link", "route"}
      BY PageSlugKinds
    <3> QED BY <3>1, <3>2
  <2>2. PagesKept(st'.todo, st'.cases, st'.results, st'.pages)
    BY <2>1 DEF PagesKept
  <2> QED BY <2>2 DEF CompleteInv
<1>6. ReportInv'
  BY ReportStays DEF RunInv
<1> QED BY <1>1, <1>2, <1>3, <1>4, <1>5, <1>6 DEF RunInv

-----------------------------------------------------------------------------
(* The steps of a run, and of the user. *)

LEMMA StartRuns ==
  ASSUME RunInv, StartRun
  PROVE  RunInv'
<1>1. Beginning(st') /\ st'.pc = "codebase"
  BY IdleBegins, IdleFacts DEF StartRun, StFields
<1>2. ReportInv'
  BY NoReport DEF StartRun
<1>3. UNCHANGED <<rows, made, goal, blueprint>>
  BY DEF StartRun
<1>4. goal \in Goals /\ RoutesKnown(blueprint)
  BY DEF RunInv, InputInv
<1> QED BY <1>1, <1>2, <1>3, <1>4, BeginningRuns

LEMMA ErrorRuns ==
  ASSUME RunInv, EndsAs(Error), UNCHANGED <<goal, blueprint, rows, made>>
  PROVE  RunInv'
<1>1. Beginning(st') /\ st'.pc = "idle"
  BY IdleBegins, IdleFacts DEF EndsAs
<1>2. ReportInv'
  BY NoReport DEF EndsAs
<1>4. goal \in Goals /\ RoutesKnown(blueprint)
  BY DEF RunInv, InputInv
<1> QED BY <1>1, <1>2, <1>4, BeginningRuns

LEMMA CodebaseRuns ==
  ASSUME RunInv, Codebase
  PROVE  RunInv'
<1>1. /\ st.pc = "codebase" /\ st' = [st EXCEPT !.pc = "analyze"] /\ blueprint' \in Blueprints \union {blueprint}
      /\ UNCHANGED <<goal, rows, made, ended, touched>>
  BY DEF Codebase
<1>2. Beginning(st)
  BY <1>1, EarlyRun
<1>3. Beginning(st') /\ st'.pc = "analyze"
  BY <1>1, <1>2 DEF Beginning, StFields
<1>4. goal \in Goals /\ RoutesKnown(blueprint')
  BY <1>1, SuiteAssumption DEF RunInv, InputInv, RoutesKnown
<1>5. ReportInv'
  BY <1>1, ReportStays DEF RunInv
<1> QED BY <1>1, <1>3, <1>4, <1>5, BeginningRuns

LEMMA AnalyzeRuns ==
  ASSUME RunInv, Analyze
  PROVE  RunInv'
<1>1. PICK html \in Htmls, renders \in BOOLEAN :
        \E pg \in {analyze_live_website(html, renders, goal)} :
          IF pg.success THEN st' = [st EXCEPT !.pc = "plan", !.page = pg] /\ UNCHANGED ended
          ELSE EndsAs(Error)
  BY DEF Analyze
<1> DEFINE pg == analyze_live_website(html, renders, goal)
<1>2. goal \in Goals /\ RoutesKnown(blueprint)
  BY DEF RunInv, InputInv
<1>3. PageFits(pg, goal)
  BY <1>2, AnalyzedFits
<1>4. IF pg.success THEN st' = [st EXCEPT !.pc = "plan", !.page = pg] /\ UNCHANGED ended ELSE EndsAs(Error)
  BY <1>1
<1> HIDE DEF pg
<1>5. st.pc = "analyze" /\ UNCHANGED <<goal, blueprint, rows, made, touched>>
  BY DEF Analyze
<1>6. CASE EndsAs(Error)
  BY <1>5, <1>6, ErrorRuns
<1>7. CASE st' = [st EXCEPT !.pc = "plan", !.page = pg] /\ UNCHANGED ended
  <2>1. Beginning(st)
    BY <1>5, EarlyRun
  <2>2. Beginning(st') /\ st'.page = pg
    BY <1>7, <2>1 DEF Beginning, StFields
  <2>3. ReportInv'
    BY <1>5, <1>7, ReportStays DEF RunInv
  <2> QED BY <1>2, <1>3, <1>5, <2>2, <2>3, BeginningRuns
<1> QED BY <1>4, <1>6, <1>7

LEMMA PlanRuns ==
  ASSUME RunInv, Plan
  PROVE  RunInv'
<1>1. PICK answer \in Answers, analyzed \in SUBSET (1..DEEP_PAGES) :
        \E candidates \in {_reachable(candidate_pages(st.page, blueprint))} :
          st' = [st EXCEPT !.pc = "write",
                           !.todo = page_tests(st.page) \o ai_tests(answer, st.page)
                                      \o [i \in DOMAIN candidates |-> PageTest(candidates[i], i \in analyzed)],
                           !.pages = {c.url : c \in Range(candidates)}]
  BY DEF Plan
<1> DEFINE a == st.page
           candidates == _reachable(candidate_pages(a, blueprint))
           others == [i \in DOMAIN candidates |-> PageTest(candidates[i], i \in analyzed)]
           rules == page_tests(a)
           asked == ai_tests(answer, a)
           pages == {c.url : c \in Range(candidates)}
<1>2. st' = [st EXCEPT !.pc = "write", !.todo = rules \o asked \o others, !.pages = pages]
  BY <1>1
<1>3. st.pc = "plan" /\ UNCHANGED <<goal, blueprint, rows, made, ended, touched>>
  BY DEF Plan
<1>4. Beginning(st) /\ PageFits(a, goal) /\ RoutesKnown(blueprint) /\ goal \in Goals
  BY <1>3, EarlyRun DEF RunInv, InputInv
<1>5. AllKnown(candidates)
  <2>1. AllKnown(candidate_pages(a, blueprint))
    BY <1>4, CandidatesKnown DEF PageFits
  <2> QED BY <2>1, ReachableKnown
<1> HIDE DEF candidates, a
<1>6. /\ AllFit(others, a, pages, goal)
      /\ \A url \in pages : Path(url) \in DOMAIN Slug
      /\ \A url \in pages : \E i \in DOMAIN others : others[i].slug \in PageSlugs(url)
  BY <1>5, OtherPagesFit
<1>7. AllFit(rules, a, pages, goal)
  BY <1>4, PageTestsFit DEF PageFits
<1>8. AllFit(asked, a, pages, goal)
  BY AskedFit
<1> HIDE DEF others, rules, asked, pages
<1> DEFINE front == rules \o asked
           todo == front \o others
<1>9. AllFit(front, a, pages, goal)
  BY <1>7, <1>8, JoinedTests
<1>10. AllFit(todo, a, pages, goal)
  BY <1>6, <1>9, JoinedTests
<1>11. \A j \in DOMAIN others : \E i \in DOMAIN todo : todo[i] = others[j]
  <2>1. JoinOf(todo, front, others)
    BY <1>6, <1>9 DEF JoinOf, AllFit
  <2> HIDE DEF todo
  <2> QED BY <2>1, RearStays
<1>12. /\ st' = [x \in StFields |-> st'[x]] /\ st'.pc = "write" /\ st'.todo = todo /\ st'.cases = << >>
       /\ st'.results = << >> /\ st'.fresh = NoTest /\ st'.was = NoTest /\ st'.pages = pages /\ st'.page = a
  <2>1. st' = [st EXCEPT !.pc = "write", !.todo = todo, !.pages = pages]
    BY <1>2
  <2> HIDE DEF todo
  <2> QED BY <1>4, <2>1 DEF Beginning, StFields, a
<1> HIDE DEF front, todo
<1>13. TableInv'
  BY <1>3 DEF RunInv, TableInv
<1>14. InputInv'
  BY <1>3, <1>4, <1>12 DEF InputInv
<1>15. TodoInv'
  BY <1>3, <1>6, <1>10, <1>12 DEF TodoInv
<1>16. EntryInv'
  BY <1>12, EmptyList DEF EntryInv, CasesFit
<1>17. ResultInv'
  BY <1>12, EmptyList DEF ResultInv, ResultsFit
<1>18. CompleteInv'
  <2>1. ASSUME NEW url \in pages
        PROVE  \E slug \in PageSlugs(url) : Planning(slug, todo)
    <3>1. PICK j \in DOMAIN others : others[j].slug \in PageSlugs(url)
      BY <1>6
    <3>2. PICK i \in DOMAIN todo : todo[i] = others[j]
      BY <1>11
    <3>3. Planning(others[j].slug, todo)
      BY <3>2 DEF Planning
    <3> QED BY <3>1, <3>3
  <2> QED BY <1>12, <2>1 DEF CompleteInv, PagesKept
<1>19. ReportInv'
  BY <1>3, ReportStays DEF RunInv
<1> QED BY <1>13, <1>14, <1>15, <1>16, <1>17, <1>18, <1>19 DEF RunInv

(* An entry joins the run, a planned test leaves the plan. *)
Grown(more, cs, c) == more = Append(cs, c)

LEMMA CaseJoins ==
  ASSUME NEW cs, NEW R, NEW T, NEW a, NEW pages, NEW g, CasesFit(cs, R, T, a, pages, g),
         NEW c, NEW e, c.ext = e, WriterFits(c), StillFits(e, R, T, a, pages, g), NEW more, Grown(more, cs, c)
  PROVE  /\ CasesFit(more, R, T, a, pages, g) /\ Among(e, more)
         /\ \A slug : Among(slug, cs) => Among(slug, more)
<1>1. IsList(cs) /\ more = Append(cs, c)
  BY DEF CasesFit, Grown
<1>2. /\ IsList(more)
      /\ \A i \in DOMAIN more : (i \in DOMAIN cs /\ more[i] = cs[i]) \/ more[i] = c
      /\ \A i \in DOMAIN cs : i \in DOMAIN more /\ more[i] = cs[i]
      /\ \E i \in DOMAIN more : more[i] = c
  BY <1>1, AppendedFits
<1>3. CasesFit(more, R, T, a, pages, g)
  BY <1>2 DEF CasesFit
<1>4. Among(e, more) /\ \A slug : Among(slug, cs) => Among(slug, more)
  BY <1>2 DEF Among
<1> QED BY <1>3, <1>4

LEMMA TodoShortens ==
  ASSUME NEW todo, todo # << >>, NEW a, NEW pages, NEW g, AllFit(todo, a, pages, g)
  PROVE  /\ AllFit(Tail(todo), a, pages, g) /\ TodoFits(Head(todo), a, pages, g)
         /\ \A slug : Planning(slug, todo) => Planning(slug, Tail(todo)) \/ slug = Head(todo).slug
<1> DEFINE rest == Tail(todo)
           first == Head(todo)
<1>1. IsList(todo)
  BY DEF AllFit
<1>2. /\ IsList(rest) /\ 1 \in DOMAIN todo /\ first = todo[1]
      /\ \A i \in DOMAIN rest : i + 1 \in DOMAIN todo /\ rest[i] = todo[i + 1]
      /\ \A i \in DOMAIN todo : i = 1 \/ (i - 1 \in DOMAIN rest /\ rest[i - 1] = todo[i])
  BY <1>1, TailFits
<1> HIDE DEF rest, first
<1>3. AllFit(rest, a, pages, g) /\ TodoFits(first, a, pages, g)
  BY <1>2 DEF AllFit
<1>4. \A slug : Planning(slug, todo) => Planning(slug, rest) \/ slug = first.slug
  BY <1>2 DEF Planning
<1> QED BY <1>3, <1>4 DEF rest, first

LEMMA UpsertWrites ==
  ASSUME RunInv, NEW t, TestFits(t), NEW old, old = Row(t.slug), NEW new, NEW isNew \in BOOLEAN, isNew <=> old = NoTest,
         new = (IF isNew THEN Insert(t.slug, t.category, t.steps)
                ELSE IF old.steps = t.steps /\ old.goal = goal.pieces THEN old
                ELSE Rewritten(old, t.steps, Quarantined(t, old))),
         made' = (IF isNew THEN made + 1 ELSE made), rows' = Put(new)
  PROVE  RowFits(new, t.slug, made') /\ new.steps = t.steps /\ TableInv'
<1> DEFINE e == t.slug
<1>0. made \in Nat /\ TableInv
  BY DEF RunInv, TableInv
<1>1. made' \in Nat /\ made <= made'
  <2>1. made' = made \/ made' = made + 1
    OBVIOUS
  <2> QED BY <1>0, <2>1
<1>2. CASE isNew
  <2> DEFINE category == t.category
             ss == t.steps
  <2>1. new = Insert(e, category, ss) /\ made' = made + 1
    BY <1>2
  <2>2. (category = "ai" <=> e[1] = "ai") /\ (category = "explored" <=> e[1] = "explored")
    BY DEF TestFits
  <2> HIDE DEF e, category, ss
  <2>3. RowFits(new, e, made + 1) /\ new.id = made + 1 /\ new.steps = ss
    BY <1>0, <2>1, <2>2, InsertFits
  <2>4. RowFits(new, e, made')
    BY <2>1, <2>3
  <2>5. TableInv'
    BY <1>0, <1>1, <2>3, <2>4, PutTable
  <2> QED BY <2>3, <2>4, <2>5 DEF e, ss
<1>3. CASE ~isNew
  <2>1. e \in DOMAIN rows /\ old = rows[e] /\ made' = made
    BY <1>3 DEF Row
  <2>2. RowFits(old, e, made)
    BY <1>0, <2>1 DEF TableInv
  <2>3. RowFits(new, e, made) /\ new.id = old.id /\ new.steps = t.steps
    <3>1. CASE old.steps = t.steps /\ old.goal = goal.pieces
      BY <1>3, <2>2, <3>1
    <3>2. CASE ~(old.steps = t.steps /\ old.goal = goal.pieces)
      <4> DEFINE ss == t.steps
                 doubt == Quarantined(t, old)
      <4>1. new = Rewritten(old, ss, doubt)
        BY <1>3, <3>2
      <4>2. doubt \in BOOLEAN
        BY <2>2 DEF Quarantined, RowFits
      <4> HIDE DEF ss, doubt, e
      <4>3. RowFits(new, e, made) /\ new.id = old.id /\ new.steps = ss
        BY <2>2, <4>1, <4>2, RewrittenFits
      <4> QED BY <4>3 DEF ss, e
    <3> QED BY <3>1, <3>2
  <2> HIDE DEF e
  <2>4. RowFits(new, e, made') /\ new.id = rows[e].id
    BY <2>1, <2>3
  <2>5. TableInv'
    BY <1>0, <1>1, <2>1, <2>4, PutTable
  <2> QED BY <2>3, <2>4, <2>5 DEF e
<1> QED BY <1>2, <1>3

LEMMA UpsertRuns ==
  ASSUME RunInv, Upsert
  PROVE  RunInv'
<1> DEFINE t     == Head(st.todo)
           old   == Row(t.slug)
           isNew == old = NoTest
           new   == IF isNew THEN Insert(t.slug, t.category, t.steps)
                    ELSE IF old.steps = t.steps /\ old.goal = goal.pieces THEN old
                    ELSE Rewritten(old, t.steps, Quarantined(t, old))
           later == isNew /\ t.category = "ai"
           rest  == Tail(st.todo)
           more  == Append(st.cases, new)
<1>1. /\ st.pc = "write" /\ st.fresh = NoTest /\ st.todo # << >>
      /\ rows' = Put(new) /\ made' = (IF isNew THEN made + 1 ELSE made)
      /\ st' = [st EXCEPT !.todo = rest, !.fresh = IF later THEN new ELSE NoTest,
                          !.cases = IF later THEN st.cases ELSE more]
      /\ UNCHANGED <<goal, blueprint, ended, touched>>
  BY DEF Upsert
<1>2. AllFit(st.todo, st.page, st.pages, goal) /\ st = [x \in StFields |-> st[x]]
  BY DEF RunInv, TodoInv, InputInv
<1>3. /\ AllFit(rest, st.page, st.pages, goal) /\ TodoFits(t, st.page, st.pages, goal)
      /\ \A slug : Planning(slug, st.todo) => Planning(slug, rest) \/ slug = t.slug
  BY <1>1, <1>2, TodoShortens
<1>4. TestFits(t) /\ StepsFit(t.slug, t.steps, st.page, st.pages, goal)
  BY <1>3 DEF TodoFits
<1>5. RowFits(new, t.slug, made') /\ new.steps = t.steps /\ TableInv'
  <2>1. isNew \in BOOLEAN
    OBVIOUS
  <2>2. new = (IF isNew THEN Insert(t.slug, t.category, t.steps)
               ELSE IF old.steps = t.steps /\ old.goal = goal.pieces THEN old
               ELSE Rewritten(old, t.steps, Quarantined(t, old)))
    OBVIOUS
  <2>3. isNew <=> old = NoTest
    OBVIOUS
  <2>4. old = Row(t.slug)
    OBVIOUS
  <2> HIDE DEF new, isNew, old, t, rest, more, later
  <2> QED BY <1>1, <1>4, <2>1, <2>2, <2>3, <2>4, UpsertWrites
<1>6. later => t.category = "ai"
  OBVIOUS
<1>7. /\ st' = [x \in StFields |-> st'[x]] /\ st'.pc = "write" /\ st'.todo = rest
      /\ st'.fresh = (IF later THEN new ELSE NoTest) /\ st'.cases = (IF later THEN st.cases ELSE more)
      /\ st'.page = st.page /\ st'.pages = st.pages /\ st'.results = st.results /\ st'.was = st.was
  <2> HIDE DEF new, isNew, old, t, rest, more, later
  <2> QED BY <1>1, <1>2 DEF StFields
<1>8. Grown(more, st.cases, new)
  BY DEF Grown
<1> DEFINE e == t.slug
<1>a. /\ RowFits(new, e, made') /\ StepsFit(e, new.steps, st.page, st.pages, goal)
      /\ \A slug : Planning(slug, st.todo) => Planning(slug, rest) \/ slug = e
  BY <1>3, <1>4, <1>5
<1>b. t.category = "ai" => e[1] = "ai"
  BY <1>4 DEF TestFits
<1> HIDE DEF new, isNew, old, t, rest, more, later, e
<1>9. new.ext = e /\ WriterFits(new)
  BY <1>a DEF RowFits, WriterFits
<1>10. Keeps(rows, rows', touched, touched, st.page, st.pages, goal)
  BY <1>1, <1>9, <1>a, PutStill
<1>11. StillFits(e, rows', touched, st.page, st.pages, goal)
  BY <1>1, <1>9, <1>a, PutFits DEF StillFits
<1>12. CasesFit(st.cases, rows', touched, st.page, st.pages, goal)
  BY <1>10, StillKeeps DEF RunInv, EntryInv
<1>13. /\ CasesFit(more, rows', touched, st.page, st.pages, goal) /\ Among(e, more)
       /\ \A slug : Among(slug, st.cases) => Among(slug, more)
  BY <1>8, <1>9, <1>11, <1>12, CaseJoins
<1>14. CasesFit(st'.cases, rows', touched, st.page, st.pages, goal)
  BY <1>7, <1>12, <1>13
<1>15. \A slug : Among(slug, st.cases) => Among(slug, st'.cases)
  BY <1>7, <1>13
<1>16. \A slug : slug[1] \in {"link", "route"} =>
         (Planning(slug, st.todo) => Planning(slug, st'.todo) \/ Among(slug, st'.cases))
  <2>1. later => e[1] = "ai"
    BY <1>6, <1>b
  <2>2. ~later => st'.cases = more
    BY <1>7
  <2>3. st'.todo = rest
    BY <1>7
  <2> QED BY <1>13, <1>a, <2>1, <2>2, <2>3
<1>17. st'.fresh = NoTest \/ (st'.pc \in {"write", "explore"} /\ FreshFits(st'.fresh, rows', touched, st.page, st.pages, goal))
  <2>1. later => e[1] = "ai"
    BY <1>6, <1>b
  <2>2. later => FreshFits(new, rows', touched, st.page, st.pages, goal)
    BY <1>9, <1>11, <1>a, <2>1 DEF FreshFits
  <2> QED BY <1>7, <2>2
<1>18. st'.was = NoTest
  BY <1>1, <1>7 DEF RunInv, EntryInv
<1>19. AllFit(st'.todo, st.page, st.pages, goal)
  BY <1>3, <1>7 DEF rest
<1> QED BY <1>1, <1>5, <1>7, <1>10, <1>14, <1>15, <1>16, <1>17, <1>18, <1>19, PlanningRuns

LEMMA DistrustRuns ==
  ASSUME RunInv, Distrust
  PROVE  RunInv'
<1> DEFINE e   == st.fresh.ext
           row == rows[e]
           new == [row EXCEPT !.quarantined = TRUE]
           more == Append(st.cases, new)
<1>1. /\ st.fresh # NoTest /\ Stored(st.fresh) /\ rows' = Put(new)
      /\ st' = [st EXCEPT !.fresh = NoTest, !.cases = more,
                          !.pc = IF st.pc = "explore" THEN "collect" ELSE @]
      /\ UNCHANGED <<goal, blueprint, made, ended, touched>>
  BY DEF Distrust
<1>2. made \in Nat /\ st = [x \in StFields |-> st[x]] /\ TableInv
  BY DEF RunInv, TableInv, InputInv
<1>3. e \in DOMAIN rows /\ RowFits(row, e, made)
  BY <1>1, <1>2 DEF Stored, TableInv
<1>4. st.pc \in {"write", "explore"} /\ FreshFits(st.fresh, rows, touched, st.page, st.pages, goal)
  BY <1>1 DEF RunInv, EntryInv
<1>5. e[1] \in {"ai", "explored"} /\ StillFits(e, rows, touched, st.page, st.pages, goal)
  BY <1>4 DEF FreshFits
<1>6. Grown(more, st.cases, new)
  BY DEF Grown
<1> HIDE DEF row, more
<1> DEFINE doubt == TRUE
<1>7. new = Marked(row, doubt) /\ doubt \in BOOLEAN
  BY DEF Marked
<1> HIDE DEF e, new, doubt
<1>8. RowFits(new, e, made) /\ new.id = row.id /\ new.steps = row.steps /\ new.ext = e
  BY <1>3, <1>7, ChangedFits
<1>9. TableInv'
  <2>1. RowFits(new, e, made') /\ made' \in Nat /\ made <= made' /\ new.id = rows[e].id
    BY <1>1, <1>2, <1>8 DEF row
  <2> QED BY <1>1, <1>2, <1>3, <2>1, PutTable
<1>10. Keeps(rows, rows', touched, touched, st.page, st.pages, goal)
  BY <1>1, <1>3, <1>8, PutStill DEF row
<1>11. CasesFit(st.cases, rows', touched, st.page, st.pages, goal) /\ StillFits(e, rows', touched, st.page, st.pages, goal)
  BY <1>5, <1>10, StillKeeps DEF RunInv, EntryInv
<1>12. WriterFits(new)
  BY <1>5, <1>8 DEF RowFits, WriterFits
<1>13. /\ CasesFit(more, rows', touched, st.page, st.pages, goal)
       /\ \A slug : Among(slug, st.cases) => Among(slug, more)
  BY <1>6, <1>8, <1>11, <1>12, CaseJoins
<1>14. /\ st' = [x \in StFields |-> st'[x]] /\ st'.fresh = NoTest /\ st'.cases = more
       /\ st'.todo = st.todo /\ st'.results = st.results /\ st'.was = st.was
       /\ st'.page = st.page /\ st'.pages = st.pages
       /\ st'.pc = (IF st.pc = "explore" THEN "collect" ELSE st.pc)
  BY <1>1, <1>2 DEF StFields
<1>15. st'.was = NoTest /\ st'.pc \in {"write", "collect"}
  BY <1>1, <1>4, <1>14 DEF RunInv, EntryInv
<1>16. AllFit(st'.todo, st.page, st.pages, goal) /\ (st'.pc # "write" => st'.todo = << >>)
  BY <1>4, <1>14 DEF RunInv, TodoInv
<1>17. CasesFit(st'.cases, rows', touched, st.page, st.pages, goal) /\ \A slug : Among(slug, st.cases) => Among(slug, st'.cases)
  BY <1>13, <1>14
<1>18. \A slug : Planning(slug, st.todo) => Planning(slug, st'.todo)
  BY <1>14
<1>19. UNCHANGED <<goal, blueprint, touched, ended>>
  BY <1>1
<1> QED BY <1>4, <1>9, <1>10, <1>14, <1>15, <1>16, <1>17, <1>18, <1>19, PlanningRuns

(* The explored test promises nothing about the page. *)
LEMMA RecordedFits ==
  /\ Explored[1] = "explored"
  /\ \A ss, a, pages, g : StepsFit(Explored, ss, a, pages, g)
  /\ \A R, T, a, pages, g : StillFits(Explored, R, T, a, pages, g)
  /\ \A c : c.ext = Explored /\ c.category # "ai" => WriterFits(c)
<1>1. Explored[1] = "explored" /\ Explored[1] \notin {"ai", "interaction", "link", "route"}
  BY DEF Explored
<1>2. \A ss, a, pages, g : StepsFit(Explored, ss, a, pages, g)
  <2> DEFINE slug == Explored
  <2>1. slug[1] \notin {"ai", "interaction", "link", "route"}
    BY <1>1
  <2> HIDE DEF slug
  <2>2. \A ss, a, pages, g : StepsFit(slug, ss, a, pages, g)
    BY <2>1, OtherFits
  <2> QED BY <2>2 DEF slug
<1>3. \A R, T, a, pages, g : StillFits(Explored, R, T, a, pages, g)
  BY <1>2 DEF StillFits
<1>4. \A c : c.ext = Explored /\ c.category # "ai" => WriterFits(c)
  BY <1>1, <1>2 DEF WriterFits
<1> QED BY <1>1, <1>2, <1>3, <1>4

(* The plan is written: the run goes on, with one more entry or none. *)
LEMMA GoesOn ==
  ASSUME RunInv, UNCHANGED <<goal, blueprint, rows, made, touched, ended>>,
         st.pc \in {"write", "explore"}, st.todo = << >>, st' = [x \in StFields |-> st'[x]],
         st'.page = st.page, st'.pages = st.pages, st'.results = st.results,
         st'.pc \in {"explore", "collect"}, st'.todo = << >>, st'.fresh = NoTest,
         st'.was = NoTest \/ (st'.pc = "explore" /\ st'.was.ext = Explored /\ st'.was.category # "ai"),
         \/ st'.cases = st.cases
         \/ \E c : Grown(st'.cases, st.cases, c) /\ c.ext = Explored /\ c.category # "ai"
  PROVE  RunInv'
<1>1. TableInv' /\ Keeps(rows, rows', touched, touched, st.page, st.pages, goal)
  BY NoChange DEF RunInv, TableInv
<1>2. CasesFit(st.cases, rows, touched, st.page, st.pages, goal)
  BY DEF RunInv, EntryInv
<1>3. /\ CasesFit(st'.cases, rows, touched, st.page, st.pages, goal)
      /\ \A slug : Among(slug, st.cases) => Among(slug, st'.cases)
  <2>1. CASE st'.cases = st.cases
    BY <1>2, <2>1
  <2>2. ASSUME NEW c, Grown(st'.cases, st.cases, c), c.ext = Explored, c.category # "ai"
        PROVE  /\ CasesFit(st'.cases, rows, touched, st.page, st.pages, goal)
               /\ \A slug : Among(slug, st.cases) => Among(slug, st'.cases)
    <3>1. WriterFits(c) /\ StillFits(Explored, rows, touched, st.page, st.pages, goal)
      BY <2>2, RecordedFits
    <3> DEFINE more == st'.cases
               cs == st.cases
    <3>2. Grown(more, cs, c) /\ c.ext = Explored /\ CasesFit(cs, rows, touched, st.page, st.pages, goal)
      BY <1>2, <2>2
    <3> HIDE DEF more, cs
    <3>3. /\ CasesFit(more, rows, touched, st.page, st.pages, goal)
          /\ \A slug : Among(slug, cs) => Among(slug, more)
      BY <3>1, <3>2, CaseJoins
    <3> QED BY <3>3 DEF more, cs
  <2> QED BY <2>1, <2>2
<1>4. AllFit(st'.todo, st.page, st.pages, goal)
  BY DEF RunInv, TodoInv
<1>5. CasesFit(st'.cases, rows', touched, st.page, st.pages, goal)
  BY <1>3
<1>6. \A slug : Planning(slug, st.todo) => Planning(slug, st'.todo)
  OBVIOUS
<1> QED BY <1>1, <1>3, <1>4, <1>5, <1>6, PlanningRuns

(* The recording, as it is read. *)
LEMMA RecordedRow ==
  ASSUME RunInv, Row(Explored) # NoTest
  PROVE  /\ Explored \in DOMAIN rows /\ RowFits(Row(Explored), Explored, made)
         /\ Row(Explored).ext = Explored /\ Row(Explored).category # "ai"
<1>1. Explored \in DOMAIN rows /\ Row(Explored) = rows[Explored]
  BY DEF Row
<1>2. RowFits(Row(Explored), Explored, made)
  BY <1>1 DEF RunInv, TableInv
<1> QED BY <1>1, <1>2, RecordedFits DEF RowFits

LEMMA RowIsGoneRuns ==
  ASSUME RunInv, RowIsGone
  PROVE  RunInv'
<1>1. CASE EndsAs(Error) /\ UNCHANGED <<goal, blueprint, rows, made>>
  BY <1>1, ErrorRuns
<1>2. CASE /\ st.pc = "explore" /\ st' = [st EXCEPT !.pc = "collect", !.was = NoTest, !.fresh = NoTest]
           /\ UNCHANGED <<goal, blueprint, rows, made, ended, touched>>
  <2>1. st = [x \in StFields |-> st[x]] /\ st.todo = << >>
    BY <1>2 DEF RunInv, InputInv, TodoInv
  <2>2. /\ st' = [x \in StFields |-> st'[x]] /\ st'.fresh = NoTest /\ st'.was = NoTest /\ st'.pc = "collect"
        /\ st'.cases = st.cases /\ st'.results = st.results /\ st'.todo = << >> /\ st'.page = st.page /\ st'.pages = st.pages
    BY <1>2, <2>1 DEF StFields
  <2> QED BY <1>2, <2>1, <2>2, GoesOn
<1> QED BY <1>1, <1>2 DEF RowIsGone

LEMMA ReplaysRuns ==
  ASSUME RunInv, Replays
  PROVE  RunInv'
<1> DEFINE c == Row(Explored)
<1>1. /\ st.pc = "write" /\ st.fresh = NoTest /\ st.todo = << >> /\ ~needs_exploring(c)
      /\ st' = [st EXCEPT !.pc = "collect", !.cases = Append(@, c)]
      /\ UNCHANGED <<goal, blueprint, rows, made, ended, touched>>
  BY DEF Replays
<1>2. c # NoTest
  BY <1>1 DEF needs_exploring
<1>3. c.ext = Explored /\ c.category # "ai"
  BY <1>2, RecordedRow
<1> HIDE DEF c
<1>4. st = [x \in StFields |-> st[x]] /\ st.was = NoTest
  BY <1>1 DEF RunInv, InputInv, EntryInv
<1>5. /\ st' = [x \in StFields |-> st'[x]] /\ st'.fresh = NoTest /\ st'.was = NoTest /\ st'.pc = "collect"
      /\ st'.cases = Append(st.cases, c) /\ st'.results = st.results /\ st'.todo = << >>
      /\ st'.page = st.page /\ st'.pages = st.pages
  BY <1>1, <1>4 DEF StFields
<1>6. Grown(st'.cases, st.cases, c)
  BY <1>5 DEF Grown
<1> QED BY <1>1, <1>3, <1>5, <1>6, GoesOn

LEMMA ExploreBeginsRuns ==
  ASSUME RunInv, ExploreBegins
  PROVE  RunInv'
<1> DEFINE c == Row(Explored)
<1>1. /\ st.pc = "write" /\ st.fresh = NoTest /\ st.todo = << >>
      /\ UNCHANGED <<goal, blueprint, rows, made, ended, touched>>
      /\ \/ st' = [st EXCEPT !.pc = "explore", !.was = c]
         \/ st' = [st EXCEPT !.pc = "collect"]
  BY DEF ExploreBegins
<1>2. c # NoTest => c.ext = Explored /\ c.category # "ai"
  BY RecordedRow
<1> HIDE DEF c
<1>3. st = [x \in StFields |-> st[x]] /\ st.was = NoTest
  BY <1>1 DEF RunInv, InputInv, EntryInv
<1>4. /\ st' = [x \in StFields |-> st'[x]] /\ st'.fresh = NoTest /\ st'.cases = st.cases
      /\ st'.results = st.results /\ st'.todo = << >> /\ st'.page = st.page /\ st'.pages = st.pages
  BY <1>1, <1>3 DEF StFields
<1>5. st'.pc \in {"explore", "collect"} /\ (st'.was = NoTest \/ (st'.pc = "explore" /\ st'.was = c))
  BY <1>1, <1>3 DEF StFields
<1> QED BY <1>1, <1>2, <1>4, <1>5, GoesOn

LEMMA ExploreFailsRuns ==
  ASSUME RunInv, ExploreFails
  PROVE  RunInv'
<1> DEFINE c == st.was
<1>1. /\ st.pc = "explore" /\ st.fresh = NoTest
      /\ UNCHANGED <<goal, blueprint, rows, made, ended, touched>>
      /\ st' = [st EXCEPT !.pc = "collect", !.was = NoTest,
                          !.cases = IF st.was = NoTest THEN @ ELSE Append(@, st.was)]
  BY DEF ExploreFails
<1>2. st = [x \in StFields |-> st[x]] /\ st.todo = << >>
  BY <1>1 DEF RunInv, InputInv, TodoInv
<1>3. c # NoTest => c.ext = Explored /\ c.category # "ai"
  BY DEF RunInv, EntryInv
<1>4. /\ st' = [x \in StFields |-> st'[x]] /\ st'.fresh = NoTest /\ st'.was = NoTest /\ st'.pc = "collect"
      /\ st'.cases = (IF c = NoTest THEN st.cases ELSE Append(st.cases, c)) /\ st'.results = st.results
      /\ st'.todo = << >> /\ st'.page = st.page /\ st'.pages = st.pages
  BY <1>1, <1>2 DEF StFields
<1> HIDE DEF c
<1>5. \/ st'.cases = st.cases
      \/ \E x : Grown(st'.cases, st.cases, x) /\ x.ext = Explored /\ x.category # "ai"
  <2>1. CASE c = NoTest
    BY <1>4, <2>1
  <2>2. CASE c # NoTest
    <3>1. Grown(st'.cases, st.cases, c)
      BY <1>4, <2>2 DEF Grown
    <3> QED BY <1>3, <2>2, <3>1
  <2> QED BY <2>1, <2>2
<1> QED BY <1>1, <1>2, <1>4, <1>5, GoesOn

(* What the recorder writes. *)
LEMMA RecordRuns ==
  ASSUME RunInv, Record
  PROVE  RunInv'
<1>1. PICK ss \in Recordings :
        LET new == IF st.was = NoTest THEN Insert(Explored, "explored", ss) ELSE Rewritten(Row(Explored), ss, TRUE)
        IN /\ st.was # NoTest => Stored(st.was)
           /\ rows' = Put(new)
           /\ made' = IF st.was = NoTest THEN made + 1 ELSE made
           /\ st' = IF st.was = NoTest THEN [st EXCEPT !.fresh = new]
                    ELSE [st EXCEPT !.pc = "collect", !.was = NoTest, !.cases = Append(@, new)]
  BY DEF Record
<1>2. st.pc = "explore" /\ st.fresh = NoTest /\ UNCHANGED <<goal, blueprint, ended, touched>>
  BY DEF Record
<1>3. st = [x \in StFields |-> st[x]] /\ st.todo = << >> /\ made \in Nat /\ TableInv
  BY <1>2 DEF RunInv, InputInv, TodoInv, TableInv
<1>4. AllFit(st.todo, st.page, st.pages, goal) /\ CasesFit(st.cases, rows, touched, st.page, st.pages, goal)
  BY DEF RunInv, TodoInv, EntryInv
(* Either way a row of the explorer's is written. *)
<1>5. ASSUME NEW new, rows' = Put(new), RowFits(new, Explored, made'), made' \in Nat, made <= made',
             new.id = made + 1 \/ (Explored \in DOMAIN rows /\ new.id = rows[Explored].id)
      PROVE  /\ TableInv' /\ Keeps(rows, rows', touched, touched, st.page, st.pages, goal)
             /\ CasesFit(st.cases, rows', touched, st.page, st.pages, goal)
             /\ new.ext = Explored /\ new.category # "ai"
  <2> DEFINE e == Explored
  <2>1. RowFits(new, e, made') /\ new.ext = e /\ new.category # "ai"
    BY <1>5, RecordedFits DEF RowFits
  <2>2. StepsFit(e, new.steps, st.page, st.pages, goal)
    BY RecordedFits
  <2>3. new.id = made + 1 \/ (e \in DOMAIN rows /\ new.id = rows[e].id)
    BY <1>5
  <2> HIDE DEF e
  <2>4. TableInv'
    BY <1>3, <1>5, <2>1, <2>3, PutTable
  <2>5. Keeps(rows, rows', touched, touched, st.page, st.pages, goal)
    BY <1>5, <2>1, <2>2, PutStill
  <2>6. CasesFit(st.cases, rows', touched, st.page, st.pages, goal)
    BY <1>4, <2>5, StillKeeps
  <2> QED BY <2>1, <2>4, <2>5, <2>6 DEF e
<1>6. CASE st.was = NoTest
  <2> DEFINE ext == Explored
             category == "explored"
             new == Insert(ext, category, ss)
  <2>1. rows' = Put(new) /\ made' = made + 1 /\ st' = [st EXCEPT !.fresh = new]
    BY <1>1, <1>6
  <2>2. (category = "ai" <=> ext[1] = "ai") /\ (category = "explored" <=> ext[1] = "explored")
    BY RecordedFits
  <2>3. new = Insert(ext, category, ss)
    OBVIOUS
  <2> HIDE DEF new, ext, category
  <2>4. RowFits(new, ext, made + 1) /\ new.id = made + 1
    BY <1>3, <2>2, <2>3, InsertFits
  <2>5. RowFits(new, Explored, made') /\ made' \in Nat /\ made <= made' /\ new.id = made + 1
    BY <1>3, <2>1, <2>4 DEF ext
  <2>6. /\ TableInv' /\ Keeps(rows, rows', touched, touched, st.page, st.pages, goal)
        /\ CasesFit(st.cases, rows', touched, st.page, st.pages, goal)
        /\ new.ext = Explored /\ new.category # "ai"
    BY <1>5, <2>1, <2>5
  <2>7. /\ st' = [x \in StFields |-> st'[x]] /\ st'.fresh = new /\ st'.pc = "explore" /\ st'.was = NoTest
        /\ st'.cases = st.cases /\ st'.results = st.results /\ st'.todo = st.todo
        /\ st'.page = st.page /\ st'.pages = st.pages
    BY <1>2, <1>3, <1>6, <2>1 DEF StFields
  <2>8. FreshFits(new, rows', touched, st.page, st.pages, goal)
    BY <2>6, RecordedFits DEF FreshFits
  <2>9. /\ st'.was = NoTest /\ st'.pc \in {"write", "explore"}
        /\ FreshFits(st'.fresh, rows', touched, st.page, st.pages, goal)
    BY <2>7, <2>8
  <2>10. CasesFit(st'.cases, rows', touched, st.page, st.pages, goal) /\ AllFit(st'.todo, st.page, st.pages, goal)
    BY <1>4, <2>6, <2>7
  <2>11. /\ \A slug : Planning(slug, st.todo) => Planning(slug, st'.todo)
         /\ \A slug : Among(slug, st.cases) => Among(slug, st'.cases)
    BY <2>7
  <2>12. st'.todo = << >>
    BY <1>3, <2>7
  <2> QED BY <1>2, <2>6, <2>7, <2>9, <2>10, <2>11, <2>12, PlanningRuns
<1>7. CASE st.was # NoTest
  <2> DEFINE old == Row(Explored)
             doubt == TRUE
             new == Rewritten(old, ss, doubt)
             more == Append(st.cases, new)
  <2>1. /\ Stored(st.was) /\ rows' = Put(new) /\ made' = made
        /\ st' = [st EXCEPT !.pc = "collect", !.was = NoTest, !.cases = more]
    BY <1>1, <1>7
  <2>2. old = rows[Explored] /\ Explored \in DOMAIN rows
    <3>1. st.was.ext = Explored
      BY <1>7 DEF RunInv, EntryInv
    <3> QED BY <2>1, <3>1 DEF Stored, Row
  <2>3. RowFits(old, Explored, made) /\ doubt \in BOOLEAN
    BY <1>3, <2>2 DEF TableInv
  <2>4. new = Rewritten(old, ss, doubt)
    OBVIOUS
  <2>5. Grown(more, st.cases, new)
    BY DEF Grown
  <2> HIDE DEF old, doubt, new, more
  <2>6. RowFits(new, Explored, made) /\ new.id = old.id
    BY <2>3, <2>4, RewrittenFits
  <2>7. RowFits(new, Explored, made') /\ made' \in Nat /\ made <= made' /\ new.id = rows[Explored].id
    BY <1>3, <2>1, <2>2, <2>6
  <2>8. /\ TableInv' /\ Keeps(rows, rows', touched, touched, st.page, st.pages, goal)
        /\ CasesFit(st.cases, rows', touched, st.page, st.pages, goal)
        /\ new.ext = Explored /\ new.category # "ai"
    BY <1>5, <2>1, <2>2, <2>7
  <2>9. WriterFits(new) /\ StillFits(Explored, rows', touched, st.page, st.pages, goal)
    BY <2>8, RecordedFits
  <2>10. CasesFit(more, rows', touched, st.page, st.pages, goal) /\ \A slug : Among(slug, st.cases) => Among(slug, more)
    BY <2>5, <2>8, <2>9, CaseJoins
  <2>11. /\ st' = [x \in StFields |-> st'[x]] /\ st'.fresh = NoTest /\ st'.pc = "collect" /\ st'.was = NoTest
         /\ st'.cases = more /\ st'.results = st.results /\ st'.todo = st.todo
         /\ st'.page = st.page /\ st'.pages = st.pages
    BY <1>2, <1>3, <2>1 DEF StFields
  <2>12. CasesFit(st'.cases, rows', touched, st.page, st.pages, goal) /\ AllFit(st'.todo, st.page, st.pages, goal)
    BY <1>4, <2>10, <2>11
  <2>13. /\ \A slug : Planning(slug, st.todo) => Planning(slug, st'.todo)
         /\ \A slug : Among(slug, st.cases) => Among(slug, st'.cases)
    BY <2>10, <2>11
  <2>14. st'.todo = << >>
    BY <1>3, <2>11
  <2> QED BY <1>2, <2>8, <2>11, <2>12, <2>13, <2>14, PlanningRuns
<1> QED BY <1>6, <1>7

-----------------------------------------------------------------------------
(* The last entries, the execution and the report. *)

LEMMA SavedEntries ==
  ASSUME TableInv
  PROVE  IsList(Saved) /\ \A k \in DOMAIN Saved : \E x \in DOMAIN rows : x[1] = "saved" /\ Saved[k] = rows[x]
<1> DEFINE I == SavedIds
<1>1. \A i \in I : \E x \in DOMAIN rows : x[1] = "saved" /\ rows[x].id = i
  BY DEF SavedIds
<1>2. I \subseteq 1..made /\ made \in Nat
  BY DEF SavedIds, TableInv, RowFits
<1> HIDE DEF I
<1>3. IsFiniteSet(1..made) /\ I \in SUBSET (1..made)
  BY <1>2, FS_Interval
<1>4. IsFiniteSet(I)
  BY <1>3, FS_Subset, Zenon
<1>5. I \subseteq Nat
  BY <1>2
<1>6. Cardinality(I) \in Nat
  BY <1>4, FS_CardinalityType
<1> DEFINE n == Cardinality(I)
           at(k) == CHOOSE e \in DOMAIN rows : rows[e].id = Nth(I, k)
<1>7. Saved = [k \in 1..n |-> rows[at(k)]]
  BY DEF Saved, I
<1>8. ASSUME NEW k \in 1..n
      PROVE  at(k) \in DOMAIN rows /\ at(k)[1] = "saved"
  <2>1. Nth(I, k) \in I
    BY <1>4, <1>5, NthFits
  <2>2. PICK x \in DOMAIN rows : x[1] = "saved" /\ rows[x].id = Nth(I, k)
    BY <1>1, <2>1
  <2>3. at(k) \in DOMAIN rows /\ rows[at(k)].id = Nth(I, k)
    BY <2>2
  <2>4. at(k) = x
    BY <2>2, <2>3 DEF TableInv
  <2> QED BY <2>2, <2>3, <2>4
<1> HIDE DEF at, n
<1>9. DOMAIN Saved = 1..n /\ n \in Nat /\ Saved = [k \in 1..n |-> Saved[k]]
  BY <1>6, <1>7 DEF n
<1>10. IsList(Saved)
  BY <1>9, ListOf
<1>11. \A k \in DOMAIN Saved : Saved[k] = rows[at(k)]
  BY <1>7, <1>9
<1> QED BY <1>8, <1>9, <1>10, <1>11

(* Lists of entries: joined, picked, shortened. *)
LEMMA EntriesJoin ==
  ASSUME NEW u, NEW s, NEW t, JoinOf(u, s, t), NEW R, NEW T, NEW a, NEW pages, NEW g,
         CasesFit(s, R, T, a, pages, g), CasesFit(t, R, T, a, pages, g)
  PROVE  /\ CasesFit(u, R, T, a, pages, g)
         /\ \A i \in DOMAIN s : \E k \in DOMAIN u : u[k] = s[i]
         /\ \A i \in DOMAIN t : \E k \in DOMAIN u : u[k] = t[i]
<1>1. IsList(s) /\ IsList(t) /\ u = s \o t
  BY DEF JoinOf
<1>2. /\ IsList(u)
      /\ \A i \in DOMAIN u : (i \in DOMAIN s /\ u[i] = s[i]) \/ (i - Len(s) \in DOMAIN t /\ u[i] = t[i - Len(s)])
      /\ \A i \in DOMAIN s : i \in DOMAIN u /\ u[i] = s[i]
      /\ \A i \in DOMAIN t : i + Len(s) \in DOMAIN u /\ u[i + Len(s)] = t[i]
  BY <1>1, JoinedFits
<1>3. CasesFit(u, R, T, a, pages, g)
  BY <1>2 DEF CasesFit
<1> QED BY <1>2, <1>3

LEMMA EntriesPicked ==
  ASSUME NEW s, NEW I, I \subseteq DOMAIN s, NEW u, u = Picked(s, I), NEW R, NEW T, NEW a, NEW pages, NEW g,
         CasesFit(s, R, T, a, pages, g)
  PROVE  /\ CasesFit(u, R, T, a, pages, g)
         /\ \A i \in I : \E k \in DOMAIN u : u[k] = s[i]
         /\ \A k \in DOMAIN u : \E i \in I : u[k] = s[i]
<1>1. IsList(s)
  BY DEF CasesFit
<1>2. /\ IsList(u) /\ \A k \in DOMAIN u : Nth(I, k) \in I /\ u[k] = s[Nth(I, k)]
      /\ \A i \in I : \E k \in DOMAIN u : u[k] = s[i]
  BY <1>1, PickedFits
<1>3. CasesFit(u, R, T, a, pages, g)
  BY <1>2 DEF CasesFit
<1> QED BY <1>2, <1>3

LEMMA EntriesShorten ==
  ASSUME NEW cs, cs # << >>, NEW R, NEW T, NEW a, NEW pages, NEW g, CasesFit(cs, R, T, a, pages, g),
         NEW rest, rest = Tail(cs), NEW first, first = Head(cs)
  PROVE  /\ CasesFit(rest, R, T, a, pages, g) /\ WriterFits(first) /\ StillFits(first.ext, R, T, a, pages, g)
         /\ \A slug : Among(slug, cs) => Among(slug, rest) \/ slug = first.ext
         /\ Tested(cs) => Tested(rest) \/ NamedLikeGoal(first)
<1>1. IsList(cs)
  BY DEF CasesFit
<1>2. /\ IsList(rest) /\ 1 \in DOMAIN cs /\ first = cs[1]
      /\ \A i \in DOMAIN rest : i + 1 \in DOMAIN cs /\ rest[i] = cs[i + 1]
      /\ \A i \in DOMAIN cs : i = 1 \/ (i - 1 \in DOMAIN rest /\ rest[i - 1] = cs[i])
  BY <1>1, TailFits
<1>3. CasesFit(rest, R, T, a, pages, g) /\ WriterFits(first) /\ StillFits(first.ext, R, T, a, pages, g)
  BY <1>2 DEF CasesFit
<1>4. \A slug : Among(slug, cs) => Among(slug, rest) \/ slug = first.ext
  BY <1>2 DEF Among
<1>5. Tested(cs) => Tested(rest) \/ NamedLikeGoal(first)
  BY <1>2 DEF Tested
<1> QED BY <1>3, <1>4, <1>5

LEMMA ResultJoins ==
  ASSUME NEW rs, NEW T, NEW a, NEW pages, NEW g, ResultsFit(rs, T, a, pages, g),
         NEW r, ResultFits(r, T, a, pages, g), NEW more, Grown(more, rs, r)
  PROVE  /\ ResultsFit(more, T, a, pages, g) /\ Among(r.ext, more) /\ (NamedLikeGoal(r) => Tested(more))
         /\ \A slug : Among(slug, rs) => Among(slug, more)
         /\ Tested(rs) => Tested(more)
<1>1. IsList(rs) /\ more = Append(rs, r)
  BY DEF ResultsFit, Grown
<1>2. /\ IsList(more)
      /\ \A i \in DOMAIN more : (i \in DOMAIN rs /\ more[i] = rs[i]) \/ more[i] = r
      /\ \A i \in DOMAIN rs : i \in DOMAIN more /\ more[i] = rs[i]
      /\ \E i \in DOMAIN more : more[i] = r
  BY <1>1, AppendedFits
<1>3. ResultsFit(more, T, a, pages, g)
  BY <1>2 DEF ResultsFit
<1>4. Among(r.ext, more) /\ \A slug : Among(slug, rs) => Among(slug, more)
  BY <1>2 DEF Among
<1>5. (NamedLikeGoal(r) => Tested(more)) /\ (Tested(rs) => Tested(more))
  BY <1>2 DEF Tested
<1> QED BY <1>3, <1>4, <1>5

LEMMA CollectRuns ==
  ASSUME RunInv, Collect
  PROVE  RunInv'
<1> DEFINE cs     == st.cases
           cases  == cs \o Saved
           signIn == {i \in DOMAIN cases : _is_sign_in(cases[i])}
           others == DOMAIN cases \ signIn
           first  == Picked(cases, signIn)
           rest   == Picked(cases, others)
           both   == first \o rest
           none   == goal.pieces # << >> /\ \A i \in DOMAIN cases : ~NamedLikeGoal(cases[i])
           order  == IF goal.sign_in_first THEN both ELSE cases
           parts  == IF none THEN {} ELSE st.page.untested
           Fit(s) == CasesFit(s, rows, touched, st.page, st.pages, goal)
<1>1. /\ st.pc = "collect" /\ UNCHANGED <<goal, blueprint, rows, made, ended, touched>>
      /\ st' = [st EXCEPT !.pc = "execute", !.cases = order, !.untested = none, !.parts = parts]
  BY DEF Collect
<1>2. st = [x \in StFields |-> st[x]] /\ st.fresh = NoTest /\ st.was = NoTest /\ st.todo = << >> /\ Fit(cs)
  BY <1>1 DEF RunInv, InputInv, EntryInv, TodoInv
<1>3. Fit(Saved)
  <2>1. TableInv
    BY DEF RunInv
  <2>2. IsList(Saved) /\ \A k \in DOMAIN Saved : \E x \in DOMAIN rows : x[1] = "saved" /\ Saved[k] = rows[x]
    BY <2>1, SavedEntries
  <2>3. ASSUME NEW x \in DOMAIN rows, x[1] = "saved"
        PROVE  WriterFits(rows[x]) /\ StillFits(rows[x].ext, rows, touched, st.page, st.pages, goal)
    <3>1. RowFits(rows[x], x, made)
      BY <2>1 DEF TableInv
    <3>2. x[1] \notin {"ai", "interaction", "link", "route"}
      BY <2>3
    <3>3. \A ss, a, pages, g : StepsFit(x, ss, a, pages, g)
      BY <3>2, OtherFits
    <3>4. WriterFits(rows[x])
      BY <3>1, <3>2, <3>3 DEF RowFits, WriterFits
    <3>5. StillFits(x, rows, touched, st.page, st.pages, goal)
      BY <3>3 DEF StillFits
    <3> QED BY <3>1, <3>4, <3>5 DEF RowFits
  <2> QED BY <2>2, <2>3 DEF CasesFit
<1>4. JoinOf(cases, cs, Saved)
  BY <1>2, <1>3 DEF JoinOf, CasesFit
<1> HIDE DEF cases
<1>5. Fit(cases) /\ \A i \in DOMAIN cs : \E k \in DOMAIN cases : cases[k] = cs[i]
  <2> HIDE DEF cs
  <2> QED BY <1>2, <1>3, <1>4, EntriesJoin
<1>6. /\ signIn \subseteq DOMAIN cases /\ others \subseteq DOMAIN cases /\ DOMAIN cases = signIn \union others
      /\ \A i \in signIn : _is_sign_in(cases[i])
      /\ first = Picked(cases, signIn) /\ rest = Picked(cases, others)
  OBVIOUS
<1> HIDE DEF cs, signIn, others, first, rest
<1>7. /\ Fit(first) /\ \A i \in signIn : \E k \in DOMAIN first : first[k] = cases[i]
      /\ \A k \in DOMAIN first : \E i \in signIn : first[k] = cases[i]
  BY <1>5, <1>6, EntriesPicked
<1>8. Fit(rest) /\ \A i \in others : \E k \in DOMAIN rest : rest[k] = cases[i]
  BY <1>5, <1>6, EntriesPicked
<1>9. JoinOf(both, first, rest)
  BY <1>7, <1>8 DEF JoinOf, CasesFit
<1> HIDE DEF both
<1>10. /\ Fit(both) /\ \A i \in DOMAIN first : \E k \in DOMAIN both : both[k] = first[i]
       /\ \A i \in DOMAIN rest : \E k \in DOMAIN both : both[k] = rest[i]
  BY <1>7, <1>8, <1>9, EntriesJoin
<1>11. \A i \in DOMAIN cases : \E k \in DOMAIN both : both[k] = cases[i]
  BY <1>6, <1>7, <1>8, <1>10
<1>12. Fit(order) /\ \A i \in DOMAIN cases : \E k \in DOMAIN order : order[k] = cases[i]
  BY <1>5, <1>10, <1>11
<1> HIDE DEF order
(* Nothing is lost, and a test like the goal's is there when the run says so. *)
<1>13. \A slug : Among(slug, cs) => Among(slug, order)
  BY <1>5, <1>12 DEF Among
<1>14. goal.pieces # << >> /\ ~none => parts = st.page.untested /\ Tested(order)
  <2>1. SUFFICES ASSUME goal.pieces # << >>, ~none
                 PROVE  parts = st.page.untested /\ Tested(order)
    OBVIOUS
  <2>2. PICK i \in DOMAIN cases : NamedLikeGoal(cases[i])
    BY <2>1
  <2>3. Tested(order)
    BY <1>12, <2>2 DEF Tested
  <2> QED BY <2>1, <2>3
<1> HIDE DEF none, parts
<1>15. /\ st' = [x \in StFields |-> st'[x]] /\ st'.pc = "execute" /\ st'.cases = order /\ st'.results = st.results
       /\ st'.untested = none /\ st'.parts = parts /\ st'.todo = << >> /\ st'.page = st.page /\ st'.pages = st.pages
       /\ st'.was = NoTest /\ st'.fresh = NoTest
  BY <1>1, <1>2 DEF StFields
<1>16. TableInv' /\ InputInv'
  BY <1>1, <1>15 DEF RunInv, TableInv, InputInv
<1>17. TodoInv'
  BY <1>1, <1>2, <1>15 DEF RunInv, TodoInv
<1>18. EntryInv'
  BY <1>1, <1>12, <1>15 DEF EntryInv
<1>19. ResultInv'
  BY <1>1, <1>15 DEF RunInv, ResultInv
<1>20. PagesKept(st'.todo, st'.cases, st'.results, st'.pages)
  <2>1. PagesKept(st.todo, cs, st.results, st.pages)
    BY DEF RunInv, CompleteInv, cs
  <2> QED BY <1>2, <1>13, <1>15, <2>1 DEF PagesKept
<1>21. CompleteInv'
  BY <1>1, <1>14, <1>15, <1>20 DEF CompleteInv
<1>22. ReportInv'
  BY <1>1, ReportStays DEF RunInv
<1> QED BY <1>16, <1>17, <1>18, <1>19, <1>21, <1>22 DEF RunInv

(* The stored steps are read when the test is executed. *)
LEMMA ExecuteRuns ==
  ASSUME RunInv, ExecuteTest
  PROVE  RunInv'
<1> DEFINE case == Head(st.cases)
           row  == rows[case.ext]
           rest == Tail(st.cases)
<1>1. PICK status \in Outcomes :
        st' = [st EXCEPT !.cases = Tail(@), !.results = Append(@, Result(case, row, status)),
                         !.session = @ \/ KeepsSession(case, status)]
  BY DEF ExecuteTest
<1>2. /\ st.pc = "execute" /\ st.cases # << >> /\ Stored(case)
      /\ UNCHANGED <<goal, blueprint, rows, made, ended, touched>>
  BY DEF ExecuteTest
<1> DEFINE result  == Result(case, row, status)
           session == st.session \/ KeepsSession(case, status)
           more    == Append(st.results, result)
<1>3. /\ st = [x \in StFields |-> st[x]] /\ st.fresh = NoTest /\ st.was = NoTest /\ st.todo = << >>
      /\ CasesFit(st.cases, rows, touched, st.page, st.pages, goal)
      /\ ResultsFit(st.results, touched, st.page, st.pages, goal)
  BY <1>2 DEF RunInv, InputInv, EntryInv, TodoInv, ResultInv
<1>4. result.ext = case.ext /\ result.category = case.category /\ result.steps = row.steps /\ result.ran = Ran(row.steps, st.page)
  BY DEF Result, Ran
<1>5. st' = [st EXCEPT !.cases = rest, !.results = more, !.session = session] /\ Grown(more, st.results, result)
  BY <1>1 DEF Grown
<1>6. rest = Tail(st.cases) /\ case = Head(st.cases) /\ case.ext \in DOMAIN rows /\ row = rows[case.ext]
  BY <1>2 DEF Stored
<1> HIDE DEF result, session, rest, case, row, more
<1>7. /\ CasesFit(rest, rows, touched, st.page, st.pages, goal)
      /\ WriterFits(case) /\ StillFits(case.ext, rows, touched, st.page, st.pages, goal)
      /\ \A slug : Among(slug, st.cases) => Among(slug, rest) \/ slug = case.ext
      /\ Tested(st.cases) => Tested(rest) \/ NamedLikeGoal(case)
  <2> DEFINE cs == st.cases
  <2>1. cs # << >> /\ rest = Tail(cs) /\ case = Head(cs) /\ CasesFit(cs, rows, touched, st.page, st.pages, goal)
    BY <1>2, <1>3, <1>6
  <2> HIDE DEF cs
  <2>2. /\ CasesFit(rest, rows, touched, st.page, st.pages, goal)
        /\ WriterFits(case) /\ StillFits(case.ext, rows, touched, st.page, st.pages, goal)
        /\ \A slug : Among(slug, cs) => Among(slug, rest) \/ slug = case.ext
        /\ Tested(cs) => Tested(rest) \/ NamedLikeGoal(case)
    BY <2>1, EntriesShorten
  <2> QED BY <2>2 DEF cs
<1>8. ResultFits(result, touched, st.page, st.pages, goal)
  <2>1. WriterFits(result)
    BY <1>4, <1>7 DEF WriterFits
  <2>2. case.ext \in touched \/ StepsFit(case.ext, row.steps, st.page, st.pages, goal)
    BY <1>6, <1>7 DEF StillFits
  <2> QED BY <1>4, <2>1, <2>2 DEF ResultFits
<1>9. NamedLikeGoal(case) => NamedLikeGoal(result)
  BY <1>4 DEF NamedLikeGoal
<1>10. /\ ResultsFit(more, touched, st.page, st.pages, goal) /\ Among(result.ext, more)
       /\ (NamedLikeGoal(result) => Tested(more))
       /\ \A slug : Among(slug, st.results) => Among(slug, more)
       /\ Tested(st.results) => Tested(more)
  <2> DEFINE rs == st.results
  <2>1. Grown(more, rs, result) /\ ResultsFit(rs, touched, st.page, st.pages, goal)
    BY <1>3, <1>5
  <2> HIDE DEF rs
  <2>2. /\ ResultsFit(more, touched, st.page, st.pages, goal) /\ Among(result.ext, more)
        /\ (NamedLikeGoal(result) => Tested(more))
        /\ \A slug : Among(slug, rs) => Among(slug, more)
        /\ Tested(rs) => Tested(more)
    BY <1>8, <2>1, ResultJoins
  <2> QED BY <2>2 DEF rs
<1>11. /\ st' = [x \in StFields |-> st'[x]] /\ st'.pc = "execute" /\ st'.cases = rest /\ st'.results = more
       /\ st'.untested = st.untested /\ st'.parts = st.parts /\ st'.todo = << >>
       /\ st'.page = st.page /\ st'.pages = st.pages /\ st'.was = NoTest /\ st'.fresh = NoTest
  BY <1>2, <1>3, <1>5 DEF StFields
<1>12. TableInv' /\ InputInv'
  BY <1>2, <1>11 DEF RunInv, TableInv, InputInv
<1>13. TodoInv'
  BY <1>2, <1>3, <1>11 DEF RunInv, TodoInv
<1>14. EntryInv' /\ ResultInv'
  BY <1>2, <1>7, <1>10, <1>11 DEF EntryInv, ResultInv
<1>15. PagesKept(st'.todo, st'.cases, st'.results, st'.pages)
  <2>1. PagesKept(st.todo, st.cases, st.results, st.pages)
    BY DEF RunInv, CompleteInv
  <2>2. \A slug : Among(slug, st.cases) => Among(slug, rest) \/ Among(slug, more)
    BY <1>4, <1>7, <1>10
  <2> QED BY <1>3, <1>10, <1>11, <2>1, <2>2 DEF PagesKept
<1>16. CompleteInv'
  <2>1. goal.pieces # << >> /\ ~st.untested => st.parts = st.page.untested /\ (Tested(st.cases) \/ Tested(st.results))
    BY <1>2 DEF RunInv, CompleteInv
  <2>2. Tested(st.cases) \/ Tested(st.results) => Tested(rest) \/ Tested(more)
    BY <1>7, <1>9, <1>10
  <2> QED BY <1>2, <1>11, <1>15, <2>1, <2>2 DEF CompleteInv
<1>17. ReportInv'
  BY <1>2, ReportStays DEF RunInv
<1> QED BY <1>12, <1>13, <1>14, <1>16, <1>17 DEF RunInv

(* The report: each promise from what the results are. *)
LEMMA ReportRuns ==
  ASSUME RunInv, Report
  PROVE  RunInv'
<1>1. /\ st.pc = "execute" /\ st.cases = << >> /\ st' = Idle
      /\ UNCHANGED <<goal, blueprint, rows, made, touched>>
      /\ ended'.tests = st.results /\ ended'.untested = st.untested /\ ended'.parts = st.parts
      /\ ended'.pages = st.pages /\ ended'.known = KnownSelectors(st.page)
  BY DEF Report, EndsAs
<1> DEFINE a == st.page
<1>2. st.todo = << >>
  BY <1>1 DEF RunInv, TodoInv
<1>3. ASSUME NEW r \in Range(ended'.tests)
      PROVE  /\ \E i \in DOMAIN st.results : r = st.results[i]
             /\ ResultFits(r, touched, a, st.pages, goal)
  <2>1. \E i \in DOMAIN st.results : r = st.results[i]
    BY <1>1, <1>3 DEF Range
  <2> QED BY <2>1 DEF RunInv, ResultInv, ResultsFit
<1>4. \A i \in DOMAIN st.results : st.results[i] \in Range(ended'.tests)
  BY <1>1 DEF Range
<1> HIDE DEF a
<1>5. PlannerStaysOnThePage'
  <2>1. ASSUME NEW r \in Range(ended'.tests), r.category = "ai", r.ext \notin touched, NEW k \in DOMAIN r.ran
        PROVE  r.ran[k].target \in ended'.known \union {<< >>}
    <3>1. WriterFits(r) /\ r.ran = Ran(r.steps, a) /\ StepsFit(r.ext, r.steps, a, st.pages, goal)
      BY <1>3, <2>1 DEF ResultFits
    <3>2. OnPage(r.steps, a)
      BY <2>1, <3>1 DEF WriterFits, StepsFit
    <3> QED BY <1>1, <2>1, <3>1, <3>2 DEF OnPage, a
  <2> QED BY <1>1, <2>1 DEF PlannerStaysOnThePage
<1>6. Apart => EveryPathIsVisited'
  <2>1. ASSUME Apart, NEW url \in ended'.pages, PageSlugs(url) \intersect touched = {}
        PROVE  \E r \in Range(ended'.tests) : \E k \in DOMAIN r.steps :
                 r.steps[k].action = "navigate" /\ Path(r.steps[k].value) = Path(url)
    <3>1. url \in st.pages
      BY <1>1, <2>1
    <3>2. PICK slug \in PageSlugs(url) : Planning(slug, st.todo) \/ Among(slug, st.cases) \/ Among(slug, st.results)
      BY <3>1 DEF RunInv, CompleteInv, PagesKept
    <3>3. Among(slug, st.results)
      BY <1>1, <1>2, <3>2, EmptyList DEF Planning, Among
    <3>4. PICK i \in DOMAIN st.results : st.results[i].ext = slug
      BY <3>3 DEF Among
    <3> DEFINE r == st.results[i]
    <3>5. r \in Range(ended'.tests) /\ r.ext = slug
      BY <1>4, <3>4
    <3> HIDE DEF r
    <3>6. StepsFit(slug, r.steps, a, st.pages, goal)
      BY <1>3, <2>1, <3>5 DEF ResultFits
    <3>7. Opened(r.steps, url)
      BY <2>1, <3>1, <3>2, <3>6 DEF StepsFit
    <3> QED BY <3>5, <3>7 DEF Opened
  <2> QED BY <1>1, <2>1 DEF EveryPathIsVisited
<1>7. Fillable => GoalIsAccountedFor'
  <2> DEFINE split     == split_goal(goal.pieces)
             scenarios == {x \in Range(ended'.tests) : x.ext = <<"interaction">>}
             done      == UNION {Range(r.steps) : r \in scenarios}
  <2>1. SUFFICES ASSUME Fillable, ~st.untested,
                        scenarios = {} => \A r \in Range(ended'.tests) : r.ext \notin Named
                 PROVE  GoalIsAccountedFor'
    BY <1>1 DEF GoalIsAccountedFor
  <2>2. ASSUME NEW k \in DOMAIN split
        PROVE  \/ split[k] \in st.parts
               \/ <<"interaction">> \in touched
               \/ /\ later_part_steps(split[k], goal.values) # << >>
                  /\ Range(later_part_steps(split[k], goal.values)) \subseteq done
               \/ k = 1 /\ UsesForm(done, split, goal.values)
    <3>1. goal \in Goals
      BY DEF RunInv, InputInv
    <3>2. goal.pieces # << >>
      BY <2>2, <3>1, SplitIsList
    <3>3. st.parts = a.untested /\ (Tested(st.cases) \/ Tested(st.results))
      BY <1>1, <2>1, <3>2 DEF RunInv, CompleteInv, a
    <3>4. PICK i \in DOMAIN st.results : NamedLikeGoal(st.results[i])
      BY <1>1, <3>3, EmptyList DEF Tested
    <3>5. scenarios # {}
      <4>1. st.results[i] \in Range(ended'.tests)
        BY <1>4
      <4>2. CASE st.results[i].ext = <<"interaction">>
        BY <4>1, <4>2
      <4>3. CASE st.results[i].ext \in Named
        BY <2>1, <4>1, <4>3
      <4> QED BY <3>4, <4>2, <4>3 DEF NamedLikeGoal
    <3>6. PICK r \in Range(ended'.tests) : r.ext = <<"interaction">>
      BY <3>5
    <3>7. ResultFits(r, touched, a, st.pages, goal)
      BY <1>3
    <3>8. Range(r.steps) \subseteq done
      BY <3>6
    <3> HIDE DEF done, scenarios
    <3>9. CASE <<"interaction">> \in touched
      BY <3>9
    <3>10. CASE <<"interaction">> \notin touched
      <4>1. Accounts(r.steps, a.untested, goal)
        BY <3>6, <3>7, <3>10 DEF ResultFits, StepsFit
      <4>2. \/ split[k] \in a.untested
            \/ /\ later_part_steps(split[k], goal.values) # << >>
               /\ Range(later_part_steps(split[k], goal.values)) \subseteq Range(r.steps)
            \/ k = 1 /\ UsesForm(Range(r.steps), split, goal.values)
        BY <2>1, <2>2, <4>1 DEF Accounts
      <4>3. UsesForm(Range(r.steps), split, goal.values) => UsesForm(done, split, goal.values)
        BY <3>8 DEF UsesForm
      <4> QED BY <3>3, <3>8, <4>2, <4>3
    <3> QED BY <3>9, <3>10
  <2> QED BY <1>1, <2>2 DEF GoalIsAccountedFor
<1>8. ReportInv'
  BY <1>5, <1>6, <1>7 DEF ReportInv
<1>9. Beginning(st') /\ st'.pc = "idle"
  BY <1>1, IdleBegins, IdleFacts
<1>10. goal \in Goals /\ RoutesKnown(blueprint)
  BY DEF RunInv, InputInv
<1> QED BY <1>1, <1>8, <1>9, <1>10, BeginningRuns

-----------------------------------------------------------------------------
(* The user. *)

LEMMA ChangedRuns ==
  ASSUME RunInv, UNCHANGED <<goal, blueprint, st, ended, made>>, touched \subseteq touched',
         NEW e \in DOMAIN rows, NEW new, rows' = Put(new), RowFits(new, e, made), new.id = rows[e].id,
         new.steps = rows[e].steps \/ e \in touched'
  PROVE  RunInv'
<1>1. made \in Nat /\ TableInv
  BY DEF RunInv, TableInv
<1>2. RowFits(new, e, made') /\ made' \in Nat /\ made <= made'
  BY <1>1
<1>3. TableInv'
  BY <1>1, <1>2, PutTable
<1>4. new.ext = e
  BY DEF RowFits
<1>5. DOMAIN rows' = DOMAIN rows \union {e} /\ rows'[e] = new /\ \A d \in DOMAIN rows \ {e} : rows'[d] = rows[d]
  BY <1>4, PutFits
<1>6. Keeps(rows, rows', touched, touched', st.page, st.pages, goal)
  BY <1>5 DEF Keeps
<1> QED BY <1>3, <1>6, UserRuns

LEMMA TrustRuns ==
  ASSUME RunInv, Trust \/ Quarantine \/ Edit
  PROVE  RunInv'
<1>1. \A e \in DOMAIN rows : RowFits(rows[e], e, made)
  BY DEF RunInv, TableInv
<1>2. \A e \in DOMAIN rows : \A b \in BOOLEAN :
        RowFits(Marked(rows[e], b), e, made) /\ Marked(rows[e], b).id = rows[e].id /\ Marked(rows[e], b).steps = rows[e].steps
  <2>1. ASSUME NEW e \in DOMAIN rows, NEW b \in BOOLEAN
        PROVE  RowFits(Marked(rows[e], b), e, made) /\ Marked(rows[e], b).id = rows[e].id /\ Marked(rows[e], b).steps = rows[e].steps
    <3> DEFINE row == rows[e]
               new == Marked(row, b)
    <3>1. RowFits(row, e, made) /\ new = Marked(row, b)
      BY <1>1
    <3> HIDE DEF row, new
    <3>2. RowFits(new, e, made) /\ new.id = row.id /\ new.steps = row.steps
      BY <3>1, ChangedFits
    <3> QED BY <3>2 DEF row, new
  <2> QED BY <2>1
<1>3. UNCHANGED <<goal, blueprint, st, ended, made>> /\ touched \subseteq touched'
  <2>1. CASE Trust
    BY <2>1 DEF Trust
  <2>2. CASE Quarantine
    BY <2>2 DEF Quarantine
  <2>3. CASE Edit
    BY <2>3 DEF Edit
  <2> QED BY <2>1, <2>2, <2>3
<1>4. CASE Trust \/ Quarantine
  <2>1. PICK e \in DOMAIN rows, b \in BOOLEAN : rows' = Put(Marked(rows[e], b))
    <3>1. CASE Trust
      BY <3>1 DEF Trust, Marked
    <3>2. CASE Quarantine
      BY <3>2 DEF Quarantine, Marked
    <3> QED BY <1>4, <3>1, <3>2
  <2> DEFINE new == Marked(rows[e], b)
  <2>2. rows' = Put(new) /\ RowFits(new, e, made) /\ new.id = rows[e].id /\ new.steps = rows[e].steps
    BY <1>2, <2>1
  <2> HIDE DEF new
  <2> QED BY <1>3, <2>2, ChangedRuns
<1>5. CASE Edit
  <2>1. PICK e \in DOMAIN rows, ss \in UserSteps :
          rows' = Put(WithSteps(rows[e], ss)) /\ touched' = touched \union {e}
    BY <1>5 DEF Edit, WithSteps
  <2> DEFINE row == rows[e]
             new == WithSteps(row, ss)
  <2>2. rows' = Put(new) /\ RowFits(row, e, made) /\ new = WithSteps(row, ss) /\ e \in touched'
    BY <1>1, <2>1
  <2> HIDE DEF row, new
  <2>3. RowFits(new, e, made) /\ new.id = rows[e].id
    BY <2>2, EditedFits DEF row
  <2> QED BY <1>3, <2>2, <2>3, ChangedRuns
<1> QED BY <1>4, <1>5

LEMMA DeleteRuns ==
  ASSUME RunInv, Delete
  PROVE  RunInv'
<1>1. PICK e \in DOMAIN rows :
        rows' = [x \in DOMAIN rows \ {e} |-> rows[x]] /\ touched' = touched \union {e}
  BY DEF Delete
<1>2. UNCHANGED <<goal, blueprint, st, ended, made>>
  BY DEF Delete
<1>3. \A x \in DOMAIN rows' : x \in DOMAIN rows /\ rows'[x] = rows[x]
  BY <1>1
<1>4. TableInv'
  BY <1>2, <1>3 DEF RunInv, TableInv
<1>5. Keeps(rows, rows', touched, touched', st.page, st.pages, goal)
  BY <1>1, <1>3 DEF Keeps
<1> QED BY <1>2, <1>4, <1>5, UserRuns

LEMMA SaveRuns ==
  ASSUME RunInv, Save
  PROVE  RunInv'
<1> DEFINE ext == <<"saved", "mine">>
           category == "saved"
<1>1. PICK ss \in UserSteps : rows' = Put(Insert(ext, category, ss)) /\ made' = made + 1
  BY DEF Save
<1>2. UNCHANGED <<goal, blueprint, st, ended, touched>>
  BY DEF Save
<1> DEFINE new == Insert(ext, category, ss)
<1>3. /\ category = "ai" <=> ext[1] = "ai"
      /\ category = "explored" <=> ext[1] = "explored"
      /\ ext[1] \notin {"ai", "interaction", "link", "route"}
  OBVIOUS
<1>4. new = Insert(ext, category, ss) /\ rows' = Put(new)
  BY <1>1
<1> HIDE DEF ext, category, new
<1>5. made \in Nat /\ TableInv
  BY DEF RunInv, TableInv
<1>6. RowFits(new, ext, made + 1) /\ new.id = made + 1 /\ new.ext = ext
  BY <1>3, <1>4, <1>5, InsertFits
<1>7. RowFits(new, ext, made') /\ made' \in Nat /\ made <= made'
  BY <1>1, <1>5, <1>6
<1>8. TableInv'
  BY <1>4, <1>5, <1>6, <1>7, PutTable
<1>9. StepsFit(ext, new.steps, st.page, st.pages, goal)
  BY <1>3, OtherFits
<1>10. Keeps(rows, rows', touched, touched, st.page, st.pages, goal)
  BY <1>4, <1>6, <1>9, PutStill
<1>11. Keeps(rows, rows', touched, touched', st.page, st.pages, goal)
  BY <1>2, <1>10
<1> QED BY <1>2, <1>8, <1>11, UserRuns

LEMMA ChangeGoalRuns ==
  ASSUME RunInv, ChangeGoal
  PROVE  RunInv'
<1>1. st.pc = "idle" /\ goal' \in Goals /\ ended' = NoRun /\ UNCHANGED <<blueprint, rows, made, st>>
  BY DEF ChangeGoal
<1>2. Beginning(st') /\ st'.pc = "idle"
  BY <1>1, EarlyRun
<1>3. RoutesKnown(blueprint')
  BY <1>1 DEF RunInv, InputInv
<1>4. ReportInv'
  BY <1>1, NoReport
<1> QED BY <1>1, <1>2, <1>3, <1>4, BeginningRuns

LEMMA NextRuns ==
  ASSUME RunInv, [Next]_vars
  PROVE  RunInv'
<1>1. CASE StartRun \/ Codebase \/ Analyze \/ Plan
  BY <1>1, StartRuns, CodebaseRuns, AnalyzeRuns, PlanRuns
<1>2. CASE Upsert \/ Distrust \/ RowIsGone
  BY <1>2, UpsertRuns, DistrustRuns, RowIsGoneRuns
<1>3. CASE Replays \/ ExploreBegins \/ ExploreFails \/ Record
  BY <1>3, ReplaysRuns, ExploreBeginsRuns, ExploreFailsRuns, RecordRuns
<1>4. CASE Collect \/ ExecuteTest \/ Report
  BY <1>4, CollectRuns, ExecuteRuns, ReportRuns
<1>5. CASE TestIsGone \/ Stops
  BY <1>5, ErrorRuns DEF TestIsGone, Stops
<1>6. CASE Trust \/ Quarantine \/ Edit \/ Delete \/ Save \/ ChangeGoal
  BY <1>6, TrustRuns, DeleteRuns, SaveRuns, ChangeGoalRuns
<1>7. CASE UNCHANGED vars
  <2>1. UNCHANGED <<goal, blueprint, st, ended, touched, rows, made>>
    BY <1>7 DEF vars
  <2>2. TableInv'
    BY <2>1 DEF RunInv, TableInv
  <2>3. Keeps(rows, rows', touched, touched', st.page, st.pages, goal)
    BY <2>1 DEF Keeps
  <2> QED BY <2>1, <2>2, <2>3, UserRuns
<1> QED BY <1>1, <1>2, <1>3, <1>4, <1>5, <1>6, <1>7 DEF Next

LEMMA RunsKeep == Spec => []RunInv
<1>1. Init => RunInv
  BY InitRun
<1>2. RunInv /\ [Next]_vars => RunInv'
  BY NextRuns
<1> QED BY <1>1, <1>2, PTL DEF Spec

(* Whatever the planner answers, whatever earlier runs, the user and the     *)
(* explorer left in the table, each step of a planner's test that a run      *)
(* executed acts on or looks at an element the analysis of that run found    *)
(* (ai_plan.py _resolve_steps, suite.py upsert and test_case_to_engine_plan),*)
(* unless the user changed its row while the run was on.  The end of a drag  *)
(* and what a wait waits for are values, which the code compares with        *)
(* nothing: nothing is said of them.                                         *)
THEOREM PlannerStays == Spec => []PlannerStaysOnThePage
<1>1. RunInv => PlannerStaysOnThePage
  BY DEF RunInv, ReportInv
<1> QED BY <1>1, RunsKeep, PTL

(* While slugs tell the site's paths apart, a run that ends with a report    *)
(* opened every page that was offered and answered (suite.py candidate_pages *)
(* and the tests of pages), unless the user changed or deleted that page's   *)
(* test meanwhile: the tests planned for them are never lost between the     *)
(* plan, the table, the entries and the results, in any order of writes,     *)
(* recordings, deletions and additions.                                      *)
THEOREM PathsAreVisited ==
  ASSUME Apart
  PROVE  Spec => []EveryPathIsVisited
<1>1. RunInv => EveryPathIsVisited
  BY DEF RunInv, ReportInv
<1> QED BY <1>1, RunsKeep, PTL

(* While each form has a field to fill in or a button to press, a run that   *)
(* ends with a report accounts for every part of the goal: as untested, by   *)
(* the steps the scenario ran, or, the first one, by its use of the form     *)
(* (goal_plan.py plan_goal, url_analyzer.py _plan_scenario, runner.py's      *)
(* untested goal); whatever the ids of other tests, if the page gave a       *)
(* scenario.                                                                 *)
THEOREM GoalsAreAccountedFor ==
  ASSUME Fillable
  PROVE  Spec => []GoalIsAccountedFor
<1>1. RunInv => GoalIsAccountedFor
  BY DEF RunInv, ReportInv
<1> QED BY <1>1, RunsKeep, PTL

-----------------------------------------------------------------------------
(* The exploration that makes a recording (GoalExplorer), for every site,    *)
(* goal, model and provider.  ExplorerAssumption and LLMClientAssumption say *)
(* what a site, its pages and the replies of a provider are.                 *)
(* A reply that is not worth another request ends the call, as an error that *)
(* does not count as a bad answer.                                           *)
LEMMA PointlessReply ==
  ASSUME NEW r, Pointless(r), MAX_RETRY_AFTER_S \in Nat, r.status \in Nat, r.wait \in Int
  PROVE  /\ provider_generate(r) # NoError
         /\ provider_generate(r).name # "LLMResponseError"
         /\ ~is_retryable(provider_generate(r))
<1> DEFINE refused == _raise_for_status(r)
<1>1. refused # NoError => provider_generate(r) = refused
  BY DEF Pointless, provider_generate
<1>0. NoError.name = ""
  BY DEF NoError, LLMError
<1>2. CASE r.status \in {401, 403}
  <2>1. refused.name = "LLMAuthenticationError"
    BY <1>2 DEF _raise_for_status, Plain, LLMError
  <2> QED BY <1>0, <1>1, <2>1 DEF is_retryable
<1>3. CASE r.status \notin {401, 403}
  <2>1. r.status = 429 /\ (r.exhausted \/ r.wait > MAX_RETRY_AFTER_S)
    BY <1>3 DEF Pointless
  <2>2. refused = LLMError("LLMRateLimitError", r.wait, r.exhausted)
    BY <2>1 DEF _raise_for_status
  <2>3. refused.name = "LLMRateLimitError" /\ refused.wait = r.wait /\ refused.exhausted = r.exhausted
    BY <2>2 DEF LLMError
  <2>4. ~is_retryable(refused)
    BY <2>1, <2>3 DEF is_retryable
  <2> QED BY <1>0, <1>1, <2>3, <2>4
<1> QED BY <1>2, <1>3

CallFields == {"pc", "attempts", "slept", "error", "says"}

(* What one reply makes of a call: an answer, an end in an error, or another *)
(* request.                                                                  *)
LEMMA OneAttempt ==
  ASSUME NEW c, DOMAIN c = CallFields, NEW r
  PROVE  LET d == Attempted(c, r)
             e == provider_generate(r)
         IN /\ DOMAIN d = CallFields /\ d.attempts = c.attempts + 1
            /\ \/ d.pc = "answered" /\ d.says = r.says /\ e = NoError /\ parse_json(r) = NoError
               \/ d.pc = "failed" /\ e = NoError
               \/ d.pc = "failed" /\ e # NoError /\ d.error = e
               \/ /\ d.pc = c.pc /\ e # NoError /\ is_retryable(e) /\ c.attempts + 1 < 1 + MaxRetries_LLM
<1> DEFINE e == provider_generate(r)
<1>1. CASE e = NoError /\ parse_json(r) = NoError
  BY <1>1 DEF Attempted, CallFields
<1>2. CASE e = NoError /\ parse_json(r) # NoError
  BY <1>2 DEF Attempted, CallFields
<1>3. CASE e # NoError /\ is_retryable(e) /\ c.attempts + 1 < 1 + MaxRetries_LLM
  BY <1>3 DEF Attempted, CallFields
<1>4. CASE e # NoError /\ ~(is_retryable(e) /\ c.attempts + 1 < 1 + MaxRetries_LLM)
  BY <1>4 DEF Attempted, CallFields
<1> QED BY <1>1, <1>2, <1>3, <1>4

-----------------------------------------------------------------------------
(* The pages a recording leads through. *)

Visits(s, f) ==
  f = [k \in 0..Len(s) |-> IF k = 0 THEN PageAt[Start] ELSE ReplayStep(f[k - 1], s[k])]

(* One more step makes one more page. *)
LEMMA VisitsOneMore ==
  ASSUME NEW S, NEW s \in Seq(S), NEW x \in S, NEW f, Visits(s, f)
  PROVE  \E g : /\ Visits(Append(s, x), g)
                /\ \A k \in 0..Len(s) : g[k] = f[k]
                /\ g[Len(s) + 1] = ReplayStep(f[Len(s)], x)
<1> DEFINE n == Len(s)
           t == Append(s, x)
           g == [k \in 0..(n + 1) |-> IF k = n + 1 THEN ReplayStep(f[n], x) ELSE f[k]]
<1>1. n \in Nat /\ Len(t) = n + 1 /\ t[n + 1] = x /\ \A k \in 1..n : t[k] = s[k]
  OBVIOUS
<1> HIDE DEF t
<1>2. \A k \in 0..n : g[k] = f[k] /\ f[k] = IF k = 0 THEN PageAt[Start] ELSE ReplayStep(f[k - 1], s[k])
  BY <1>1 DEF Visits
<1>3. g[n + 1] = ReplayStep(f[n], x)
  BY <1>1
<1>4. \A k \in 0..(n + 1) : g[k] = IF k = 0 THEN PageAt[Start] ELSE ReplayStep(g[k - 1], t[k])
  <2> SUFFICES ASSUME NEW k \in 0..(n + 1)
               PROVE  g[k] = IF k = 0 THEN PageAt[Start] ELSE ReplayStep(g[k - 1], t[k])
    OBVIOUS
  <2>1. CASE k = 0
    <3>1. 0 \in 0..n /\ g[0] = f[0]
      BY <1>1, <1>2
    <3>2. f[0] = PageAt[Start]
      BY <3>1, <1>2
    <3> HIDE DEF g
    <3> QED BY <3>1, <3>2, <2>1
  <2>2. CASE k \in 1..n
    <3>1. k - 1 \in 0..n /\ g[k - 1] = f[k - 1] /\ t[k] = s[k]
      BY <2>2, <1>1, <1>2
    <3> HIDE DEF g
    <3> QED BY <3>1, <2>2, <1>1, <1>2
  <2>3. CASE k = n + 1
    <3>1. k - 1 = n /\ n \in 0..n /\ k # 0
      BY <2>3, <1>1
    <3>2. g[k - 1] = f[n] /\ t[k] = x
      BY <3>1, <2>3, <1>1, <1>2
    <3> HIDE DEF g
    <3> QED BY <3>1, <3>2, <2>3, <1>3
  <2> QED BY <2>1, <2>2, <2>3, <1>1
<1>5. g = [k \in 0..(n + 1) |-> g[k]]
  OBVIOUS
<1> HIDE DEF g
<1>6. [k \in 0..(n + 1) |-> g[k]]
        = [k \in 0..(n + 1) |-> IF k = 0 THEN PageAt[Start] ELSE ReplayStep(g[k - 1], t[k])]
  BY <1>4
<1>7. Visits(t, g)
  BY <1>1, <1>5, <1>6 DEF Visits
<1> QED BY <1>1, <1>2, <1>3, <1>7 DEF t

(* Every recording leads somewhere: by its least length for which none would. *)
LEMMA VisitsExist ==
  ASSUME NEW S, NEW s \in Seq(S)
  PROVE  \E f : Visits(s, f)
<1> DEFINE Lost == {n \in Nat : \E t \in Seq(S) : Len(t) = n /\ ~\E f : Visits(t, f)}
<1>1. ASSUME NEW n \in Lost, \A m \in Lost : n <= m
      PROVE  FALSE
  <2>1. PICK t \in Seq(S) : Len(t) = n /\ ~\E f : Visits(t, f)
    BY <1>1
  <2>2. CASE n = 0
    <3>1. Visits(t, [k \in 0..0 |-> PageAt[Start]])
      BY <2>1, <2>2 DEF Visits
    <3> QED BY <3>1, <2>1
  <2>3. CASE n # 0
    <3>0. t # << >>
      BY <2>1, <2>3
    <3>1. PICK u \in Seq(S), x \in S : t = Append(u, x)
      BY <2>1, <3>0, SequenceEmptyOrAppend
    <3>6. Len(u) = n - 1 /\ n - 1 \in Nat
      BY <2>1, <3>1
    <3>2. n - 1 \notin Lost
      BY <3>6, <1>1
    <3>3. PICK f : Visits(u, f)
      BY <3>6, <3>2
    <3>4. \E g : Visits(Append(u, x), g)
      BY <3>1, <3>3, VisitsOneMore
    <3> QED BY <3>1, <3>4, <2>1
  <2> QED BY <2>2, <2>3
<1>2. Lost = {}
  <2>1. Lost \subseteq Nat
    OBVIOUS
  <2> HIDE DEF Lost
  <2> QED BY <1>1, <2>1, LeastNatural
<1> QED BY <1>2

(* And to the same pages whenever it is replayed. *)
LEMMA VisitsUnique ==
  ASSUME NEW S, NEW s \in Seq(S), NEW f, Visits(s, f), NEW g, Visits(s, g)
  PROVE  f[Len(s)] = g[Len(s)]
<1> DEFINE Differ == {k \in 0..Len(s) : f[k] # g[k]}
<1>1. /\ Len(s) \in Nat
      /\ \A k \in 0..Len(s) : f[k] = IF k = 0 THEN PageAt[Start] ELSE ReplayStep(f[k - 1], s[k])
      /\ \A k \in 0..Len(s) : g[k] = IF k = 0 THEN PageAt[Start] ELSE ReplayStep(g[k - 1], s[k])
  <2>1. Len(s) \in Nat
    OBVIOUS
  <2>2. \A k \in 0..Len(s) : f[k] = IF k = 0 THEN PageAt[Start] ELSE ReplayStep(f[k - 1], s[k])
    BY DEF Visits
  <2>3. \A k \in 0..Len(s) : g[k] = IF k = 0 THEN PageAt[Start] ELSE ReplayStep(g[k - 1], s[k])
    BY DEF Visits
  <2> QED BY <2>1, <2>2, <2>3
<1>2. ASSUME NEW k \in Differ, \A m \in Differ : k <= m
      PROVE  FALSE
  <2>1. k \in 0..Len(s) /\ f[k] # g[k] /\ k # 0
    BY <1>1
  <2>2. k - 1 \in 0..Len(s) /\ k - 1 \notin Differ
    BY <1>1, <1>2, <2>1
  <2>3. f[k - 1] = g[k - 1]
    BY <2>2
  <2> QED BY <1>1, <2>1, <2>3
<1>3. Differ \subseteq Nat
  OBVIOUS
<1>4. Differ = {}
  <2> HIDE DEF Differ
  <2> QED BY <1>2, <1>3, LeastNatural
<1> QED BY <1>1, <1>4

LEMMA ReplayIsLastVisit ==
  ASSUME NEW S, NEW s \in Seq(S), NEW f, Visits(s, f)
  PROVE  Replay(s) = f[Len(s)]
<1> DEFINE g == CHOOSE h : Visits(s, h)
<1>1. Visits(s, g)
  BY VisitsExist
<1>2. Replay(s) = g[Len(s)]
  BY DEF Replay, Visits
<1> HIDE DEF g
<1> QED BY <1>1, <1>2, VisitsUnique

(* A recording replays step by step. *)
LEMMA ReplayOneMore ==
  ASSUME NEW S, NEW s \in Seq(S), NEW x \in S
  PROVE  Replay(Append(s, x)) = ReplayStep(Replay(s), x)
<1>1. PICK f : Visits(s, f)
  BY VisitsExist
<1>2. PICK g : Visits(Append(s, x), g) /\ g[Len(s) + 1] = ReplayStep(f[Len(s)], x)
  BY <1>1, VisitsOneMore
<1>3. Append(s, x) \in Seq(S) /\ Len(Append(s, x)) = Len(s) + 1
  OBVIOUS
<1>4. Replay(s) = f[Len(s)]
  BY <1>1, ReplayIsLastVisit
<1>5. Replay(Append(s, x)) = g[Len(s) + 1]
  BY <1>2, <1>3, ReplayIsLastVisit
<1> QED BY <1>2, <1>4, <1>5

LEMMA ReplayOfNothing ==
  Replay(<< >>) = PageAt[Start]
<1>1. << >> \in Seq({}) /\ Len(<< >>) = 0
  OBVIOUS
<1>2. PICK f : Visits(<< >>, f)
  BY <1>1, VisitsExist
<1>3. f[0] = PageAt[Start]
  BY <1>1, <1>2 DEF Visits
<1>4. Replay(<< >>) = f[Len(<< >>)]
  BY <1>1, <1>2, ReplayIsLastVisit
<1> QED BY <1>1, <1>3, <1>4

-----------------------------------------------------------------------------
(* Elements and their locators. *)

(* What a node is. *)
LEMMA NodesOfPages ==
  ASSUME NEW p \in Pages
  PROVE  /\ Nodes[p] \in Seq(Range(Nodes[p]))
         /\ \A n \in Range(Nodes[p]) : n.css \in Seq(Range(n.css))
<1> DEFINE All == UNION {Range(Nodes[q]) : q \in Pages}
<1>1. Nodes \in [Pages -> Seq(All)] /\ \A n \in All : n.css \in Seq(Range(n.css))
  BY ExplorerAssumption
<1>2. Nodes[p] \in Seq(All) /\ Range(Nodes[p]) \subseteq All
  BY <1>1
<1> HIDE DEF All
<1>3. Nodes[p] \in Seq(Range(Nodes[p]))
  BY <1>2 DEF Range
<1> QED BY <1>1, <1>2, <1>3

(* The locators a page view gives an element are locators of its node. *)
LEMMA OwnLocators ==
  ASSUME NEW p \in Pages, NEW n \in Range(Nodes[p])
  PROVE  Locators(_READ_PAGE_JS(p, n)) \in Seq(Range(n.css) \union {n.text, n.path})
<1> DEFINE I == {i \in DOMAIN n.css : unique(p, n.css[i])}
           css == Picked(n.css, I)
           named == IF n.text = "" THEN << >> ELSE <<n.text>>
           e == _READ_PAGE_JS(p, n)
           first == IF css = << >> THEN << >> ELSE Tail(css)
           final == IF css = << >> THEN << >> ELSE <<n.path>>
           Own == Range(n.css) \union {n.text, n.path}
<1>1. n.css \in Seq(Range(n.css))
  BY NodesOfPages
<1>2. I \subseteq Nat /\ IsFiniteSet(I)
  <2>1. DOMAIN n.css = 1..Len(n.css) /\ Len(n.css) \in Nat
    BY <1>1
  <2>2. IsFiniteSet(1..Len(n.css))
    BY <2>1, FS_Interval
  <2> QED BY <2>1, <2>2, FS_Subset
<1>3. css \in Seq(Range(n.css))
  <2>2. \A k \in 1..Cardinality(I) : Nth(I, k) \in I
    BY <1>2, NthFits
  <2>3. Cardinality(I) \in Nat /\ I \subseteq DOMAIN n.css
    BY <1>2, FS_CardinalityType
  <2> HIDE DEF I
  <2>4. \A k \in 1..Cardinality(I) : n.css[Nth(I, k)] \in Range(n.css)
    BY <2>2, <2>3 DEF Range
  <2> QED BY <2>3, <2>4 DEF Picked
<1>4. e.primary = (IF css = << >> THEN n.path ELSE css[1]) /\ e.fallbacks = first \o named \o final
  BY DEF _READ_PAGE_JS
<1> HIDE DEF css, I, e
<1>10. css = << >> \/ (css[1] \in Range(n.css) /\ Tail(css) \in Seq(Range(n.css)))
  BY <1>3
<1>11. Range(n.css) \subseteq Own /\ n.text \in Own /\ n.path \in Own
  OBVIOUS
<1> HIDE DEF Own
<1>5. e.primary \in Own
  BY <1>10, <1>11, <1>4
<1>12. named \in Seq(Own) /\ final \in Seq(Own)
  <2>1. << >> \in Seq(Own) /\ <<n.text>> \in Seq(Own) /\ <<n.path>> \in Seq(Own)
    BY <1>11
  <2> QED BY <2>1
<1>13. first \in Seq(Own)
  <2>1. CASE css = << >>
    BY <2>1
  <2>2. CASE css # << >>
    <3>1. Tail(css) \in Seq(Own)
      BY <2>2, <1>10, <1>11
    <3> QED BY <3>1, <2>2
  <2> QED BY <2>1, <2>2
<1>6. first \in Seq(Own) /\ named \in Seq(Own) /\ final \in Seq(Own)
  BY <1>12, <1>13
<1> HIDE DEF first, named, final
<1>7. e.fallbacks \in Seq(Own)
  BY <1>4, <1>6
<1>8. Locators(e) \in Seq(Own)
  BY <1>5, <1>7 DEF Locators
<1> QED BY <1>8 DEF e, Own

LEMMA OwnNode ==
  ASSUME NEW p \in Pages, NEW n \in Range(Nodes[p]),
         NEW l \in Range(Locators(_READ_PAGE_JS(p, n)))
  PROVE  n \in Matching(p, l)
<1> DEFINE Own == Range(n.css) \union {n.text, n.path}
<1>1. Locators(_READ_PAGE_JS(p, n)) \in Seq(Own)
  BY OwnLocators
<1> HIDE DEF Own
<1>2. l \in Own
  BY <1>1 DEF Range
<1> QED BY <1>2 DEF Matching, Own

(* Every element of a page view is there for a node of the page. *)
LEMMA ViewedNodes ==
  ASSUME NEW p \in Pages, NEW k \in DOMAIN read_page(p)
  PROVE  \E n \in Range(Nodes[p]) : read_page(p)[k] = _READ_PAGE_JS(p, n)
<1> DEFINE usable == {i \in DOMAIN Nodes[p] : Nodes[p][i].usable}
           kept == IF Cardinality(usable) < MAX_ELEMENTS THEN Cardinality(usable) ELSE MAX_ELEMENTS
<1>1. Nodes[p] \in Seq(Range(Nodes[p]))
  BY NodesOfPages
<1>2. usable \subseteq Nat /\ IsFiniteSet(usable) /\ usable \subseteq DOMAIN Nodes[p]
  <2>1. DOMAIN Nodes[p] = 1..Len(Nodes[p]) /\ Len(Nodes[p]) \in Nat
    BY <1>1
  <2>2. IsFiniteSet(1..Len(Nodes[p]))
    BY <2>1, FS_Interval
  <2> QED BY <2>1, <2>2, FS_Subset
<1>3. Cardinality(usable) \in Nat /\ MAX_ELEMENTS \in Nat
  BY <1>2, FS_CardinalityType, ExplorerAssumption
<1>4. read_page(p) = [i \in 1..kept |-> _READ_PAGE_JS(p, Nodes[p][Nth(usable, i)])]
  BY DEF read_page
<1> HIDE DEF usable
<1>5. k \in 1..Cardinality(usable)
  BY <1>3, <1>4
<1>6. Nth(usable, k) \in usable
  BY <1>2, <1>5, NthFits
<1>7. Nodes[p][Nth(usable, k)] \in Range(Nodes[p])
  BY <1>2, <1>6 DEF Range
<1>8. read_page(p)[k] = _READ_PAGE_JS(p, Nodes[p][Nth(usable, k)])
  BY <1>4
<1> QED BY <1>7, <1>8

LEMMA ViewFits ==
  ASSUME NEW p \in Pages
  PROVE  IsList(read_page(p)) /\ Len(read_page(p)) <= MAX_ELEMENTS
<1> DEFINE usable == {i \in DOMAIN Nodes[p] : Nodes[p][i].usable}
           kept == IF Cardinality(usable) < MAX_ELEMENTS THEN Cardinality(usable) ELSE MAX_ELEMENTS
           view_ == [i \in 1..kept |-> _READ_PAGE_JS(p, Nodes[p][Nth(usable, i)])]
<1>1. Nodes[p] \in Seq(Range(Nodes[p]))
  BY NodesOfPages
<1>2. IsFiniteSet(usable)
  <2>1. DOMAIN Nodes[p] = 1..Len(Nodes[p]) /\ Len(Nodes[p]) \in Nat
    BY <1>1
  <2>2. IsFiniteSet(1..Len(Nodes[p]))
    BY <2>1, FS_Interval
  <2> QED BY <2>1, <2>2, FS_Subset
<1>3. Cardinality(usable) \in Nat /\ MAX_ELEMENTS \in Nat
  BY <1>2, FS_CardinalityType, ExplorerAssumption
<1>4. read_page(p) = view_
  BY DEF read_page
<1> HIDE DEF usable
<1>5. kept \in Nat /\ kept <= MAX_ELEMENTS
  BY <1>3
<1> HIDE DEF kept
<1>6. DOMAIN view_ = 1..kept /\ view_ = [i \in 1..kept |-> view_[i]]
  OBVIOUS
<1> HIDE DEF view_
<1>7. IsList(view_) /\ Len(view_) = kept
  BY <1>5, <1>6, ListOf
<1> QED BY <1>4, <1>5, <1>7

(* The elements an index may name are those of the view. *)
LEMMA ElementsAreViewed ==
  ASSUME IsList(view), NEW index, NEW e \in element(index)
  PROVE  \E k \in DOMAIN view : e = view[k]
<1>1. Len(view) \in Nat /\ DOMAIN view = 1..Len(view)
  BY ListFits
<1> DEFINE i == index - 1
           n == Len(view)
<1>2. CASE i \in 0..(n - 1)
  <2>1. element(index) = {view[i + 1]} /\ i + 1 \in 1..n
    BY <1>1, <1>2 DEF element
  <2> QED BY <1>1, <2>1
<1>3. CASE i \notin 0..(n - 1) /\ i \in (-n)..-1
  <2>1. element(index) = {view[n + i + 1]} /\ n + i + 1 \in 1..n
    BY <1>1, <1>3 DEF element
  <2> QED BY <1>1, <2>1
<1>4. CASE i \notin 0..(n - 1) /\ i \notin (-n)..-1
  BY <1>4 DEF element
<1> QED BY <1>2, <1>3, <1>4

(* The first of some locators that matches one element. *)
LEMMA FirstUnique ==
  ASSUME NEW S, NEW all \in Seq(S), NEW p,
         {i \in DOMAIN all : unique(p, all[i])} # {}
  PROVE  LET l == all[Nth({i \in DOMAIN all : unique(p, all[i])}, 1)]
         IN l \in Range(all) /\ unique(p, l)
<1> DEFINE found == {i \in DOMAIN all : unique(p, all[i])}
<1>3. DOMAIN all = 1..Len(all) /\ Len(all) \in Nat
  OBVIOUS
<1>4. found # {} /\ found \subseteq DOMAIN all /\ \A i \in found : unique(p, all[i])
  OBVIOUS
<1> HIDE DEF found
<1>5. IsFiniteSet(1..Len(all))
  BY <1>3, FS_Interval
<1>6. found \subseteq Nat /\ IsFiniteSet(found)
  BY <1>3, <1>4, <1>5, FS_Subset
<1>7. Cardinality(found) \in Nat /\ Cardinality(found) # 0
  BY <1>4, <1>6, FS_CardinalityType, FS_EmptySet
<1>8. 1 \in 1..Cardinality(found)
  BY <1>7
<1>9. Nth(found, 1) \in found
  BY <1>6, <1>8, NthFits
<1>10. all[Nth(found, 1)] \in Range(all) /\ unique(p, all[Nth(found, 1)])
  BY <1>4, <1>9 DEF Range
<1> QED BY <1>10 DEF found

LEMMA OneMatch ==
  ASSUME NEW p \in Pages, NEW l, unique(p, l), NEW n \in Matching(p, l), NEW m \in Matching(p, l)
  PROVE  n = m
<1> DEFINE M == Matching(p, l)
<1>1. Cardinality(M) = 1
  BY DEF unique
<1>2. IsFiniteSet(M)
  <2>1. Nodes[p] \in Seq(Range(Nodes[p]))
    BY NodesOfPages
  <2>2. IsFiniteSet(Range(Nodes[p]))
    <3>1. \A n_ \in Range(Nodes[p]) : \E i \in 1..Len(Nodes[p]) : Nodes[p][i] = n_
      BY <2>1 DEF Range
    <3> QED BY <2>1, <3>1 DEF IsFiniteSet
  <2>3. M \subseteq Range(Nodes[p])
    BY DEF Matching
  <2> QED BY <2>2, <2>3, FS_Subset
<1> HIDE DEF M
<1>3. PICK x : M = {x}
  BY <1>1, <1>2, FS_Singleton
<1> QED BY <1>3 DEF M

LEMMA ReadsTexts ==
  ASSUME NEW p, NEW n
  PROVE  _READ_PAGE_JS(p, n).label = n.label /\ _READ_PAGE_JS(p, n).href = n.href
BY DEF _READ_PAGE_JS

(* On the page that was read, the locator found for an element finds its     *)
(* node.                                                                     *)
LEMMA ActsOnWhatWasRead ==
  ASSUME NEW p \in Pages, NEW k \in DOMAIN read_page(p),
         NEW l, l = _unique_locator(p, read_page(p)[k]), l # "",
         NEW n \in Matching(p, l)
  PROVE  /\ unique(p, l)
         /\ n.label = read_page(p)[k].label /\ n.href = read_page(p)[k].href
<1> DEFINE e == read_page(p)[k]
<1>1. PICK m \in Range(Nodes[p]) : e = _READ_PAGE_JS(p, m)
  BY ViewedNodes
<1> DEFINE all == Locators(e)
           found == {i \in DOMAIN all : unique(p, all[i])}
<1>2. all \in Seq(Range(m.css) \union {m.text, m.path})
  BY <1>1, OwnLocators
<1>3. l = IF found = {} THEN "" ELSE all[Nth(found, 1)]
  BY DEF _unique_locator
<1>4. found # {} /\ l = all[Nth(found, 1)]
  BY <1>3
<1> HIDE DEF all
<1>5. l \in Range(all) /\ unique(p, l)
  BY <1>2, <1>4, FirstUnique
<1>6. m \in Matching(p, l)
  BY <1>1, <1>5, OwnNode DEF all
<1>7. n = m
  BY <1>5, <1>6, OneMatch
<1>8. m.label = e.label /\ m.href = e.href
  <2>1. _READ_PAGE_JS(p, m).label = m.label /\ _READ_PAGE_JS(p, m).href = m.href
    BY ReadsTexts
  <2> HIDE DEF e
  <2> QED BY <1>1, <2>1, Zenon
<1> QED BY <1>5, <1>7, <1>8

(* What was done with the one element a locator finds is done again by the   *)
(* replay.                                                                   *)
LEMMA InteractionReplays ==
  ASSUME NEW p \in Pages, NEW l, unique(p, l), NEW n \in Matching(p, l),
         NEW action \in ELEMENT_ACTIONS, NEW value, <<p, action, n.id, value>> \in DOMAIN Leads
  PROVE  ReplayStep(p, RecordedStep(action, l, value, NoUrl)) = Following(p, action, n.id, value)
<1> DEFINE s == RecordedStep(action, l, value, NoUrl)
           found == {m \in Matching(p, s.target) : <<p, s.action, m.id, s.value>> \in DOMAIN Leads}
<1>1. s.action = action /\ s.target = l /\ s.value = value
  BY DEF RecordedStep
<1>2. p # "broken"
  BY ExplorerAssumption
<1>3. action \notin {"NAVIGATE", "PRESS", "ASSERT_URL", "ASSERT_CONTAINS_TEXT"}
  BY DEF ELEMENT_ACTIONS
<1> HIDE DEF s
<1>4. ReplayStep(p, s)
        = IF Cardinality(found) = 1 THEN Following(p, s.action, (CHOOSE m \in found : TRUE).id, s.value)
          ELSE "broken"
  BY <1>1, <1>2, <1>3 DEF ReplayStep
<1>5. found = {n}
  BY <1>1, OneMatch
<1> HIDE DEF found
<1>6. Cardinality(found) = 1
  BY <1>5, FS_Singleton
<1>7. (CHOOSE m \in found : TRUE) = n
  BY <1>5
<1> QED BY <1>1, <1>4, <1>6, <1>7 DEF s

LEMMA FollowingIsPage ==
  ASSUME NEW p \in Pages, NEW action, NEW id, NEW value
  PROVE  Following(p, action, id, value) \in Pages
<1>1. Range(Leads) \subseteq Pages
  BY ExplorerAssumption
<1> QED BY <1>1 DEF Following, Range

-----------------------------------------------------------------------------
(* The invariant of an exploration. *)

ControlInv ==
  /\ pc \in {"look", "ask", "act", "reached", "stopped", "raised"} /\ page \in Pages
  /\ turn \in 0..MaxSteps /\ bad \in 0..(MAX_BAD_ANSWERS + 1) /\ (pc # "stopped" => bad <= MAX_BAD_ANSWERS)
  /\ drifted \in BOOLEAN /\ moved \in BOOLEAN /\ spent \in BOOLEAN

(* While the page has not changed since, what was read is what is there. *)
ViewInv ==
  /\ IsList(view) /\ Len(view) <= MAX_ELEMENTS
  /\ moved => drifted
  /\ pc \in {"ask", "act"} /\ ~moved => view = read_page(page)

(* After a pointless request, the exploration is over or about to be. *)
CallInv ==
  /\ DOMAIN call = CallFields /\ call.pc \in {"none", "asking", "answered", "failed"}
  /\ call.attempts \in 0..(1 + MaxRetries_LLM) /\ (call.pc = "asking" => call.attempts <= MaxRetries_LLM)
  /\ call.pc = "answered" => call.says \in Decisions
  /\ pc = "act" => call.pc = "answered"
  /\ spent => \/ pc \in {"stopped", "raised"}
              \/ pc = "ask" /\ call.pc = "failed" /\ call.error.name # "LLMResponseError"

(* A turn records at most one step, and the steps lead to the page there is. *)
RecordingInv ==
  /\ \E S : steps \in Seq(S)
  /\ Len(steps) \in 1..(turn + 1) /\ (pc \in {"ask", "act"} => Len(steps) <= turn)
  /\ ~drifted /\ pc # "reached" => Replay(steps) = page
  /\ ~drifted /\ pc = "reached" => Unfindable(steps[Len(steps)]) \/ Replay(steps) # "broken"

ExplorerInv == ControlInv /\ ViewInv /\ CallInv /\ RecordingInv /\ StaysWithinGoal

LEMMA SiteNumbers ==
  /\ MaxSteps \in Nat /\ MaxSteps # 0 /\ MAX_BAD_ANSWERS \in Nat /\ MAX_ELEMENTS \in Nat
  /\ MaxRetries_LLM \in Nat /\ MAX_RETRY_AFTER_S \in Nat
BY ExplorerAssumption, LLMClientAssumption

LEMMA OneMoreStep ==
  ASSUME NEW s, \E S : s \in Seq(S), NEW x
  PROVE  /\ \E S : Append(s, x) \in Seq(S)
         /\ Len(Append(s, x)) = Len(s) + 1 /\ Len(s) \in Nat /\ Append(s, x)[Len(s) + 1] = x
         /\ Replay(Append(s, x)) = ReplayStep(Replay(s), x)
<1>1. PICK S : s \in Seq(S)
  OBVIOUS
<1> DEFINE T == S \union {x}
<1>2. s \in Seq(T) /\ x \in T
  BY <1>1
<1>3. Append(s, x) \in Seq(T) /\ Len(Append(s, x)) = Len(s) + 1 /\ Len(s) \in Nat /\ Append(s, x)[Len(s) + 1] = x
  BY <1>2
<1> HIDE DEF T
<1> QED BY <1>2, <1>3, ReplayOneMore

LEMMA FreshCall ==
  /\ DOMAIN NoCall = CallFields /\ NoCall.pc = "none" /\ NoCall.attempts = 0
  /\ DOMAIN Asking = CallFields /\ Asking.pc = "asking" /\ Asking.attempts = 0
BY DEF NoCall, Asking, CallFields

(* A turn or the exploration ends. *)
LEMMA EndsKeeps ==
  ASSUME ExplorerInv, NEW how \in {"look", "reached", "stopped", "raised"}, Ends(how),
         spent' = spent, spent => how \in {"stopped", "raised"}
  PROVE  ViewInv' /\ CallInv'
<1>1. pc' = how /\ view' = << >> /\ call' = NoCall /\ moved' = FALSE
  BY DEF Ends
<1>2. ViewInv'
  <2>1. << >> \in Seq({}) /\ Len(<< >>) = 0 /\ MAX_ELEMENTS \in Nat
    BY SiteNumbers
  <2>2. IsList(<< >>)
    BY <2>1, SeqIsList
  <2> QED BY <1>1, <2>1, <2>2 DEF ViewInv
<1>3. CallInv'
  <2>1. DOMAIN NoCall = CallFields /\ NoCall.pc = "none" /\ NoCall.attempts = 0 /\ MaxRetries_LLM \in Nat
    BY FreshCall, SiteNumbers
  <2> QED BY <1>1, <2>1 DEF CallInv
<1> QED BY <1>2, <1>3

LEMMA ExplorerStarts ==
  ASSUME ExplorerInit
  PROVE  ExplorerInv
<1>1. pc = "look" /\ page = PageAt[Start] /\ view = << >> /\ turn = 0 /\ bad = 0 /\ call = NoCall
      /\ acted = {} /\ drifted = FALSE /\ moved = FALSE /\ spent = FALSE
  BY DEF ExplorerInit
<1>2. page \in Pages /\ "broken" \notin Pages
  BY <1>1, ExplorerAssumption DEF Range
<1>3. ControlInv
  <2>1. drifted \in BOOLEAN /\ moved \in BOOLEAN /\ spent \in BOOLEAN
    BY <1>1, Zenon
  <2>2. pc \in {"look", "ask", "act", "reached", "stopped", "raised"}
    BY <1>1
  <2>3. turn \in 0..MaxSteps /\ bad \in 0..(MAX_BAD_ANSWERS + 1) /\ bad <= MAX_BAD_ANSWERS
    BY <1>1, SiteNumbers
  <2> QED BY <1>2, <2>1, <2>2, <2>3 DEF ControlInv
<1>4. ViewInv
  <2>1. << >> \in Seq({}) /\ Len(<< >>) = 0 /\ MAX_ELEMENTS \in Nat
    BY SiteNumbers
  <2>2. IsList(<< >>)
    BY <2>1, SeqIsList
  <2> QED BY <1>1, <2>1, <2>2 DEF ViewInv
<1>5. CallInv
  BY <1>1, FreshCall, SiteNumbers DEF CallInv
<1>6. RecordingInv
  <2> DEFINE x == [action |-> "NAVIGATE", target |-> "", value |-> "", url |-> Start]
  <2>1. steps = <<x>> /\ x.action = "NAVIGATE" /\ x.url = Start
    BY DEF ExplorerInit, RecordedStep
  <2> HIDE DEF x
  <2>2. << >> \in Seq({}) /\ Len(<< >>) = 0 /\ <<x>> = Append(<< >>, x)
    OBVIOUS
  <2>3. Replay(<<x>>) = ReplayStep(PageAt[Start], x) /\ \E S : <<x>> \in Seq(S)
    <3>1. \E S : << >> \in Seq(S)
      BY <2>2
    <3> DEFINE none == << >>
    <3>2. \E S : none \in Seq(S)
      BY <3>1
    <3>3. Replay(none) = PageAt[Start] /\ <<x>> = Append(none, x)
      BY <2>2, ReplayOfNothing
    <3> HIDE DEF none
    <3>4. Replay(Append(none, x)) = ReplayStep(Replay(none), x) /\ \E S : Append(none, x) \in Seq(S)
      BY <3>2, OneMoreStep
    <3> QED BY <3>3, <3>4
  <2>4. ReplayStep(PageAt[Start], x) = PageAt[Start]
    BY <1>1, <1>2, <2>1 DEF ReplayStep
  <2>5. Len(steps) = 1
    BY <2>1
  <2> QED BY <1>1, <2>1, <2>3, <2>4, <2>5 DEF RecordingInv
<1>7. StaysWithinGoal
  BY <1>1 DEF StaysWithinGoal
<1> QED BY <1>3, <1>4, <1>5, <1>6, <1>7 DEF ExplorerInv

-----------------------------------------------------------------------------
(* Every action keeps it. *)

LEMMA LookKeeps ==
  ASSUME ExplorerInv, Look
  PROVE  ExplorerInv'
<1> USE DEF ExplorerInv
<1>1. /\ pc = "look" /\ page' = page /\ bad' = bad /\ steps' = steps /\ acted' = acted
      /\ drifted' = drifted /\ spent' = spent
  BY DEF Look
<1>2. StaysWithinGoal'
  BY <1>1 DEF StaysWithinGoal
<1>3. ~spent /\ call.attempts \in Nat
  BY <1>1 DEF CallInv
<1>4. CASE turn = MaxSteps /\ Ends("stopped") /\ turn' = turn
  <2>1. ViewInv' /\ CallInv'
    BY <1>1, <1>4, EndsKeeps
  <2>2. pc' = "stopped" /\ moved' = FALSE
    BY <1>4 DEF Ends
  <2>3. ControlInv'
    BY <1>1, <1>4, <2>2 DEF ControlInv
  <2>4. RecordingInv'
    BY <1>1, <1>4, <2>2 DEF RecordingInv
  <2> QED BY <1>2, <2>1, <2>3, <2>4
<1>5. CASE turn < MaxSteps /\ turn' = turn + 1 /\ view' = read_page(page) /\ pc' = "ask"
           /\ call' = Asking /\ moved' = FALSE
  <2>1. ViewInv'
    <3>1. page \in Pages
      BY DEF ControlInv
    <3>2. IsList(read_page(page)) /\ Len(read_page(page)) <= MAX_ELEMENTS
      BY <3>1, ViewFits
    <3> QED BY <1>1, <1>5, <3>2 DEF ViewInv
  <2>2. CallInv'
    BY <1>1, <1>3, <1>5, FreshCall, SiteNumbers DEF CallInv
  <2>3. ControlInv'
    <3>1. moved' \in BOOLEAN
      BY <1>5, Zenon
    <3>2. turn' \in 0..MaxSteps
      BY <1>5, SiteNumbers DEF ControlInv
    <3> QED BY <1>1, <1>5, <3>1, <3>2 DEF ControlInv
  <2>4. RecordingInv'
    <3>1. turn \in Nat
      BY SiteNumbers DEF ControlInv
    <3> QED BY <1>1, <1>5, <3>1 DEF RecordingInv
  <2> QED BY <1>2, <2>1, <2>2, <2>3, <2>4
<1> QED BY <1>4, <1>5 DEF Look

LEMMA KnownReplies ==
  ASSUME NEW r \in Replies
  PROVE  r.status \in Nat /\ r.wait \in Int /\ (parse_json(r) = NoError => r.says \in Decisions)
<1>1. ExplorerAssumption
  BY ExplorerAssumption
<1>2. IsReply(r)
  BY <1>1, Zenon DEF ExplorerAssumption
<1> QED BY <1>2, Zenon DEF IsReply

LEMMA AttemptKeeps ==
  ASSUME ExplorerInv, Attempt
  PROVE  ExplorerInv'
<1> USE DEF ExplorerInv
<1>1. /\ pc = "ask" /\ call.pc = "asking" /\ pc' = pc /\ page' = page /\ view' = view /\ turn' = turn /\ bad' = bad
      /\ steps' = steps /\ acted' = acted /\ drifted' = drifted /\ moved' = moved
  BY DEF Attempt
<1>2. ~spent
  BY <1>1 DEF CallInv
<1> DEFINE Good == {Reply("answer", 200, NoHint, FALSE, "object", d) : d \in Decisions}
<1>3. PICK r \in Replies \union Good : call' = Attempted(call, r) /\ spent' = (spent \/ Pointless(r))
  BY DEF Attempt
<1>4. r.status \in Nat /\ r.wait \in Int /\ (parse_json(r) = NoError => r.says \in Decisions)
  <2>1. CASE r \in Replies
    BY <2>1, KnownReplies, Zenon
  <2>2. CASE r \in Good
    BY <2>2 DEF Reply, NoHint
  <2> QED BY <2>1, <2>2
<1> HIDE DEF Good
<1>5. DOMAIN call = CallFields /\ call.attempts \in 0..MaxRetries_LLM /\ MaxRetries_LLM \in Nat /\ MAX_RETRY_AFTER_S \in Nat
  BY <1>1, SiteNumbers DEF CallInv
<1>6. spent' \in BOOLEAN /\ (spent' <=> Pointless(r))
  BY <1>2, <1>3
<1>7. CallInv'
  <2> DEFINE e == provider_generate(r)
  <2>1. DOMAIN call' = CallFields /\ call'.attempts = call.attempts + 1
    BY <1>3, <1>5, OneAttempt
  <2>2. \/ call'.pc = "answered" /\ call'.says = r.says /\ e = NoError /\ parse_json(r) = NoError
        \/ call'.pc = "failed" /\ e = NoError
        \/ call'.pc = "failed" /\ e # NoError /\ call'.error = e
        \/ call'.pc = call.pc /\ e # NoError /\ is_retryable(e) /\ call.attempts + 1 < 1 + MaxRetries_LLM
    BY <1>3, <1>5, OneAttempt
  <2>3. Pointless(r) => e # NoError /\ e.name # "LLMResponseError" /\ ~is_retryable(e)
    BY <1>4, <1>5, PointlessReply
  <2> HIDE DEF e
  <2>4. spent' => call'.pc = "failed" /\ call'.error.name # "LLMResponseError"
    BY <1>6, <2>2, <2>3
  <2>5. call'.pc \in {"none", "asking", "answered", "failed"} /\ (call'.pc = "answered" => call'.says \in Decisions)
    BY <1>1, <1>4, <2>2
  <2>6. call'.pc = "asking" => call'.attempts <= MaxRetries_LLM
    BY <1>1, <1>5, <2>1, <2>2
  <2>7. call'.attempts \in 0..(1 + MaxRetries_LLM)
    BY <1>5, <2>1
  <2> QED BY <1>1, <2>1, <2>4, <2>5, <2>6, <2>7 DEF CallInv
<1>8. ControlInv'
  BY <1>1, <1>6 DEF ControlInv
<1>9. ViewInv'
  BY <1>1 DEF ViewInv
<1>10. RecordingInv'
  BY <1>1 DEF RecordingInv
<1>11. StaysWithinGoal'
  BY <1>1 DEF StaysWithinGoal
<1> QED BY <1>7, <1>8, <1>9, <1>10, <1>11

LEMMA AnsweredKeeps ==
  ASSUME ExplorerInv, Answered
  PROVE  ExplorerInv'
<1> USE DEF ExplorerInv
<1>1. /\ pc = "ask" /\ call.pc = "answered" /\ pc' = "act" /\ page' = page /\ view' = view /\ turn' = turn /\ bad' = bad
      /\ steps' = steps /\ acted' = acted /\ drifted' = drifted /\ moved' = moved /\ call' = call /\ spent' = spent
  BY DEF Answered
<1>2. ControlInv'
  BY <1>1 DEF ControlInv
<1>3. CallInv'
  BY <1>1 DEF CallInv
<1>4. ViewInv'
  BY <1>1 DEF ViewInv
<1>5. RecordingInv'
  BY <1>1 DEF RecordingInv
<1>6. StaysWithinGoal'
  BY <1>1 DEF StaysWithinGoal
<1> QED BY <1>2, <1>3, <1>4, <1>5, <1>6

(* A turn that only ends: nothing was done on the page. *)
LEMMA IdleTurnKeeps ==
  ASSUME ExplorerInv, NEW how \in {"look", "stopped", "raised"}, Ends(how),
         pc \in {"look", "ask", "act"}, spent => how # "look",
         bad' \in 0..(MAX_BAD_ANSWERS + 1), how # "stopped" => bad' <= MAX_BAD_ANSWERS,
         turn' = turn, page' = page, steps' = steps, acted' = acted, drifted' = drifted, spent' = spent
  PROVE  ExplorerInv'
<1> USE DEF ExplorerInv
<1>1. pc' = how /\ moved' = FALSE
  BY DEF Ends
<1>2. ViewInv' /\ CallInv'
  BY EndsKeeps
<1>3. ControlInv'
  BY <1>1 DEF ControlInv
<1>4. RecordingInv'
  BY <1>1 DEF RecordingInv
<1>5. StaysWithinGoal'
  BY DEF StaysWithinGoal
<1> QED BY <1>2, <1>3, <1>4, <1>5

LEMMA IdleTurnsKeep ==
  ASSUME ExplorerInv,
         Unreadable \/ Unavailable \/ StepTimeout \/ Refused \/ GiveUp \/ Raised
  PROVE  ExplorerInv'
<1> USE DEF ExplorerInv
<1>0. bad \in 0..MAX_BAD_ANSWERS \/ pc = "stopped"
  BY SiteNumbers DEF ControlInv
<1>9. MAX_BAD_ANSWERS \in Nat
  BY SiteNumbers
<1>1. CASE Unreadable
  <2>1. pc = "ask" /\ call.pc = "failed" /\ call.error.name = "LLMResponseError" /\ bad' = bad + 1 /\ turn' = turn /\ page' = page
        /\ steps' = steps /\ acted' = acted /\ drifted' = drifted /\ spent' = spent
    BY <1>1 DEF Unreadable
  <2>2. ~spent
    BY <2>1 DEF CallInv
  <2>3. Ends("stopped") \/ (bad' <= MAX_BAD_ANSWERS /\ Ends("look"))
    BY <1>1, <1>0, <1>9, <2>1 DEF Unreadable, NextTurn
  <2>4. bad' \in 0..(MAX_BAD_ANSWERS + 1)
    BY <1>0, <1>9, <2>1
  <2> QED BY <2>1, <2>2, <2>3, <2>4, IdleTurnKeeps
<1>2. CASE Unavailable \/ StepTimeout \/ GiveUp \/ Raised
  <2>1. pc \in {"look", "ask", "act"} /\ bad' = bad /\ turn' = turn /\ page' = page
        /\ steps' = steps /\ acted' = acted /\ drifted' = drifted /\ spent' = spent
    BY <1>2 DEF Unavailable, StepTimeout, GiveUp, Raised
  <2>2. Ends("stopped") \/ Ends("raised")
    BY <1>2 DEF Unavailable, StepTimeout, GiveUp, Raised
  <2>3. bad' \in 0..(MAX_BAD_ANSWERS + 1) /\ bad' <= MAX_BAD_ANSWERS
    BY <1>0, <1>9, <2>1
  <2> QED BY <2>1, <2>2, <2>3, IdleTurnKeeps
<1>3. CASE Refused
  <2>1. pc = "act" /\ bad' = bad /\ turn' = turn /\ page' = page
        /\ steps' = steps /\ acted' = acted /\ drifted' = drifted /\ spent' = spent /\ Ends("look")
    BY <1>3 DEF Refused, NextTurn
  <2>2. ~spent
    BY <2>1 DEF CallInv
  <2>3. bad' \in 0..(MAX_BAD_ANSWERS + 1) /\ bad' <= MAX_BAD_ANSWERS
    BY <1>0, <1>9, <2>1
  <2> QED BY <2>1, <2>2, <2>3, IdleTurnKeeps
<1> QED BY <1>1, <1>2, <1>3

LEMMA DoneKeeps ==
  ASSUME ExplorerInv, Done
  PROVE  ExplorerInv'
<1> USE DEF ExplorerInv
<1>1. pc = "act" /\ bad' = bad /\ turn' = turn /\ page' = page /\ acted' = acted /\ drifted' = drifted /\ spent' = spent
  BY DEF Done
<1>2. ~spent /\ bad \in 0..(MAX_BAD_ANSWERS + 1) /\ bad <= MAX_BAD_ANSWERS
  BY <1>1 DEF CallInv, ControlInv
<1>3. CASE ~_verify(page, Says.check)
  <2>1. Ends("look") /\ steps' = steps
    BY <1>3 DEF Done, NextTurn
  <2> QED BY <1>1, <1>2, <2>1, IdleTurnKeeps
<1>4. CASE _verify(page, Says.check)
  <2> DEFINE x == _check_step(Says.check)
  <2>1. Ends("reached") /\ steps' = Append(steps, x)
    BY <1>4 DEF Done
  <2>2. pc' = "reached" /\ moved' = FALSE
    BY <2>1 DEF Ends
  <2>3. ViewInv' /\ CallInv'
    BY <1>1, <1>2, <2>1, EndsKeeps
  <2>4. ControlInv'
    <3>1. moved' \in BOOLEAN
      BY <2>2, Zenon
    <3> QED BY <1>1, <1>2, <2>2, <3>1 DEF ControlInv
  <2>5. page # "broken"
    BY ExplorerAssumption DEF ControlInv
  <2>6. Unfindable(x) \/ ReplayStep(page, x) = page
    <3>1. HoldsOn(page, Says.check)
      BY <1>4 DEF _verify
    <3>2. x.action \in {"ASSERT_URL", "ASSERT_CONTAINS_TEXT"} /\ x.value = Says.check
      BY DEF _check_step, RecordedStep
    <3> HIDE DEF x
    <3> QED BY <2>5, <3>1, <3>2 DEF ReplayStep
  <2> HIDE DEF x
  <2>7. RecordingInv'
    <3>1. \E S : steps \in Seq(S)
      BY DEF RecordingInv
    <3>2. /\ \E S : steps' \in Seq(S)
          /\ Len(steps') = Len(steps) + 1 /\ Len(steps) \in Nat /\ steps'[Len(steps')] = x
          /\ Replay(steps') = ReplayStep(Replay(steps), x)
      BY <2>1, <3>1, OneMoreStep
    <3>3. Len(steps') \in 1..(turn' + 1)
      BY <1>1, <3>2, SiteNumbers DEF RecordingInv, ControlInv
    <3>4. ~drifted => Unfindable(x) \/ Replay(steps') # "broken"
      BY <1>1, <2>5, <2>6, <3>2 DEF RecordingInv
    <3> QED BY <1>1, <2>2, <3>2, <3>3, <3>4 DEF RecordingInv
  <2>8. StaysWithinGoal'
    BY <1>1 DEF StaysWithinGoal
  <2> QED BY <2>3, <2>4, <2>7, <2>8
<1> QED BY <1>3, <1>4

(* A turn that records what it did: the replay of that step leads from the   *)
(* page before to the page after.                                            *)
LEMMA RecordedTurnKeeps ==
  ASSUME ExplorerInv, pc = "act", Ends("look"), NEW x, steps' = Append(steps, x),
         page' \in Pages, ~drifted => ReplayStep(page, x) = page',
         turn' = turn, bad' = bad, drifted' = drifted, spent' = spent, StaysWithinGoal'
  PROVE  ExplorerInv'
<1> USE DEF ExplorerInv
<1>1. pc' = "look" /\ moved' = FALSE
  BY DEF Ends
<1>2. ~spent
  BY DEF CallInv
<1>3. ViewInv' /\ CallInv'
  BY <1>2, EndsKeeps
<1>4. ControlInv'
  <2>1. moved' \in BOOLEAN
    BY <1>1, Zenon
  <2> QED BY <1>1, <2>1 DEF ControlInv
<1>5. RecordingInv'
  <2>1. \E S : steps \in Seq(S)
    BY DEF RecordingInv
  <2>2. /\ \E S : steps' \in Seq(S)
        /\ Len(steps') = Len(steps) + 1 /\ Len(steps) \in Nat
        /\ Replay(steps') = ReplayStep(Replay(steps), x)
    BY <2>1, OneMoreStep
  <2>3. Len(steps') \in 1..(turn' + 1)
    BY <2>2, SiteNumbers DEF RecordingInv, ControlInv
  <2>4. ~drifted => Replay(steps') = page'
    BY <2>2 DEF RecordingInv
  <2> QED BY <1>1, <2>2, <2>3, <2>4 DEF RecordingInv
<1> QED BY <1>3, <1>4, <1>5

LEMMA GotoKeeps ==
  ASSUME ExplorerInv, Goto
  PROVE  ExplorerInv'
<1> USE DEF ExplorerInv
<1>1. /\ pc = "act" /\ bad' = bad /\ turn' = turn /\ acted' = acted /\ drifted' = drifted /\ spent' = spent
      /\ Says.action = "goto" /\ Says.url # NoUrl /\ same_site(Start, Says.url)
  BY DEF Goto
<1>2. ~spent /\ bad \in 0..(MAX_BAD_ANSWERS + 1) /\ bad <= MAX_BAD_ANSWERS /\ page \in Pages /\ Says \in Decisions
  BY <1>1 DEF CallInv, ControlInv, Says
<1> DEFINE url == urljoin(Url[page], Says.url)
<1>3. url \in DOMAIN PageAt
  BY <1>1, <1>2, ExplorerAssumption
<1>4. CASE PageAt[url] = "error"
  <2>1. Ends("raised") /\ page' = page /\ steps' = steps
    BY <1>4 DEF Goto
  <2> QED BY <1>1, <1>2, <2>1, IdleTurnKeeps
<1>5. CASE PageAt[url] # "error"
  <2> DEFINE x == RecordedStep("NAVIGATE", "", "", url)
  <2>1. Ends("look") /\ page' = PageAt[url] /\ steps' = Append(steps, x)
    BY <1>5 DEF Goto, NextTurn
  <2>2. page' \in Pages
    BY <1>3, <1>5, <2>1, ExplorerAssumption DEF Range
  <2>3. x.action = "NAVIGATE" /\ x.url = url
    BY DEF RecordedStep
  <2>4. page # "broken"
    BY <1>2, ExplorerAssumption
  <2> HIDE DEF x, url
  <2>5. ReplayStep(page, x) = page'
    BY <2>1, <2>3, <2>4 DEF ReplayStep
  <2>6. StaysWithinGoal'
    BY <1>1 DEF StaysWithinGoal
  <2> QED BY <1>1, <2>1, <2>2, <2>5, <2>6, RecordedTurnKeeps
<1> QED BY <1>4, <1>5

LEMMA PressKeeps ==
  ASSUME ExplorerInv, Press
  PROVE  ExplorerInv'
<1> USE DEF ExplorerInv
<1> DEFINE x == RecordedStep("PRESS", "", Says.value, NoUrl)
<1>1. /\ pc = "act" /\ bad' = bad /\ turn' = turn /\ acted' = acted /\ drifted' = drifted /\ spent' = spent
      /\ Ends("look") /\ steps' = Append(steps, x)
  BY DEF Press, NextTurn
<1>2. x.action = "PRESS" /\ x.value = Says.value
  BY DEF RecordedStep
<1>3. page \in Pages /\ page # "broken"
  BY ExplorerAssumption DEF ControlInv
<1>4. ReplayStep(page, x) = page' /\ page' \in Pages
  <2> DEFINE after == Following(page, "press", "", Says.value)
  <2>1. page' = after
    BY DEF Press
  <2>2. after \in Pages
    BY <1>3, FollowingIsPage
  <2> HIDE DEF x
  <2>3. ReplayStep(page, x) = after
    BY <1>2, <1>3 DEF ReplayStep
  <2> QED BY <2>1, <2>2, <2>3
<1> HIDE DEF x
<1>5. StaysWithinGoal'
  BY <1>1 DEF StaysWithinGoal
<1> QED BY <1>1, <1>4, <1>5, RecordedTurnKeeps

LEMMA DriftsKeeps ==
  ASSUME ExplorerInv, Drifts
  PROVE  ExplorerInv'
<1> USE DEF ExplorerInv
<1>1. /\ pc \in {"look", "ask", "act"} /\ pc' = pc /\ view' = view /\ turn' = turn /\ bad' = bad /\ call' = call
      /\ steps' = steps /\ acted' = acted /\ drifted' = TRUE /\ moved' = TRUE /\ spent' = spent
  BY DEF Drifts
<1>2. page' \in Pages
  BY ExplorerAssumption DEF Drifts
<1>3. drifted' \in BOOLEAN /\ moved' \in BOOLEAN
  BY <1>1, Zenon
<1>4. ControlInv'
  BY <1>1, <1>2, <1>3 DEF ControlInv
<1>5. ViewInv'
  BY <1>1 DEF ViewInv
<1>6. CallInv'
  BY <1>1 DEF CallInv
<1>7. RecordingInv'
  BY <1>1 DEF RecordingInv
<1>8. StaysWithinGoal'
  BY <1>1 DEF StaysWithinGoal
<1> QED BY <1>4, <1>5, <1>6, <1>7, <1>8

(* An element is acted on: the guardrails passed it as it was read, and the  *)
(* locator that was found leads to it while the page is the one read.        *)
LEMMA InteractKeeps ==
  ASSUME ExplorerInv, Interact
  PROVE  ExplorerInv'
<1> USE DEF ExplorerInv
<1>1. /\ pc = "act" /\ Says.action \in ELEMENT_ACTIONS /\ bad' = bad /\ turn' = turn /\ spent' = spent
      /\ Ends("look")
  BY DEF Interact, NextTurn
<1>2. /\ ~spent /\ bad \in 0..(MAX_BAD_ANSWERS + 1) /\ bad <= MAX_BAD_ANSWERS /\ page \in Pages
      /\ (moved => drifted) /\ (~moved => view = read_page(page)) /\ IsList(view)
  BY <1>1 DEF CallInv, ControlInv, ViewInv
<1> DEFINE action == Says.action
           input == Input
<1>3. PICK e \in element(Says.index) :
        /\ Permitted(e)
        /\ LET locator == _unique_locator(page, e)
           IN IF locator = "" THEN UNCHANGED <<page, steps, targets, acted, drifted>>
              ELSE \E n \in Matching(page, locator) :
                     LET after == Following(page, action, n.id, input)
                     IN \/ /\ <<page, action, n.id, input>> \in DOMAIN Leads /\ n.usable
                           /\ page' = after /\ acted' = acted \union {<<n, action, input, moved>>}
                           /\ Recorded(e, locator) /\ UNCHANGED drifted
                        \/ UNCHANGED <<page, steps, targets, acted, drifted>>
                        \/ /\ page' = after /\ acted' = acted \union {<<n, action, input, moved>>}
                           /\ drifted' = TRUE /\ UNCHANGED <<steps, targets>>
  BY DEF Interact
<1>4. action = "fill" => input \in Values
  BY <1>3 DEF Permitted, typed_value_reason, Input
<1>5. ~risky_reason(e.label, e.href)
  BY <1>3 DEF Permitted
<1> DEFINE locator == _unique_locator(page, e)
<1> HIDE DEF action, input
<1>6. CASE UNCHANGED <<page, steps, targets, acted, drifted>>
  BY <1>1, <1>2, <1>6, IdleTurnKeeps
<1>7. CASE ~UNCHANGED <<page, steps, targets, acted, drifted>>
  <2> HIDE DEF locator
  <2>1. locator # ""
    BY <1>3, <1>7 DEF locator
  <2>2. PICK n \in Matching(page, locator) :
          LET after == Following(page, action, n.id, input)
          IN \/ /\ <<page, action, n.id, input>> \in DOMAIN Leads
                /\ page' = after /\ acted' = acted \union {<<n, action, input, moved>>}
                /\ Recorded(e, locator) /\ UNCHANGED drifted
             \/ /\ page' = after /\ acted' = acted \union {<<n, action, input, moved>>}
                /\ drifted' = TRUE /\ UNCHANGED <<steps, targets>>
    BY <1>3, <1>7, <2>1 DEF locator
  <2> DEFINE after == Following(page, action, n.id, input)
  <2>3. page' = after /\ acted' = acted \union {<<n, action, input, moved>>}
    BY <2>2
  <2>4. after \in Pages
    BY <1>2, FollowingIsPage
  <2> HIDE DEF after
  <2>5. ~moved => unique(page, locator) /\ n.label = e.label /\ n.href = e.href
    <3> SUFFICES ASSUME ~moved PROVE unique(page, locator) /\ n.label = e.label /\ n.href = e.href
      OBVIOUS
    <3>1. PICK k \in DOMAIN view : e = view[k]
      BY <1>2, ElementsAreViewed
    <3>2. k \in DOMAIN read_page(page) /\ e = read_page(page)[k] /\ locator = _unique_locator(page, read_page(page)[k])
      BY <1>2, <3>1 DEF locator
    <3>3. /\ unique(page, locator)
          /\ n.label = read_page(page)[k].label /\ n.href = read_page(page)[k].href
      BY <1>2, <2>1, <3>2, ActsOnWhatWasRead
    <3> QED BY <3>2, <3>3
  <2>6. StaysWithinGoal'
    <3>1. \A a \in acted : /\ a[2] = "fill" => a[3] \in Values
                           /\ ~a[4] => \A text \in {a[1].label, a[1].href} : text = << >> \/ text[1] \in GoalWords
      BY DEF StaysWithinGoal
    <3>2. ~moved => \A text \in {n.label, n.href} : text = << >> \/ text[1] \in GoalWords
      BY <1>5, <2>5 DEF risky_reason, Refuses
    <3> DEFINE a == <<n, action, input, moved>>
    <3>3. a[1] = n /\ a[2] = action /\ a[3] = input /\ (a[4] <=> moved)
      OBVIOUS
    <3> HIDE DEF a
    <3>4. acted' = acted \union {a}
      BY <2>3 DEF a
    <3> QED BY <1>4, <3>1, <3>2, <3>3, <3>4 DEF StaysWithinGoal
  <2>7. CASE drifted' = TRUE /\ steps' = steps
    <3>1. pc' = "look" /\ moved' = FALSE
      BY <1>1 DEF Ends
    <3>2. ViewInv' /\ CallInv'
      BY <1>1, <1>2, EndsKeeps
    <3>3. drifted' \in BOOLEAN /\ moved' \in BOOLEAN
      BY <2>7, <3>1, Zenon
    <3>4. ControlInv'
      BY <1>1, <1>2, <2>3, <2>4, <3>1, <3>3 DEF ControlInv
    <3>5. RecordingInv'
      BY <1>1, <2>7, <3>1 DEF RecordingInv
    <3> QED BY <2>6, <3>2, <3>4, <3>5
  <2>8. CASE drifted' = drifted /\ Recorded(e, locator) /\ <<page, action, n.id, input>> \in DOMAIN Leads
    <3> DEFINE x == RecordedStep(action, locator, input, NoUrl)
    <3>1. steps' = Append(steps, x)
      BY <2>8 DEF Recorded, action, input
    <3>2. ~drifted => ReplayStep(page, x) = page'
      <4>1. action \in ELEMENT_ACTIONS
        BY <1>1 DEF action
      <4>2. ~drifted => ReplayStep(page, x) = Following(page, action, n.id, input)
        BY <1>2, <2>5, <2>8, <4>1, InteractionReplays
      <4> QED BY <2>3, <4>2 DEF after
    <3> HIDE DEF x
    <3> QED BY <1>1, <2>3, <2>4, <2>6, <2>8, <3>1, <3>2, RecordedTurnKeeps
  <2> QED BY <2>2, <2>7, <2>8
<1> QED BY <1>6, <1>7

LEMMA ExplorerStep ==
  ASSUME ExplorerInv, [ExplorerNext]_explorer_vars
  PROVE  ExplorerInv'
<1>1. CASE UNCHANGED explorer_vars
  BY <1>1 DEF explorer_vars, ExplorerInv, ControlInv, ViewInv, CallInv, RecordingInv, StaysWithinGoal
<1>2. CASE Look
  BY <1>2, LookKeeps
<1>3. CASE Attempt
  BY <1>3, AttemptKeeps
<1>4. CASE Answered
  BY <1>4, AnsweredKeeps
<1>5. CASE Unreadable \/ Unavailable \/ StepTimeout \/ Refused \/ GiveUp \/ Raised
  BY <1>5, IdleTurnsKeep
<1>6. CASE Done
  BY <1>6, DoneKeeps
<1>7. CASE Goto
  BY <1>7, GotoKeeps
<1>8. CASE Press
  BY <1>8, PressKeeps
<1>9. CASE Interact
  BY <1>9, InteractKeeps
<1>10. CASE Drifts
  BY <1>10, DriftsKeeps
<1> QED BY <1>1, <1>2, <1>3, <1>4, <1>5, <1>6, <1>7, <1>8, <1>9, <1>10 DEF ExplorerNext, Turns

(* A spent quota ends the exploration before another request is sent. *)
LEMMA SpentSendsNothing ==
  ASSUME ExplorerInv, ExplorerNext, spent
  PROVE  call'.attempts <= call.attempts
<1>1. /\ call.attempts \in Nat /\ NoCall.attempts = 0
      /\ \/ pc \in {"stopped", "raised"}
         \/ pc = "ask" /\ call.pc = "failed" /\ call.error.name # "LLMResponseError"
  BY FreshCall, SiteNumbers DEF ExplorerInv, CallInv
<1>2. CASE Unavailable \/ Raised
  <2>1. call' = NoCall
    BY <1>2 DEF Unavailable, Raised, Ends
  <2> QED BY <1>1, <2>1
<1>3. CASE Drifts
  BY <1>1, <1>3 DEF Drifts
<1>4. ~(Look \/ Attempt \/ Answered \/ Unreadable \/ StepTimeout)
  BY <1>1 DEF Look, Attempt, Answered, Unreadable, StepTimeout
<1>5. ~(Refused \/ GiveUp \/ Done \/ Goto \/ Press \/ Interact)
  BY <1>1 DEF Refused, GiveUp, Done, Goto, Press, Interact
<1> QED BY <1>2, <1>3, <1>4, <1>5 DEF ExplorerNext, Turns

(* An exploration takes at most MaxSteps turns, tolerates MAX_BAD_ANSWERS     *)
(* unreadable answers, sends at most one request and its retries a turn and   *)
(* records at most one step a turn after the first - explorer.py:79-118 and   *)
(* the retry loop of the session.                                             *)
THEOREM ExplorationIsTyped ==
  Exploration => []ExplorerTypeOK
<1>1. ExplorerInit => ExplorerInv
  BY ExplorerStarts
<1>2. ExplorerInv /\ [ExplorerNext]_explorer_vars => ExplorerInv'
  BY ExplorerStep
<1>3. ExplorerInv => ExplorerTypeOK
  <2> SUFFICES ASSUME ExplorerInv PROVE ExplorerTypeOK
    OBVIOUS
  <2>1. Len(steps) \in 1..(MaxSteps + 1)
    BY SiteNumbers DEF ExplorerInv, RecordingInv, ControlInv
  <2> QED BY <2>1 DEF ExplorerTypeOK, ExplorerInv, ControlInv, ViewInv, CallInv
<1> QED BY <1>1, <1>2, <1>3, PTL DEF Exploration

(* Only a verified exploration becomes a recording - explorer.py:103-112,     *)
(* 165-193: whatever was refused, failed, retried or guessed on the way, the  *)
(* recorded steps lead a later run over the pages the exploration saw, each   *)
(* recorded locator matches one element there, and the outcome holds where    *)
(* they end; for every site whose pages stay as they were, and every model.   *)
THEOREM RecordingsReplay ==
  Exploration => []RecordingReplays
<1>1. ExplorerInit => ExplorerInv
  BY ExplorerStarts
<1>2. ExplorerInv /\ [ExplorerNext]_explorer_vars => ExplorerInv'
  BY ExplorerStep
<1>3. ExplorerInv => RecordingReplays
  BY DEF ExplorerInv, RecordingInv, RecordingReplays
<1> QED BY <1>1, <1>2, <1>3, PTL DEF Exploration

(* Whatever the model answers, and although an element may be acted on by a   *)
(* fallback of the locator it was read with, a value typed is one of the goal *)
(* and an element touched is one the guardrails would have let through -      *)
(* guardrails.py:26-50, explorer.py:155-193, 230-235 - unless the page changed *)
(* by itself after it was read.                                               *)
THEOREM ExplorationStaysWithinGoal ==
  Exploration => []StaysWithinGoal
<1>1. ExplorerInit => ExplorerInv
  BY ExplorerStarts
<1>2. ExplorerInv /\ [ExplorerNext]_explorer_vars => ExplorerInv'
  BY ExplorerStep
<1>3. ExplorerInv => StaysWithinGoal
  BY DEF ExplorerInv
<1> QED BY <1>1, <1>2, <1>3, PTL DEF Exploration

(* No request follows the reply that said asking is pointless: the error of   *)
(* such a reply is neither retried by the session nor counted as a bad answer *)
(* by the loop, which ends the exploration - explorer.py:84-94, is_retryable. *)
THEOREM SpentQuotaIsRespected ==
  Exploration => QuotaIsRespected
<1>1. ExplorerInit => ExplorerInv
  BY ExplorerStarts
<1>2. ExplorerInv /\ [ExplorerNext]_explorer_vars => ExplorerInv'
  BY ExplorerStep
<1>3. ExplorerInv /\ [ExplorerNext]_explorer_vars => [spent => call'.attempts <= call.attempts]_explorer_vars
  BY SpentSendsNothing
<1> QED BY <1>1, <1>2, <1>3, PTL DEF Exploration, QuotaIsRespected
=============================================================================
