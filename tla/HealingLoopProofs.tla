-------------------------- MODULE HealingLoopProofs --------------------------
(***************************************************************************)
(* HealingLoop for every number of processes and tests, every page, answer *)
(* of the model and way a step fails: memory counts a replacement as a     *)
(* success only when a run with it passed, an erased account stays erased  *)
(* in the API process, the two analyzers agree on what is healable, a      *)
(* check that failed is not healed away, and what is tried is on the page  *)
(* the step failed on.                                                     *)
(***************************************************************************)
EXTENDS HealingLoop, FiniteSetTheorems, SequenceTheorems, WellFoundedInduction, TLAPS

-----------------------------------------------------------------------------
(* The inductive invariant of memory. *)

(* A list whose records have numbers, of which one is the greatest. *)
Numbered(list) == DOMAIN list \subseteq Nat /\ \E b \in Nat : \A i \in DOMAIN list : i <= b

Pending(t) == Next1(t).record

(* A record with a time of its own: no run is about to store it. *)
Own(r) == r.at \in 1..made /\ \A t \in Tests : ~Stored(t) => Pending(t).at # r.at

WriterFits(w) ==
  /\ w = [proc |-> w.proc, items |-> w.items, half |-> w.half]
  /\ w.half = "row" => w.items # {}

Shape ==
  /\ made \in Nat
  /\ index = [p \in Procs |-> index[p]]
  /\ writer = [t \in Tests |-> writer[t]]
  /\ \A t \in Tests : WriterFits(writer[t])
  /\ eraser = [pc |-> eraser.pc, owner |-> eraser.owner, gone |-> eraser.gone, replay |-> eraser.replay]
  /\ Numbered(rows) /\ DOMAIN eraser.replay \subseteq Nat
  /\ eraser.pc = "replay" => DOMAIN eraser.replay # {}

(* Every record is made once and stored once: a time tells it from the      *)
(* records that are still on their way.                                     *)
Timed ==
  /\ \A r \in In(rows) \union eraser.gone : Own(r)
  /\ Api \in volatile => \A r \in In(index[Api]) : Own(r)
  /\ \A t \in Tests : ~Stored(t) => Pending(t).at \in 1..made
  /\ \A t, u \in Tests : ~Stored(t) /\ ~Stored(u) /\ t # u => Pending(t).at # Pending(u).at

(* A store that is written through or reloaded has a database. *)
Halves ==
  /\ \A t \in Tests : writer[t].half = "row" => writer[t].proc \notin volatile
  /\ eraser.pc \in {"clear", "find", "replay"} => Api \notin volatile

Apart(S, T) == \A r \in S : r \notin T

(* What was erased is nowhere it could come back from. *)
Gone ==
  /\ Apart(In(rows), eraser.gone) /\ Apart(In(eraser.replay), eraser.gone)
  /\ eraser.pc \in {"find", "replay", "done"} => Apart(In(index[Api]), eraser.gone)
  /\ Api \in volatile => Apart(In(index[Api]), In(rows))

MemoryInv == Shape /\ Timed /\ Halves /\ Gone

(* What memory holds, replays or is about to hold is true. *)
Earned(r) == r.kind = "healing" /\ r.ok = "yes" => <<r.old, r.new>> \in validated

EarnedInv ==
  /\ \A p \in Procs : \A r \in In(index[p]) : Earned(r)
  /\ \A r \in In(rows) : Earned(r)
  /\ \A r \in In(eraser.replay) : Earned(r)
  /\ \A t \in Tests : ~Stored(t) => Earned(Pending(t))

-----------------------------------------------------------------------------
(* Lists. *)

LEMMA Smallest ==
  ASSUME NEW T, T \subseteq Nat, T # {}
  PROVE  \E x \in T : \A y \in T : x <= y
<1> DEFINE R == OpToRel(<, Nat)
<1>1. IsWellFoundedOn(R, Nat)
  BY NatLessThanWellFounded
<1> HIDE DEF R
<1>2. PICK x \in T : \A y \in T : ~(<<y, x>> \in R)
  BY <1>1, WFMin
<1>3. \A a, b \in Nat : a < b => <<a, b>> \in R
  BY DEF R, OpToRel
<1>4. \A y \in T : y \in Nat /\ x \in Nat /\ ~(y < x)
  BY <1>2, <1>3
<1>5. \A y \in T : x <= y
  BY <1>4
<1> QED
  BY <1>2, <1>5

LEMMA InAdd ==
  ASSUME NEW list, NEW record, NEW r \in In(Add(list, record))
  PROVE  r \in In(list) \/ r = record
BY DEF In, Add

LEMMA InEmpty == In(<< >>) = {} /\ DOMAIN << >> = {} /\ Numbered(<< >>)
<1>1. DOMAIN << >> = {}
  OBVIOUS
<1>2. Numbered(<< >>)
  <2>1. \A i \in DOMAIN << >> : i <= 0
    BY <1>1
  <2> QED BY <1>1, <2>1 DEF Numbered
<1> QED BY <1>1, <1>2 DEF In

LEMMA InLoad ==
  ASSUME NEW list, NEW r \in In(_load(list))
  PROVE  r \in In(list)
BY DEF In, _load

LEMMA LoadDomain ==
  ASSUME NEW list
  PROVE  DOMAIN _load(list) \subseteq DOMAIN list
BY DEF _load

(* A record that is added gets the next number. *)
LEMMA AddNumbered ==
  ASSUME NEW list, NEW record, Numbered(list)
  PROVE  Numbered(Add(list, record))
<1> DEFINE T == {n \in Nat : \A i \in DOMAIN list : i <= n}
<1>1. PICK m \in T : \A n \in T : m <= n
  BY Smallest DEF Numbered
<1>2. m \in {0} \union DOMAIN list
  <2> SUFFICES ASSUME m # 0, m \notin DOMAIN list PROVE FALSE
    OBVIOUS
  <2>1. m - 1 \in Nat /\ \A i \in DOMAIN list : i <= m - 1
    BY <1>1 DEF Numbered
  <2> QED BY <1>1, <2>1
<1>3. Last(list) \in {0} \union DOMAIN list /\ \A i \in DOMAIN list : i <= Last(list)
  BY <1>1, <1>2 DEF Last
<1>4. Last(list) \in Nat
  BY <1>3 DEF Numbered
<1>5. DOMAIN Add(list, record) = DOMAIN list \union {Last(list) + 1}
  BY DEF Add
<1>6. Last(list) + 1 \in Nat /\ \A i \in DOMAIN list \union {Last(list) + 1} : i <= Last(list) + 1
  BY <1>3, <1>4 DEF Numbered
<1> QED BY <1>5, <1>6 DEF Numbered

LEMMA OldestIsThere ==
  ASSUME NEW list, DOMAIN list \subseteq Nat, DOMAIN list # {}
  PROVE  Oldest(list) \in DOMAIN list
BY Smallest DEF Oldest

LEMMA WithoutFits ==
  ASSUME NEW list, NEW n
  PROVE  DOMAIN Without(list, n) \subseteq DOMAIN list /\ In(Without(list, n)) \subseteq In(list)
BY DEF Without, In

-----------------------------------------------------------------------------
(* Steps of the runs that store, or no longer store, what they made. *)

LEMMA InitMemory ==
  ASSUME Init
  PROVE  MemoryInv /\ EarnedInv
<1>1. /\ index = [p \in Procs |-> << >>] /\ rows = << >> /\ volatile = {} /\ made = 0 /\ eraser = NoErasure
      /\ \A t \in Tests : writer[t] = Free /\ Stored(t)
      /\ writer = [t \in Tests |-> Free] /\ Api \in Procs
  BY AgentMemoryAssumption DEF Init, MemoryInit, Stored, Free
<1>2. Shape
  <2>1. Numbered(rows) /\ DOMAIN eraser.replay = {}
    BY <1>1, InEmpty DEF NoErasure
  <2>2. eraser = [pc |-> eraser.pc, owner |-> eraser.owner, gone |-> eraser.gone, replay |-> eraser.replay]
    BY <1>1 DEF NoErasure
  <2>3. \A t \in Tests : WriterFits(writer[t])
    BY <1>1 DEF WriterFits, Free
  <2> QED BY <1>1, <2>1, <2>2, <2>3 DEF Shape, NoErasure
<1>3. Timed /\ Halves /\ Gone
  BY <1>1, InEmpty DEF Timed, Halves, Gone, NoErasure, Apart, Free
<1>4. EarnedInv
  BY <1>1, InEmpty DEF EarnedInv, NoErasure
<1> QED BY <1>2, <1>3, <1>4 DEF MemoryInv

(* Nothing new is made, and what is on its way was so before. *)
Drains ==
  /\ made' = made /\ validated' = validated
  /\ \A u \in Tests : ~Stored(u)' => ~Stored(u) /\ Pending(u)' = Pending(u)

LEMMA DrainKeeps ==
  ASSUME MemoryInv, EarnedInv, Drains
  PROVE  /\ \A r : Own(r) => Own(r)'
         /\ \A r : Earned(r)' <=> Earned(r)
         /\ \A t \in Tests : ~Stored(t)' => Pending(t)'.at \in 1..made'
         /\ \A t, u \in Tests : ~Stored(t)' /\ ~Stored(u)' /\ t # u => Pending(t)'.at # Pending(u)'.at
         /\ \A t \in Tests : ~Stored(t)' => (Pending(t)'.kind = "healing" /\ Pending(t)'.ok = "yes" =>
                                <<Pending(t)'.old, Pending(t)'.new>> \in validated')
<1>1. \A r : Own(r) => Own(r)'
  BY DEF Drains, Own
<1>2. \A r : Earned(r)' <=> Earned(r)
  BY DEF Drains, Earned
<1>3. /\ \A t \in Tests : ~Stored(t)' => Pending(t)'.at \in 1..made'
      /\ \A t, u \in Tests : ~Stored(t)' /\ ~Stored(u)' /\ t # u => Pending(t)'.at # Pending(u)'.at
  BY DEF Drains, MemoryInv, Timed
<1>4. \A t \in Tests : ~Stored(t)' => (Pending(t)'.kind = "healing" /\ Pending(t)'.ok = "yes" =>
                                <<Pending(t)'.old, Pending(t)'.new>> \in validated')
  BY DEF Drains, EarnedInv, Earned
<1> QED BY <1>1, <1>2, <1>3, <1>4

LEMMA SameMemory ==
  ASSUME MemoryInv, EarnedInv, UNCHANGED <<index, rows, volatile, writer, made, eraser, validated>>
  PROVE  MemoryInv' /\ EarnedInv'
<1>1. Drains
  BY DEF Drains, Stored, Pending, Next1
<1>2. Shape' /\ Halves' /\ Gone'
  BY DEF MemoryInv, Shape, Numbered, Halves, Gone
<1>3. Timed'
  BY <1>1, DrainKeeps DEF MemoryInv, Timed
<1>4. EarnedInv'
  BY <1>1, DrainKeeps DEF EarnedInv, Earned
<1> QED BY <1>2, <1>3, <1>4 DEF MemoryInv

LEMMA WriterStep ==
  ASSUME Shape, NEW t \in Tests, NEW w, writer' = [writer EXCEPT ![t] = w]
  PROVE  writer' = [u \in Tests |-> writer'[u]] /\ writer'[t] = w /\ \A u \in Tests \ {t} : writer'[u] = writer[u]
BY DEF Shape

LEMMA Freed == Free.items = {} /\ Free.half = "index" /\ WriterFits(Free)
BY DEF Free, WriterFits

LEMMA DrainTimed ==
  ASSUME MemoryInv, EarnedInv, Drains,
         \A r \in In(rows') \union eraser'.gone : Own(r)',
         Api \in volatile' => \A r \in In(index'[Api]) : Own(r)'
  PROVE  Timed'
BY DrainKeeps DEF Timed, Own, In

(* What a run had to store is skipped, or lost. *)
LEMMA FreeMemory ==
  ASSUME MemoryInv, EarnedInv, NEW t \in Tests, StoreSkipped(t) \/ PersistFails(t), validated' = validated
  PROVE  MemoryInv' /\ EarnedInv'
<1>1. writer' = [writer EXCEPT ![t] = Free] /\ UNCHANGED <<index, rows, volatile, made, eraser>>
  BY DEF StoreSkipped, PersistFails
<1>2. writer' = [u \in Tests |-> writer'[u]] /\ writer'[t] = Free /\ \A u \in Tests \ {t} : writer'[u] = writer[u]
  BY <1>1, WriterStep DEF MemoryInv
<1>3. Drains
  BY <1>1, <1>2, Freed DEF Drains, Stored, Pending, Next1
<1>4. Shape'
  BY <1>1, <1>2, Freed DEF MemoryInv, Shape, Numbered
<1>5. Timed' /\ EarnedInv'
  BY <1>1, <1>3, DrainKeeps DEF MemoryInv, Timed, EarnedInv, Earned
<1>6. Halves' /\ Gone'
  BY <1>1, <1>2, Freed DEF MemoryInv, Halves, Gone
<1> QED BY <1>4, <1>5, <1>6 DEF MemoryInv

LEMMA HalfDone ==
  ASSUME NEW w, WriterFits(w), w.items # {}
  PROVE  LET v == [w EXCEPT !.half = "row"]
         IN v.items = w.items /\ v.proc = w.proc /\ v.half = "row" /\ WriterFits(v)
<1>1. PICK p, items, half : w = [proc |-> p, items |-> items, half |-> half]
  BY DEF WriterFits
<1>2. [w EXCEPT !.half = "row"] = [proc |-> p, items |-> items, half |-> "row"]
  BY <1>1
<1> QED BY <1>1, <1>2 DEF WriterFits

LEMMA StoreInIndexMemory ==
  ASSUME MemoryInv, EarnedInv, NEW t \in Tests, StoreInIndex(t), validated' = validated
  PROVE  MemoryInv' /\ EarnedInv'
<1> DEFINE p == writer[t].proc
           w == IF p \in volatile THEN Free ELSE [writer[t] EXCEPT !.half = "row"]
<1>1. /\ ~Stored(t) /\ UNCHANGED <<rows, volatile, made, eraser>>
      /\ index' = [index EXCEPT ![p] = Add(@, Pending(t))]
      /\ writer' = [writer EXCEPT ![t] = w]
  BY DEF StoreInIndex, Pending
<1>2. /\ WriterFits(w) /\ (p \in volatile => w = Free)
      /\ p \notin volatile => w.items = writer[t].items /\ w.half = "row" /\ w.proc = p
  BY <1>1, Freed, HalfDone DEF Stored, MemoryInv, Shape
<1> HIDE DEF w
<1>3. writer' = [u \in Tests |-> writer'[u]] /\ writer'[t] = w /\ \A u \in Tests \ {t} : writer'[u] = writer[u]
  BY <1>1, WriterStep DEF MemoryInv
<1>4. Drains
  BY <1>1, <1>2, <1>3, Freed DEF Drains, Stored, Pending, Next1
<1>5. index' = [q \in Procs |-> index'[q]] /\ \A q \in Procs : \A r \in In(index'[q]) : r \in In(index[q]) \/ (q = p /\ r = Pending(t))
  BY <1>1, InAdd DEF MemoryInv, Shape
<1>r. PICK rec : rec = Pending(t)
  OBVIOUS
<1>6. rec.at \in 1..made /\ \A r \in In(rows) \union eraser.gone : r # rec
  BY <1>1, <1>r DEF MemoryInv, Timed, Own
<1>a. \A u \in Tests : u # t /\ ~Stored(u) => Pending(u).at # rec.at
  BY <1>1, <1>r DEF MemoryInv, Timed
<1>b. p \in volatile => Own(rec)'
  BY <1>1, <1>2, <1>3, <1>6, <1>a, Freed DEF Own, Stored, Pending, Next1
<1>7. Shape'
  BY <1>1, <1>2, <1>3, <1>5 DEF MemoryInv, Shape, Numbered
<1>8. Timed'
  <2>1. \A r \in In(rows') \union eraser'.gone : Own(r)'
    BY <1>1, <1>4, DrainKeeps DEF MemoryInv, Timed
  <2>2. Api \in volatile' => \A r \in In(index'[Api]) : Own(r)'
    BY <1>1, <1>4, <1>5, <1>b, <1>r, DrainKeeps, AgentMemoryAssumption DEF MemoryInv, Timed
  <2> QED BY <1>4, <2>1, <2>2, DrainTimed
<1>9. Halves'
  BY <1>1, <1>2, <1>3, Freed DEF MemoryInv, Halves
<1>10. Gone'
  BY <1>1, <1>5, <1>6, <1>r, AgentMemoryAssumption DEF MemoryInv, Gone, Apart
<1>11. EarnedInv'
  BY <1>1, <1>4, <1>5, DrainKeeps DEF EarnedInv, Earned
<1> QED BY <1>7, <1>8, <1>9, <1>10, <1>11 DEF MemoryInv

LEMMA PersistMemory ==
  ASSUME MemoryInv, EarnedInv, NEW t \in Tests, Persist(t), validated' = validated
  PROVE  MemoryInv' /\ EarnedInv'
<1>1. /\ ~Stored(t) /\ writer[t].half = "row" /\ UNCHANGED <<index, volatile, made, eraser>>
      /\ rows' = Add(rows, Pending(t)) /\ writer' = [writer EXCEPT ![t] = Free]
  BY DEF Persist, Pending, Stored, MemoryInv, Shape, WriterFits
<1>2. writer' = [u \in Tests |-> writer'[u]] /\ writer'[t] = Free /\ \A u \in Tests \ {t} : writer'[u] = writer[u]
  BY <1>1, WriterStep DEF MemoryInv
<1>3. Drains
  BY <1>1, <1>2, Freed DEF Drains, Stored, Pending, Next1
<1>4. \A r \in In(rows') : r \in In(rows) \/ r = Pending(t)
  BY <1>1, InAdd
<1>r. PICK rec : rec = Pending(t)
  OBVIOUS
<1>5. rec \notin eraser.gone /\ (Api \in volatile => rec \notin In(index[Api]))
  BY <1>1, <1>r DEF MemoryInv, Timed, Own
<1>a. rec.at \in 1..made /\ \A u \in Tests : u # t /\ ~Stored(u) => Pending(u).at # rec.at
  BY <1>1, <1>r DEF MemoryInv, Timed
<1>b. Own(rec)'
  BY <1>1, <1>2, <1>a, Freed DEF Own, Stored, Pending, Next1
<1>6. Numbered(rows')
  BY <1>1, AddNumbered DEF MemoryInv, Shape
<1>7. Shape'
  BY <1>1, <1>2, <1>6, Freed DEF MemoryInv, Shape, Numbered
<1>8. Timed'
  <2>1. \A r \in In(rows') \union eraser'.gone : Own(r)'
    BY <1>1, <1>3, <1>4, <1>b, <1>r, DrainKeeps DEF MemoryInv, Timed
  <2>2. Api \in volatile' => \A r \in In(index'[Api]) : Own(r)'
    BY <1>1, <1>3, DrainKeeps DEF MemoryInv, Timed
  <2> QED BY <1>3, <2>1, <2>2, DrainTimed
<1>9. Halves'
  BY <1>1, <1>2, Freed DEF MemoryInv, Halves
<1>10. Gone'
  BY <1>1, <1>4, <1>5, <1>r DEF MemoryInv, Gone, Apart
<1>11. EarnedInv'
  BY <1>1, <1>3, <1>4, DrainKeeps DEF EarnedInv, Earned
<1> QED BY <1>7, <1>8, <1>9, <1>10, <1>11 DEF MemoryInv

-----------------------------------------------------------------------------
(* A process starts again, and an account is erased. *)

LEMMA RestartMemory ==
  ASSUME MemoryInv, EarnedInv, NEW p \in Procs, NEW reachable \in BOOLEAN, Restart(p, reachable),
         validated' = validated
  PROVE  MemoryInv' /\ EarnedInv'
<1>1. /\ UNCHANGED <<rows, made>>
      /\ index' = [index EXCEPT ![p] = IF reachable THEN _load(rows) ELSE << >>]
      /\ volatile' = IF reachable THEN volatile \ {p} ELSE volatile \union {p}
      /\ writer' = [t \in Tests |-> IF writer[t].proc = p THEN Free ELSE writer[t]]
      /\ eraser' = IF p = Api /\ eraser.pc # "idle" THEN [eraser EXCEPT !.pc = "cut", !.replay = << >>] ELSE eraser
  BY DEF Restart
<1>2. writer' = [u \in Tests |-> writer'[u]]
      /\ \A u \in Tests : writer'[u] = Free \/ (writer'[u] = writer[u] /\ writer[u].proc # p)
  BY <1>1
<1>3. index' = [q \in Procs |-> index'[q]]
      /\ \A q \in Procs : \A r \in In(index'[q]) : IF q = p THEN reachable /\ r \in In(rows) ELSE r \in In(index[q])
  BY <1>1, InLoad, InEmpty DEF MemoryInv, Shape
<1>4. Drains
  BY <1>1, <1>2, Freed DEF Drains, Stored, Pending, Next1
<1>5. /\ eraser'.gone = eraser.gone
      /\ eraser' = [pc |-> eraser'.pc, owner |-> eraser'.owner, gone |-> eraser'.gone, replay |-> eraser'.replay]
      /\ \/ eraser' = eraser /\ (p # Api \/ eraser.pc = "idle")
         \/ eraser'.pc = "cut" /\ eraser'.replay = << >>
  <2>1. CASE eraser' = eraser /\ (p # Api \/ eraser.pc = "idle")
    BY <2>1 DEF MemoryInv, Shape
  <2>2. CASE eraser' = [eraser EXCEPT !.pc = "cut", !.replay = << >>]
    <3>1. PICK pc, owner, gone, replay : eraser = [pc |-> pc, owner |-> owner, gone |-> gone, replay |-> replay]
      BY DEF MemoryInv, Shape
    <3>2. eraser' = [pc |-> "cut", owner |-> owner, gone |-> gone, replay |-> << >>]
      BY <2>2, <3>1
    <3> QED BY <3>1, <3>2
  <2> QED BY <1>1, <2>1, <2>2
<1>6. Shape'
  BY <1>1, <1>2, <1>3, <1>5, Freed, InEmpty DEF MemoryInv, Shape, Numbered
<1>7. Timed'
  <2>1. \A r \in In(rows') \union eraser'.gone : Own(r)'
    BY <1>1, <1>4, <1>5, DrainKeeps DEF MemoryInv, Timed
  <2>2. Api \in volatile' => \A r \in In(index'[Api]) : Own(r)'
    BY <1>1, <1>3, <1>4, DrainKeeps, AgentMemoryAssumption DEF MemoryInv, Timed
  <2> QED BY <1>4, <2>1, <2>2, DrainTimed
<1>8. Halves'
  BY <1>1, <1>2, <1>5, Freed DEF MemoryInv, Halves
<1>9. Gone'
  <2>1. Apart(In(rows), eraser.gone)' /\ Apart(In(eraser.replay), eraser.gone)'
    BY <1>1, <1>5, InEmpty DEF MemoryInv, Gone, Apart
  <2>2. (eraser.pc \in {"find", "replay", "done"} => Apart(In(index[Api]), eraser.gone))'
    BY <1>3, <1>5, AgentMemoryAssumption DEF MemoryInv, Gone, Apart
  <2>3. (Api \in volatile => Apart(In(index[Api]), In(rows)))'
    BY <1>1, <1>3, AgentMemoryAssumption DEF MemoryInv, Gone, Apart
  <2> QED BY <1>1, <1>5, <2>1, <2>2, <2>3 DEF Gone, MemoryInv, Apart
<1>10. EarnedInv'
  BY <1>1, <1>3, <1>4, <1>5, DrainKeeps, InEmpty DEF EarnedInv, Earned
<1> QED BY <1>6, <1>7, <1>8, <1>9, <1>10 DEF MemoryInv

LEMMA ErasureMemory ==
  ASSUME MemoryInv, EarnedInv, Erasure, validated' = validated
  PROVE  MemoryInv' /\ EarnedInv'
<1> USE AgentMemoryAssumption
<1>0. PICK pc, owner, gone, replay : eraser = [pc |-> pc, owner |-> owner, gone |-> gone, replay |-> replay]
  BY DEF MemoryInv, Shape
<1>1. ASSUME NEW o \in Erasable, DeleteRows(o) PROVE MemoryInv' /\ EarnedInv'
  <2>1. /\ rows' = Where(rows, LAMBDA r : r.owner # o) /\ UNCHANGED <<index, volatile, writer, made>>
        /\ eraser' = [pc |-> IF Forgets({r \in In(rows) : r.owner = o}) THEN "clear" ELSE "done", owner |-> o,
                      gone |-> {r \in In(rows) : r.owner = o}, replay |-> << >>]
    BY <1>1 DEF DeleteRows
  <2>2. Drains
    BY <2>1 DEF Drains, Stored, Pending, Next1
  <2>3. /\ \A r \in In(rows') : r \in In(rows) /\ r.owner # o
        /\ Numbered(rows')
    BY <2>1 DEF Where, In, MemoryInv, Shape, Numbered
  <2>4. eraser'.gone = {r \in In(rows) : r.owner = o} /\ eraser'.replay = << >>
    BY <2>1
  <2>5. /\ eraser'.pc \in {"clear", "done"}
        /\ (eraser'.pc = "done" => eraser'.gone = {} \/ Api \in volatile)
        /\ (eraser'.pc = "clear" => Api \notin volatile)
    BY <2>1, <2>4 DEF Forgets
  <2>6. Shape'
    BY <2>1, <2>3, <2>5, InEmpty DEF MemoryInv, Shape
  <2>7. Timed'
    BY <2>1, <2>2, <2>3, <2>4, DrainKeeps, DrainTimed DEF MemoryInv, Timed
  <2>8. Halves' /\ Gone'
    BY <2>1, <2>3, <2>4, <2>5, InEmpty DEF MemoryInv, Halves, Gone, Apart
  <2>9. EarnedInv'
    BY <2>1, <2>2, <2>3, <2>4, InEmpty, DrainKeeps DEF EarnedInv, Earned
  <2> QED BY <2>6, <2>7, <2>8, <2>9 DEF MemoryInv
<1>2. CASE Clear
  <2>1. /\ eraser.pc = "clear" /\ UNCHANGED <<rows, volatile, writer, made>>
        /\ index' = [index EXCEPT ![Api] = << >>] /\ eraser' = [eraser EXCEPT !.pc = "find"]
    BY <1>2 DEF Clear
  <2>2. Drains
    BY <2>1 DEF Drains, Stored, Pending, Next1
  <2>3. eraser' = [pc |-> "find", owner |-> owner, gone |-> gone, replay |-> replay]
    BY <1>0, <2>1
  <2>4. eraser'.gone = eraser.gone /\ eraser'.replay = eraser.replay /\ eraser'.pc = "find"
    BY <1>0, <2>3
  <2>5. index' = [q \in Procs |-> index'[q]] /\ In(index'[Api]) = {} /\ \A q \in Procs \ {Api} : index'[q] = index[q]
    BY <2>1, InEmpty DEF MemoryInv, Shape
  <2>6. Shape'
    BY <2>1, <2>3, <2>4, <2>5 DEF MemoryInv, Shape, Numbered
  <2>7. Timed'
    BY <2>1, <2>2, <2>4, <2>5, DrainKeeps, DrainTimed DEF MemoryInv, Timed
  <2>8. Halves' /\ Gone'
    BY <2>1, <2>4, <2>5 DEF MemoryInv, Halves, Gone, Apart
  <2>9. EarnedInv'
    BY <2>1, <2>2, <2>4, <2>5, DrainKeeps DEF EarnedInv, Earned
  <2> QED BY <2>6, <2>7, <2>8, <2>9 DEF MemoryInv
<1>3. CASE Find
  <2>1. /\ eraser.pc = "find" /\ UNCHANGED <<index, rows, volatile, writer, made>>
        /\ eraser' = [eraser EXCEPT !.pc = IF DOMAIN _load(rows) = {} THEN "done" ELSE "replay", !.replay = _load(rows)]
    BY <1>3 DEF Find
  <2>2. Drains
    BY <2>1 DEF Drains, Stored, Pending, Next1
  <2>3. PICK at : at = IF DOMAIN _load(rows) = {} THEN "done" ELSE "replay"
    OBVIOUS
  <2>4. eraser' = [pc |-> at, owner |-> owner, gone |-> gone, replay |-> _load(rows)]
    BY <1>0, <2>1, <2>3
  <2>5. /\ eraser'.gone = eraser.gone /\ eraser'.replay = _load(rows) /\ eraser'.pc = at
        /\ DOMAIN _load(rows) \subseteq Nat /\ \A r \in In(_load(rows)) : r \in In(rows)
    BY <1>0, <2>4, InLoad, LoadDomain DEF MemoryInv, Shape, Numbered
  <2>6. Shape'
    BY <2>1, <2>3, <2>4, <2>5 DEF MemoryInv, Shape, Numbered
  <2>7. Timed'
    BY <2>1, <2>2, <2>5, DrainKeeps, DrainTimed DEF MemoryInv, Timed
  <2>8. Halves' /\ Gone'
    BY <2>1, <2>5 DEF MemoryInv, Halves, Gone, Apart
  <2>9. EarnedInv'
    BY <2>1, <2>2, <2>5, DrainKeeps DEF EarnedInv, Earned
  <2> QED BY <2>6, <2>7, <2>8, <2>9 DEF MemoryInv
<1>4. CASE FindFails
  <2>1. eraser.pc = "find" /\ UNCHANGED <<index, rows, volatile, writer, made>> /\ eraser' = [eraser EXCEPT !.pc = "failed"]
    BY <1>4 DEF FindFails
  <2>2. Drains
    BY <2>1 DEF Drains, Stored, Pending, Next1
  <2>3. eraser' = [pc |-> "failed", owner |-> owner, gone |-> gone, replay |-> replay]
    BY <1>0, <2>1
  <2>4. eraser'.gone = eraser.gone /\ eraser'.replay = eraser.replay /\ eraser'.pc = "failed"
    BY <1>0, <2>3
  <2>6. Shape'
    BY <2>1, <2>3, <2>4 DEF MemoryInv, Shape, Numbered
  <2>7. Timed'
    BY <2>1, <2>2, <2>4, DrainKeeps, DrainTimed DEF MemoryInv, Timed
  <2>8. Halves' /\ Gone'
    BY <2>1, <2>4 DEF MemoryInv, Halves, Gone, Apart
  <2>9. EarnedInv'
    BY <2>1, <2>2, <2>4, DrainKeeps DEF EarnedInv, Earned
  <2> QED BY <2>6, <2>7, <2>8, <2>9 DEF MemoryInv
<1>5. CASE Replay
  <2> DEFINE next == Oldest(eraser.replay)
             left == Without(eraser.replay, next)
  <2>1. /\ eraser.pc = "replay" /\ UNCHANGED <<rows, volatile, writer, made>>
        /\ index' = [index EXCEPT ![Api] = Add(@, eraser.replay[next])]
        /\ eraser' = [eraser EXCEPT !.pc = IF DOMAIN left = {} THEN "done" ELSE "replay", !.replay = left]
    BY <1>5 DEF Replay
  <2>2. Drains
    BY <2>1 DEF Drains, Stored, Pending, Next1
  <2>3. PICK at, rest, rec : /\ at = (IF DOMAIN left = {} THEN "done" ELSE "replay")
                             /\ rest = left /\ rec = eraser.replay[next]
    OBVIOUS
  <2>r. rec \in In(eraser.replay)
    BY <2>1, <2>3, OldestIsThere DEF In, MemoryInv, Shape
  <2>l. DOMAIN rest \subseteq Nat /\ In(rest) \subseteq In(eraser.replay)
    BY <2>3, WithoutFits DEF MemoryInv, Shape
  <2>a. at \in {"done", "replay"} /\ (at = "replay" => DOMAIN rest # {})
    BY <2>3
  <2>i. index' = [index EXCEPT ![Api] = Add(@, rec)] /\ eraser' = [eraser EXCEPT !.pc = at, !.replay = rest]
    BY <2>1, <2>3
  <2> HIDE DEF left, next
  <2>4. eraser' = [pc |-> at, owner |-> owner, gone |-> gone, replay |-> rest]
    BY <1>0, <2>i
  <2>5. eraser'.gone = eraser.gone /\ eraser'.replay = rest /\ eraser'.pc = at
    BY <1>0, <2>4
  <2>6. /\ index' = [q \in Procs |-> index'[q]] /\ \A q \in Procs \ {Api} : index'[q] = index[q]
        /\ \A r \in In(index'[Api]) : r \in In(index[Api]) \/ r = rec
    BY <2>i, InAdd DEF MemoryInv, Shape
  <2>7. Shape'
    BY <2>1, <2>4, <2>5, <2>6, <2>l, <2>a DEF MemoryInv, Shape, Numbered
  <2>8. Timed'
    <3>1. \A r \in In(rows') \union eraser'.gone : Own(r)'
      BY <2>1, <2>2, <2>5, DrainKeeps DEF MemoryInv, Timed
    <3>2. Api \notin volatile
      BY <2>1 DEF MemoryInv, Halves
    <3> QED BY <2>1, <2>2, <3>1, <3>2, DrainTimed
  <2>9. Halves' /\ Gone'
    BY <2>1, <2>5, <2>6, <2>r, <2>l DEF MemoryInv, Halves, Gone, Apart
  <2>10. EarnedInv'
    BY <2>1, <2>2, <2>5, <2>6, <2>r, <2>l, DrainKeeps DEF EarnedInv, Earned
  <2> QED BY <2>7, <2>8, <2>9, <2>10 DEF MemoryInv
<1> QED BY <1>1, <1>2, <1>3, <1>4, <1>5 DEF Erasure

-----------------------------------------------------------------------------
(* A run makes a record. *)

LEMMA NextItem ==
  ASSUME NEW item
  PROVE  (CHOOSE i \in {item} : TRUE) = item
OBVIOUS

LEMMA MakeMemory ==
  ASSUME MemoryInv, EarnedInv, NEW t \in Tests, NEW p, NEW rec, NEW unless,
         ToStore(t, p, Item(rec, unless)), rec.at = made + 1,
         UNCHANGED <<index, rows, volatile, eraser>>, validated \subseteq validated',
         rec.kind = "healing" /\ rec.ok = "yes" => <<rec.old, rec.new>> \in validated'
  PROVE  MemoryInv' /\ EarnedInv'
<1> DEFINE w == [proc |-> p, items |-> {Item(rec, unless)}, half |-> "index"]
<1>1. /\ made \in Nat /\ made' = made + 1 /\ writer' = [writer EXCEPT ![t] = w]
  BY DEF ToStore, MemoryInv, Shape
<1>2. WriterFits(w) /\ w.half = "index" /\ w.items = {Item(rec, unless)}
  BY DEF WriterFits
<1> HIDE DEF w
<1>3. writer' = [u \in Tests |-> writer'[u]] /\ writer'[t] = w /\ \A u \in Tests \ {t} : writer'[u] = writer[u]
  BY <1>1, WriterStep DEF MemoryInv
<1>4. Pending(t)' = rec
  BY <1>2, <1>3, NextItem DEF Pending, Next1, Item
<1>5. \A u \in Tests \ {t} : (Stored(u)' <=> Stored(u)) /\ Pending(u)' = Pending(u)
  BY <1>3 DEF Stored, Pending, Next1
<1>6. \A r : Own(r) => Own(r)'
  <2> SUFFICES ASSUME NEW r, Own(r) PROVE Own(r)'
    OBVIOUS
  <2>1. r.at \in 1..made /\ r.at \in 1..made' /\ r.at # made + 1
    BY <1>1 DEF Own
  <2>2. \A u \in Tests : ~Stored(u)' => Pending(u)'.at # r.at
    BY <1>4, <1>5, <2>1 DEF Own
  <2> QED BY <2>1, <2>2 DEF Own
<1>7. \A r : Earned(r) => Earned(r)'
  BY DEF Earned
<1>8. Shape'
  BY <1>1, <1>2, <1>3 DEF MemoryInv, Shape, Numbered
<1>9. Timed'
  <2>1. \A u \in Tests \ {t} : ~Stored(u) => Pending(u).at \in 1..made' /\ Pending(u).at # made + 1
    BY <1>1 DEF MemoryInv, Timed
  <2>2. \A u \in Tests : ~Stored(u)' => Pending(u)'.at \in 1..made'
    BY <1>1, <1>4, <1>5, <2>1
  <2>3. \A u, v \in Tests : ~Stored(u)' /\ ~Stored(v)' /\ u # v => Pending(u)'.at # Pending(v)'.at
    BY <1>4, <1>5, <2>1 DEF MemoryInv, Timed
  <2> QED BY <1>6, <2>2, <2>3 DEF MemoryInv, Timed
<1>10. Halves' /\ Gone'
  BY <1>2, <1>3 DEF MemoryInv, Halves, Gone, Apart
<1>11. EarnedInv'
  <2>1. \A u \in Tests : ~Stored(u)' => (Pending(u)'.kind = "healing" /\ Pending(u)'.ok = "yes" =>
                                <<Pending(u)'.old, Pending(u)'.new>> \in validated')
    BY <1>4, <1>5 DEF EarnedInv, Earned
  <2> QED BY <1>7, <2>1 DEF EarnedInv, Earned
<1> QED BY <1>8, <1>9, <1>10, <1>11 DEF MemoryInv

LEMMA MadeFields ==
  ASSUME NEW t, NEW at, NEW old, NEW new, NEW ok, NEW element
  PROVE  /\ HealingRecord(t, at, old, new, ok).at = at /\ HealingRecord(t, at, old, new, ok).ok = ok
         /\ HealingRecord(t, at, old, new, ok).old = old /\ HealingRecord(t, at, old, new, ok).new = new
         /\ ElementOf(t, at, element).at = at /\ ElementOf(t, at, element).kind = "element"
BY DEF HealingRecord, ElementOf

LEMMA BrowserMemory ==
  ASSUME MemoryInv, EarnedInv, NEW t \in Tests, NEW p, NEW dom, BrowserRun(t, p, dom)
  PROVE  MemoryInv' /\ EarnedInv'
<1>1. CASE RunPasses(t, p, dom)
  <2>1. PICK e : ToStore(t, p, Item(ElementOf(t, made + 1, e), "same"))
    BY <1>1 DEF RunPasses
  <2>2. UNCHANGED <<index, rows, volatile, eraser, validated>>
    BY <1>1 DEF RunPasses
  <2>3. PICK rec : rec = ElementOf(t, made + 1, e)
    OBVIOUS
  <2>4. ToStore(t, p, Item(rec, "same"))
    BY <2>1, <2>3
  <2>5. rec.at = made + 1 /\ rec.kind = "element"
    BY <2>3, MadeFields
  <2> QED BY <2>2, <2>4, <2>5, MakeMemory
<1>2. ASSUME NEW selector \in Selectors, RunHealed(t, p, dom, selector) PROVE MemoryInv' /\ EarnedInv'
  <2>1. PICK rec : rec = HealingRecord(t, made + 1, Target[t], selector, _derive_validation_result("SUCCESS"))
    OBVIOUS
  <2>2. ToStore(t, p, Item(rec, "never")) /\ UNCHANGED <<index, rows, volatile, eraser>>
        /\ validated' = validated \union {<<Target[t], selector>>}
    BY <1>2, <2>1 DEF RunHealed
  <2>3. rec.at = made + 1 /\ rec.old = Target[t] /\ rec.new = selector
    BY <2>1, MadeFields
  <2>4. <<rec.old, rec.new>> \in validated'
    BY <2>2, <2>3
  <2> QED BY <2>2, <2>3, <2>4, MakeMemory
<1>3. ASSUME NEW f, RunFails(t, p, dom, f) PROVE MemoryInv' /\ EarnedInv'
  <2>1. UNCHANGED <<index, rows, volatile, eraser, validated>>
    BY <1>3 DEF RunFails
  <2>2. CASE learned[t] = NoElement
    <3>1. UNCHANGED <<made, writer>>
      BY <1>3, <2>2 DEF RunFails
    <3> QED BY <2>1, <3>1, SameMemory
  <2>3. CASE learned[t] # NoElement
    <3>1. PICK rec : rec = ElementOf(t, made + 1, Record(t, learned[t]))
      OBVIOUS
    <3>2. ToStore(t, p, Item(rec, "known"))
      BY <1>3, <2>3, <3>1 DEF RunFails
    <3>3. rec.at = made + 1 /\ rec.kind = "element"
      BY <3>1, MadeFields
    <3> QED BY <2>1, <3>2, <3>3, MakeMemory
  <2> QED BY <2>2, <2>3
<1> QED BY <1>1, <1>2, <1>3 DEF BrowserRun

LEMMA ValidateMemory ==
  ASSUME MemoryInv, EarnedInv, NEW t \in Tests, NEW passed \in BOOLEAN, Validate(t, passed)
  PROVE  MemoryInv' /\ EarnedInv'
<1>1. PICK new, ok : new = run[t].selected /\ ok = _derive_validation_result(IF passed THEN "SUCCESS" ELSE "FAILURE")
  OBVIOUS
<1>2. PICK rec : rec = HealingRecord(t, made + 1, Target[t], new, ok)
  OBVIOUS
<1>3. /\ ToStore(t, run[t].proc, Item(rec, "never")) /\ UNCHANGED <<index, rows, volatile, eraser>>
      /\ validated' = IF passed THEN validated \union {<<Target[t], new>>} ELSE validated
  BY <1>1, <1>2 DEF Validate
<1>4. rec.at = made + 1 /\ rec.old = Target[t] /\ rec.new = new /\ rec.ok = ok
  BY <1>2, MadeFields
<1>5. ok = "yes" => passed
  BY <1>1 DEF _derive_validation_result
<1>6. rec.ok = "yes" => <<rec.old, rec.new>> \in validated'
  BY <1>3, <1>4, <1>5
<1>7. validated \subseteq validated'
  BY <1>3
<1> QED BY <1>3, <1>4, <1>6, <1>7, MakeMemory

LEMMA NextMemory ==
  ASSUME MemoryInv, EarnedInv, [Next]_vars
  PROVE  MemoryInv' /\ EarnedInv'
<1>1. ASSUME NEW t \in Tests, Diagnose(t) \/ Recommend(t) \/ Feedback(t) \/ Finish(t)
      PROVE  UNCHANGED <<index, rows, volatile, writer, made, eraser, validated>>
  <2>1. CASE Diagnose(t)
    BY <2>1 DEF Diagnose, GivesUp
  <2>2. CASE Recommend(t)
    BY <2>2 DEF Recommend, Proceeds, GivesUp
  <2>3. CASE Feedback(t)
    BY <2>3 DEF Feedback, Proceeds, GivesUp
  <2>4. CASE Finish(t)
    BY <2>4 DEF Finish, memory_vars
  <2> QED BY <1>1, <2>1, <2>2, <2>3, <2>4
<1>2. CASE \E t \in Tests : Diagnose(t) \/ Recommend(t) \/ Feedback(t) \/ Finish(t)
  BY <1>1, <1>2, SameMemory
<1>3. CASE \E t \in Tests, p \in Procs : \E dom : BrowserRun(t, p, dom)
  BY <1>3, BrowserMemory
<1>4. CASE \E t \in Tests, passed \in BOOLEAN : Validate(t, passed)
  BY <1>4, ValidateMemory
<1>5. CASE \E t \in Tests : Stores(t) \/ StoreFails(t)
  BY <1>5, FreeMemory, StoreInIndexMemory, PersistMemory DEF Stores, StoreFails
<1>6. CASE \E p \in Procs, reachable \in BOOLEAN : Restarts(p, reachable)
  BY <1>6, RestartMemory DEF Restarts
<1>7. CASE Erasure /\ UNCHANGED <<run, learned, validated>>
  BY <1>7, ErasureMemory
<1>8. CASE UNCHANGED vars
  BY <1>8, SameMemory DEF vars, memory_vars
<1> QED BY <1>2, <1>3, <1>4, <1>5, <1>6, <1>7, <1>8 DEF Next

LEMMA MemoryInvariant == Spec => [](MemoryInv /\ EarnedInv)
<1>1. Init => MemoryInv /\ EarnedInv
  BY InitMemory
<1>2. MemoryInv /\ EarnedInv /\ [Next]_vars => MemoryInv' /\ EarnedInv'
  BY NextMemory
<1> QED BY <1>1, <1>2, PTL DEF Spec

(* A replacement is remembered as a success, in a process or in the          *)
(* database, only if a run with it passed (_derive_validation_result): for   *)
(* any number of processes, whatever restarts, outages and erasures do.      *)
THEOREM SuccessesAreValidated == Spec => []OnlyValidatedIsRemembered
<1>1. EarnedInv => OnlyValidatedIsRemembered
  <2> SUFFICES ASSUME EarnedInv, NEW r \in (UNION {In(index[p]) : p \in Procs}) \union In(rows)
               PROVE  Earned(r)
    BY DEF OnlyValidatedIsRemembered, Earned
  <2> HIDE DEF Earned
  <2>1. CASE r \in In(rows)
    BY <2>1 DEF EarnedInv
  <2>2. CASE r \in UNION {In(index[p]) : p \in Procs}
    <3>1. \E S \in {In(index[p]) : p \in Procs} : r \in S
      BY <2>2
    <3>2. PICK p \in Procs : r \in In(index[p])
      BY <3>1, Zenon
    <3> QED BY <3>2 DEF EarnedInv
  <2> QED BY <2>1, <2>2
<1> QED BY <1>1, MemoryInvariant, PTL

(* Once DELETE /me ended, the API process holds none of the records it       *)
(* erased, whatever runs stored between its steps (delete_me, reload).       *)
THEOREM ErasureIsLasting == Spec => []ErasedIsForgotten
<1>1. MemoryInv => ErasedIsForgotten
  BY DEF MemoryInv, Gone, Apart, ErasedIsForgotten
<1> QED BY <1>1, MemoryInvariant, PTL

-----------------------------------------------------------------------------
(* The two analyzers. *)

RuleNumbers == 1 .. 7

(* What each of the classifier's rules looks for. *)
LEMMA RuleList ==
  /\ DOMAIN Rules = RuleNumbers
  /\ \A i \in RuleNumbers : Rules[i].type \in _HEALABLE_TYPES
       => Rules[i].patterns = {"element not found", "no element"} \union OnlyClassifierKnows
<1>1. DOMAIN Rules = RuleNumbers
  BY DEF Rules, RuleNumbers
<1>2. ASSUME NEW i \in RuleNumbers, Rules[i].type \in _HEALABLE_TYPES
      PROVE  Rules[i].patterns = {"element not found", "no element"} \union OnlyClassifierKnows
  <2>1. Rules[1].type = "ELEMENT_NOT_INTERACTABLE" /\ Rules[2].type = "ASSERTION_FAILURE"
        /\ Rules[3].type = "TIMEOUT" /\ Rules[4].type = "NAVIGATION_FAILURE"
        /\ Rules[5].type = "NETWORK_ERROR" /\ Rules[6].type = "APPLICATION_ERROR"
    BY DEF Rules
  <2>2. i = 1 \/ i = 2 \/ i = 3 \/ i = 4 \/ i = 5 \/ i = 6 \/ i = 7
    BY DEF RuleNumbers
  <2>3. i = 7
    BY <1>2, <2>1, <2>2 DEF _HEALABLE_TYPES
  <2> QED BY <2>3 DEF Rules, OnlyClassifierKnows
<1> QED BY <1>1, <1>2

(* What the classifier calls healable is a missing element, if it is not      *)
(* worded in a way that only the classifier knows.                            *)
LEMMA HealableIsMissing ==
  ASSUME NEW f, NEW dom, AnalysisResult(f, dom).is_healable, f.says \intersect OnlyClassifierKnows = {}
  PROVE  _is_missing_element(f)
<1> DEFINE matching == {i \in DOMAIN Rules : Says(f, Rules[i].patterns)}
           first    == CHOOSE i \in matching : \A j \in matching : i <= j
<1>1. classify(f, dom).type \in _HEALABLE_TYPES
  BY DEF AnalysisResult, _assess_healability
<1>2. ~f.given
  BY <1>1 DEF classify, Classification, _HEALABLE_TYPES
<1>3. matching # {}
  BY <1>1, <1>2 DEF classify, Classification, _HEALABLE_TYPES
<1>4. Rules[first].type \in _HEALABLE_TYPES
  BY <1>1, <1>2, <1>3 DEF classify, Classification
<1>5. matching \subseteq RuleNumbers
  BY RuleList
<1>6. \E i \in matching : \A j \in matching : i <= j
  BY <1>3, <1>5 DEF RuleNumbers
<1>7. first \in matching
  BY <1>6
<1>8. Rules[first].patterns = {"element not found", "no element"} \union OnlyClassifierKnows
  BY <1>4, <1>5, <1>7, RuleList
<1>9. Says(f, {"element not found", "no element"})
  <2>1. PICK w \in f.says : w \in Rules[first].patterns
    BY <1>7 DEF Says
  <2>2. w \in {"element not found", "no element"}
    BY <1>8, <2>1
  <2> QED BY <2>2 DEF Says
<1> QED BY <1>9 DEF _is_missing_element, Says

(* With the target in memory, a missing element is a changed selector. *)
LEMMA MissingIsHealed ==
  ASSUME NEW f, NEW answers, NEW alternative, _is_missing_element(f),
         NEW a \in analyze(f, TRUE, alternative, answers)
  PROVE  a.type = "SELECTOR_CHANGED"
<1> DEFINE level == IF alternative THEN "HIGH" ELSE "MEDIUM"
<1>1. _classify_deterministic(f, TRUE, alternative) = Diagnosis("SELECTOR_CHANGED", level)
  BY DEF _classify_deterministic, _check_selector_changed
<1>2. Diagnosis("SELECTOR_CHANGED", level).confidence # "LOW"
  BY DEF Diagnosis
<1> HIDE DEF level
<1>3. a \in {Diagnosis("SELECTOR_CHANGED", level)}
  BY <1>1, <1>2 DEF analyze
<1> QED BY <1>3 DEF Diagnosis

(* What the stricter FailureAnalysisAgent calls healable, the platform's     *)
(* analyzer sends to the healer too, once memory knows the target: for every *)
(* message without the four wordings of a missing element that only the      *)
(* classifier knows (failure_classifier.py, analyzer.py _is_missing_element),*)
(* every page and every answer of the model.                                 *)
THEOREM AnalyzersAgree ==
  ASSUME NEW f, NEW dom, NEW alternative, NEW answers, f.says \intersect OnlyClassifierKnows = {}
  PROVE  SecondOpinionIsStricter(f, dom, alternative, answers)
<1> SUFFICES ASSUME AnalysisResult(f, dom).is_healable,
                    NEW a \in analyze(f, TRUE, alternative, answers)
             PROVE  a.type \in {"SELECTOR_CHANGED", "ELEMENT_NOT_FOUND"}
  BY DEF SecondOpinionIsStricter
<1>1. _is_missing_element(f)
  BY HealableIsMissing
<1>2. a.type = "SELECTOR_CHANGED"
  BY <1>1, MissingIsHealed
<1> QED BY <1>2

(* A message of an assertion is taken for an assertion failure, if no word of *)
(* an earlier rule is in it; the model is not asked.                          *)
LEMMA KeywordDecides ==
  ASSUME NEW f, NEW known, NEW answers, AssertionKeyword(f), NEW a \in analyze(f, known, FALSE, answers)
  PROVE  \/ a.type = "ASSERTION_FAILURE"
         \/ known /\ _is_missing_element(f)
         \/ a.type = "ELEMENT_NOT_INTERACTABLE" /\ _check_element_not_interactable(f)
<1> SUFFICES ASSUME ~(known /\ _is_missing_element(f))
             PROVE  \/ a.type = "ASSERTION_FAILURE"
                    \/ a.type = "ELEMENT_NOT_INTERACTABLE" /\ _check_element_not_interactable(f)
  OBVIOUS
<1>1. CASE _check_element_not_interactable(f)
  <2>1. _classify_deterministic(f, known, FALSE) = Diagnosis("ELEMENT_NOT_INTERACTABLE", "HIGH")
    BY <1>1 DEF _classify_deterministic, _check_selector_changed
  <2>2. Diagnosis("ELEMENT_NOT_INTERACTABLE", "HIGH").confidence # "LOW"
    BY DEF Diagnosis
  <2>3. a \in {Diagnosis("ELEMENT_NOT_INTERACTABLE", "HIGH")}
    BY <2>1, <2>2 DEF analyze
  <2>4. a.type = "ELEMENT_NOT_INTERACTABLE"
    BY <2>3 DEF Diagnosis
  <2> QED BY <1>1, <2>4
<1>2. CASE ~_check_element_not_interactable(f)
  <2> DEFINE level == IF f.given \/ (f.named /\ AssertionKeyword(f)) THEN "HIGH" ELSE "MEDIUM"
  <2>1. _classify_deterministic(f, known, FALSE) = Diagnosis("ASSERTION_FAILURE", level)
    BY <1>2 DEF _classify_deterministic, _check_selector_changed, _check_assertion_failed
  <2>2. Diagnosis("ASSERTION_FAILURE", level).confidence # "LOW"
    BY DEF Diagnosis
  <2> HIDE DEF level
  <2>3. a \in {Diagnosis("ASSERTION_FAILURE", level)}
    BY <2>1, <2>2 DEF analyze
  <2>4. a.type = "ASSERTION_FAILURE"
    BY <2>3 DEF Diagnosis
  <2> QED BY <2>4
<1> QED BY <1>1, <1>2

-----------------------------------------------------------------------------
(* Failed checks. *)

RunFields == {"pc", "proc", "dom", "failure", "known", "previous", "type", "ranked", "recommendation",
              "attempted", "count", "retries", "selected", "passed"}

(* The message of a failed check quotes a word of another rule. *)
Excused(r) ==
  \/ r.known /\ _is_missing_element(r.failure)
  \/ get_failure_policy("ELEMENT_NOT_INTERACTABLE").healable /\ _check_element_not_interactable(r.failure)

(* What is known of a failed check on its way to a replacement. *)
Checked(r) ==
  r.failure.check =>
    /\ r.pc = "submit" => AssertionKeyword(r.failure)
    /\ r.pc = "recommend" => r.type = "ASSERTION_FAILURE" \/ Excused(r)
    /\ r.pc \in {"validate", "feedback"} => Excused(r)

RunInv ==
  /\ run = [t \in Tests |-> run[t]]
  /\ \A t \in Tests : run[t] = [x \in RunFields |-> run[t][x]] /\ Checked(run[t])

LEMMA RunRecord ==
  ASSUME NEW pc, NEW proc, NEW dom, NEW failure, NEW known, NEW previous, NEW type, NEW ranked,
         NEW recommendation, NEW attempted, NEW count, NEW retries, NEW selected, NEW passed,
         NEW r, r = [pc |-> pc, proc |-> proc, dom |-> dom, failure |-> failure, known |-> known,
                     previous |-> previous, type |-> type, ranked |-> ranked,
                     recommendation |-> recommendation, attempted |-> attempted, count |-> count,
                     retries |-> retries, selected |-> selected, passed |-> passed]
  PROVE  r = [x \in RunFields |-> r[x]]
BY DEF RunFields

LEMMA IdleChecked ==
  Idle = [x \in RunFields |-> Idle[x]] /\ Checked(Idle)
<1>1. Idle = [x \in RunFields |-> Idle[x]]
  BY RunRecord DEF Idle
<1>2. Idle.pc = "idle"
  BY DEF Idle
<1> QED BY <1>1, <1>2 DEF Checked

(* A run that goes on with the same diagnosis. *)
LEMMA SameDiagnosis ==
  ASSUME RunInv, NEW t \in Tests, NEW r,
         r = [x \in RunFields |-> r[x]], Checked(r), run' = [run EXCEPT ![t] = r]
  PROVE  RunInv'
<1> USE DEF RunInv
<1>1. run' = [u \in Tests |-> run'[u]]
  OBVIOUS
<1>2. ASSUME NEW u \in Tests
      PROVE  run'[u] = [x \in RunFields |-> run'[u][x]] /\ Checked(run'[u])
  <2>1. run'[u] = r \/ run'[u] = run[u]
    OBVIOUS
  <2> QED BY <2>1
<1>3. \A u \in Tests : Checked(run[u])' <=> Checked(run'[u])
  BY DEF Checked
<1> QED BY <1>1, <1>2, <1>3

LEMMA InitChecked == Init => RunInv
BY IdleChecked DEF Init, RunInv

LEMMA GivesUpChecked ==
  ASSUME RunInv, NEW t \in Tests, GivesUp(t)
  PROVE  RunInv'
BY IdleChecked, SameDiagnosis DEF GivesUp

LEMMA ProceedsChecked ==
  ASSUME RunInv, NEW t \in Tests, NEW r, NEW d, r = [x \in RunFields |-> r[x]],
         d.action = "TRY_HEALING" /\ r.failure.check => Excused(r), Proceeds(t, r, d)
  PROVE  RunInv'
<1>1. CASE d.action = "TRY_HEALING"
  <2> DEFINE q == [r EXCEPT !.pc = "validate", !.selected = d.selected,
                            !.attempted = @ \union {d.selected}, !.count = @ + 1]
  <2>1. q = [x \in RunFields |-> q[x]] /\ q.known = r.known /\ q.failure = r.failure /\ q.pc = "validate"
    BY DEF RunFields
  <2>2. Checked(q)
    BY <1>1, <2>1 DEF Checked, Excused
  <2>3. run' = [run EXCEPT ![t] = q]
    BY <1>1 DEF Proceeds
  <2> QED BY <2>1, <2>2, <2>3, SameDiagnosis
<1>2. CASE d.action # "TRY_HEALING"
  BY <1>2, GivesUpChecked DEF Proceeds
<1> QED BY <1>1, <1>2

(* A run that passed, or that is over, has no failure to heal. *)
LEMMA FreshChecked ==
  ASSUME RunInv, NEW t \in Tests, NEW r,
         r = [x \in RunFields |-> r[x]], r.pc = "learn", run' = [run EXCEPT ![t] = r]
  PROVE  RunInv'
<1>1. Checked(r)
  BY DEF Checked
<1> QED BY <1>1, SameDiagnosis

LEMMA BrowserChecked ==
  ASSUME RunInv, NEW t \in Tests, NEW p, NEW dom, BrowserRun(t, p, dom)
  PROVE  RunInv'
<1>1. Idle = [x \in RunFields |-> Idle[x]]
  BY IdleChecked
<1>2. CASE RunPasses(t, p, dom)
  <2> DEFINE q == [Idle EXCEPT !.pc = "learn", !.proc = p, !.dom = dom, !.passed = TRUE]
  <2>1. q = [x \in RunFields |-> q[x]] /\ q.pc = "learn"
    BY <1>1 DEF RunFields
  <2>2. run' = [run EXCEPT ![t] = q]
    BY <1>2 DEF RunPasses
  <2> HIDE DEF q
  <2> QED BY <2>1, <2>2, FreshChecked
<1>3. CASE \E selector \in Selectors : RunHealed(t, p, dom, selector)
  <2> DEFINE q == [Idle EXCEPT !.pc = "learn", !.proc = p, !.passed = TRUE]
  <2>1. q = [x \in RunFields |-> q[x]] /\ q.pc = "learn"
    BY <1>1 DEF RunFields
  <2>2. run' = [run EXCEPT ![t] = q]
    BY <1>3 DEF RunHealed
  <2> HIDE DEF q
  <2> QED BY <2>1, <2>2, FreshChecked
<1>4. CASE \E f \in SeenFailures[t] \union Missing : RunFails(t, p, dom, f)
  <2>1. PICK f \in SeenFailures[t] \union Missing : RunFails(t, p, dom, f)
    BY <1>4
  <2>2. PICK n : n = IF run[t].pc = "again" THEN run[t].retries ELSE 0
    OBVIOUS
  <2> DEFINE q == [Idle EXCEPT !.pc = "submit", !.proc = p, !.dom = dom, !.failure = f, !.retries = n]
  <2>3. q = [x \in RunFields |-> q[x]] /\ q.pc = "submit" /\ q.failure = f
    BY <1>1 DEF RunFields
  <2>4. run' = [run EXCEPT ![t] = q]
    BY <2>1, <2>2 DEF RunFails
  <2> HIDE DEF q
  <2>5. Checked(q)
    BY <2>3, HealingLoopAssumption DEF Checked
  <2> QED BY <2>3, <2>4, <2>5, SameDiagnosis
<1> QED BY <1>2, <1>3, <1>4 DEF BrowserRun

LEMMA DiagnoseChecked ==
  ASSUME RunInv, NEW t \in Tests, Diagnose(t)
  PROVE  RunInv'
<1> DEFINE r == run[t]
           K == Elements(index[r.proc], Target[t])
<1>1. PICK known \in BOOLEAN : known = (K # {})
  OBVIOUS
<1>2. PICK previous : previous = IF K = {} THEN {} ELSE {Newest(K).element}
  OBVIOUS
<1>3. PICK a \in analyze(r.failure, K # {}, FALSE, Diagnoses) :
        LET policy   == get_failure_policy(a.type)
            analysed == [r EXCEPT !.type = a.type, !.known = K # {},
                                  !.previous = IF K = {} THEN {} ELSE {Newest(K).element}]
        IN IF ~MayRetry(policy, r.retries) /\ ~policy.healable THEN GivesUp(t)
           ELSE /\ run' = [run EXCEPT ![t] = IF MayRetry(policy, r.retries)
                                             THEN [analysed EXCEPT !.pc = "again", !.retries = @ + 1]
                                             ELSE [analysed EXCEPT !.pc = "recommend"]]
                /\ UNCHANGED <<made, writer>>
  BY DEF Diagnose
<1> DEFINE analysed == [r EXCEPT !.type = a.type, !.known = known, !.previous = previous]
           again    == [analysed EXCEPT !.pc = "again", !.retries = @ + 1]
           onward   == [analysed EXCEPT !.pc = "recommend"]
<1>4. \/ run' = [run EXCEPT ![t] = again]
      \/ run' = [run EXCEPT ![t] = onward] /\ get_failure_policy(a.type).healable
      \/ GivesUp(t)
  BY <1>1, <1>2, <1>3
<1>5. r = [x \in RunFields |-> r[x]] /\ Checked(r) /\ r.pc = "submit"
  BY DEF RunInv, Diagnose
<1>6. again = [x \in RunFields |-> again[x]] /\ again.pc = "again"
  BY <1>5 DEF RunFields
<1>7. onward = [x \in RunFields |-> onward[x]] /\ onward.pc = "recommend" /\ onward.known = known
      /\ onward.type = a.type /\ onward.failure = r.failure
  BY <1>5 DEF RunFields
<1>8. Checked(again)
  BY <1>6 DEF Checked
<1>9. get_failure_policy(a.type).healable => Checked(onward)
  <2> SUFFICES ASSUME get_failure_policy(a.type).healable, r.failure.check
               PROVE  a.type = "ASSERTION_FAILURE" \/ Excused(onward)
    BY <1>7 DEF Checked
  <2>1. AssertionKeyword(r.failure)
    BY <1>5 DEF Checked
  <2>2. a \in analyze(r.failure, known, FALSE, Diagnoses)
    BY <1>1, <1>3
  <2> HIDE DEF again, onward, r, K
  <2>3. \/ a.type = "ASSERTION_FAILURE"
        \/ known /\ _is_missing_element(r.failure)
        \/ a.type = "ELEMENT_NOT_INTERACTABLE" /\ _check_element_not_interactable(r.failure)
    BY <2>1, <2>2, KeywordDecides
  <2> QED BY <1>7, <2>3 DEF Excused
<1> HIDE DEF again, onward
<1> QED BY <1>4, <1>6, <1>7, <1>8, <1>9, SameDiagnosis, GivesUpChecked

(* Nothing is tried for an assertion failure: it has no candidates. *)
LEMMA NothingToTry ==
  ASSUME NEW t, run[t].type = "ASSERTION_FAILURE", NEW count, NEW retries, NEW attempted, NEW d,
         evaluate(run[t].type, CandidatesFor(t), count, retries, attempted, d)
  PROVE  d.action # "TRY_HEALING"
<1>1. CandidatesFor(t) = << >>
  BY DEF CandidatesFor, RankedFor, _NON_HEALABLE_FAILURES
<1>2. _filter_eligible_candidates(<< >>, attempted) = {}
  BY DEF _filter_eligible_candidates
<1>3. \A a : Decide(a).action = a
  BY DEF Decide
<1> QED BY <1>1, <1>2, <1>3 DEF evaluate

LEMMA RecommendChecked ==
  ASSUME RunInv, NEW t \in Tests, Recommend(t)
  PROVE  RunInv'
<1> DEFINE r == run[t]
<1>1. PICK ranked \in {CandidatesFor(t)} :
        \E answer \in IF AsksModel(r.type, ranked) THEN Answers ELSE {NoAnswer}, d \in Decisions :
          /\ evaluate(r.type, ranked, r.count, r.retries, r.attempted, d)
          /\ Proceeds(t, [r EXCEPT !.ranked = Slim(ranked),
                                   !.recommendation = generate_recommendation(r.type, ranked, answer)], d)
  BY DEF Recommend
<1>2. PICK answer \in IF AsksModel(r.type, ranked) THEN Answers ELSE {NoAnswer} : \E d \in Decisions :
        /\ evaluate(r.type, ranked, r.count, r.retries, r.attempted, d)
        /\ Proceeds(t, [r EXCEPT !.ranked = Slim(ranked),
                                 !.recommendation = generate_recommendation(r.type, ranked, answer)], d)
  BY <1>1, Zenon
<1> DEFINE goesOn(d) ==
             /\ evaluate(r.type, ranked, r.count, r.retries, r.attempted, d)
             /\ Proceeds(t, [r EXCEPT !.ranked = Slim(ranked),
                                      !.recommendation = generate_recommendation(r.type, ranked, answer)], d)
<1>3. PICK d \in Decisions : goesOn(d)
  BY <1>2
<1>4. PICK slim, recommendation : slim = Slim(ranked)
                                  /\ recommendation = generate_recommendation(r.type, ranked, answer)
  OBVIOUS
<1> DEFINE q == [r EXCEPT !.ranked = slim, !.recommendation = recommendation]
<1>5. Proceeds(t, q, d)
  BY <1>4, <1>3
<1>6. r = [x \in RunFields |-> r[x]] /\ Checked(r) /\ r.pc = "recommend"
  BY DEF RunInv, Recommend
<1>7. q = [x \in RunFields |-> q[x]] /\ q.known = r.known /\ q.failure = r.failure
  BY <1>6 DEF RunFields
<1>8. d.action = "TRY_HEALING" /\ r.failure.check => Excused(r)
  <2> SUFFICES ASSUME d.action = "TRY_HEALING", r.failure.check, r.type = "ASSERTION_FAILURE"
               PROVE  FALSE
    BY <1>6 DEF Checked
  <2>1. evaluate(run[t].type, CandidatesFor(t), r.count, r.retries, r.attempted, d)
    BY <1>1, <1>3
  <2> QED BY <2>1, NothingToTry
<1>9. d.action = "TRY_HEALING" /\ q.failure.check => Excused(q)
  BY <1>7, <1>8 DEF Excused
<1> HIDE DEF q
<1> QED BY <1>5, <1>7, <1>9, ProceedsChecked

LEMMA ValidateChecked ==
  ASSUME RunInv, NEW t \in Tests, NEW passed \in BOOLEAN, Validate(t, passed)
  PROVE  RunInv'
<1> DEFINE r == run[t]
           q == [r EXCEPT !.pc = "feedback", !.passed = passed, !.previous = {}, !.recommendation = << >>]
<1>1. run' = [run EXCEPT ![t] = q]
  BY DEF Validate
<1>2. r = [x \in RunFields |-> r[x]] /\ Checked(r) /\ r.pc = "validate"
  BY DEF RunInv, Validate
<1>3. q = [x \in RunFields |-> q[x]] /\ q.known = r.known /\ q.failure = r.failure /\ q.pc = "feedback"
  BY <1>2 DEF RunFields
<1>4. Checked(q)
  BY <1>2, <1>3 DEF Checked, Excused
<1> HIDE DEF q
<1> QED BY <1>1, <1>3, <1>4, SameDiagnosis

LEMMA FeedbackChecked ==
  ASSUME RunInv, NEW t \in Tests, Feedback(t)
  PROVE  RunInv'
<1> DEFINE r == run[t]
           q == [Idle EXCEPT !.pc = "learn", !.proc = r.proc, !.dom = r.dom, !.selected = r.selected,
                             !.passed = TRUE]
<1>1. CASE run' = [run EXCEPT ![t] = q]
  <2>1. Idle = [x \in RunFields |-> Idle[x]]
    BY IdleChecked
  <2>2. q = [x \in RunFields |-> q[x]] /\ q.pc = "learn"
    BY <2>1 DEF RunFields
  <2> HIDE DEF q
  <2> QED BY <1>1, <2>2, FreshChecked
<1>2. CASE \E d \in Decisions : Proceeds(t, r, d)
  <2>1. r = [x \in RunFields |-> r[x]] /\ Checked(r) /\ r.pc = "feedback"
    BY DEF RunInv, Feedback
  <2> HIDE DEF r
  <2>2. r.failure.check => Excused(r)
    BY <2>1 DEF Checked
  <2> QED BY <1>2, <2>1, <2>2, ProceedsChecked
<1>3. run' = [run EXCEPT ![t] = q] \/ \E d \in Decisions : Proceeds(t, r, d)
  BY DEF Feedback
<1> QED BY <1>1, <1>2, <1>3

LEMMA RestartChecked ==
  ASSUME RunInv, NEW p, run' = [t \in Tests |-> IF run[t].proc = p THEN Idle ELSE run[t]]
  PROVE  RunInv'
<1>1. ASSUME NEW t \in Tests
      PROVE  run'[t] = [x \in RunFields |-> run'[t][x]] /\ Checked(run'[t])
  <2>1. run'[t] = Idle \/ run'[t] = run[t]
    OBVIOUS
  <2> QED BY <2>1, IdleChecked DEF RunInv
<1>2. \A t \in Tests : Checked(run[t])' <=> Checked(run'[t])
  BY DEF Checked
<1> QED BY <1>1, <1>2 DEF RunInv

LEMMA SameChecked ==
  ASSUME RunInv, UNCHANGED run
  PROVE  RunInv'
BY DEF RunInv, Checked

LEMMA NextChecked ==
  ASSUME RunInv, [Next]_vars
  PROVE  RunInv'
<1>1. CASE \E t \in Tests, p \in Procs : \E dom : BrowserRun(t, p, dom)
  BY <1>1, BrowserChecked
<1>2. CASE \E t \in Tests : Diagnose(t) \/ Recommend(t) \/ Feedback(t)
  BY <1>2, DiagnoseChecked, RecommendChecked, FeedbackChecked
<1>3. CASE \E t \in Tests, passed \in BOOLEAN : Validate(t, passed)
  BY <1>3, ValidateChecked
<1>4. CASE \E t \in Tests : Finish(t) \/ StoreFails(t)
  <2>1. PICK t \in Tests : Finish(t) \/ StoreFails(t)
    BY <1>4
  <2>2. run' = [run EXCEPT ![t] = Idle]
    BY <2>1 DEF Finish, StoreFails
  <2> QED BY <2>2, IdleChecked, SameDiagnosis
<1>5. CASE \E t \in Tests : Stores(t)
  BY <1>5, SameChecked DEF Stores
<1>6. CASE \E p \in Procs, reachable \in BOOLEAN : Restarts(p, reachable)
  BY <1>6, RestartChecked DEF Restarts
<1>7. CASE UNCHANGED run
  BY <1>7, SameChecked
<1> QED BY <1>1, <1>2, <1>3, <1>4, <1>5, <1>6, <1>7 DEF Next, vars

(* A check that failed is never healed away: nothing is tried for it, unless  *)
(* its message quotes a word of another rule of the analyzer                  *)
(* (_classify_deterministic, _NON_HEALABLE_FAILURES, evaluate): for any       *)
(* config, page, memory and answer of the model.                              *)
THEOREM ChecksStand == Spec => []FailedCheckStands
<1>1. Init => RunInv
  BY InitChecked
<1>2. RunInv /\ [Next]_vars => RunInv'
  BY NextChecked
<1>3. RunInv => FailedCheckStands
  BY DEF RunInv, Checked, Excused, FailedCheckStands
<1> QED BY <1>1, <1>2, <1>3, PTL DEF Spec

-----------------------------------------------------------------------------
(* Lists of elements and of candidates. *)

Rank(I, i) == Cardinality({j \in I : j <= i})

(* Every rank is taken: the k-th position is one of I. *)
LEMMA NthFits ==
  ASSUME NEW I, I \subseteq Nat, IsFiniteSet(I), NEW k \in 1..Cardinality(I)
  PROVE  Nth(I, k) \in I
<1> DEFINE n == Cardinality(I)
           Unranked == {m \in 1..n : \A i \in I : Rank(I, i) # m}
<1>1. n \in Nat /\ \A i \in I : i \in Nat
  BY FS_CardinalityType
<1>2. ASSUME NEW m \in Unranked, \A l \in Unranked : m <= l
      PROVE  FALSE
  <2>1. CASE m = 1
    <3>1. I # {}
      BY <2>1, <1>1, FS_EmptySet
    <3>2. PICK i \in I : \A j \in I : i <= j
      BY <3>1, Smallest
    <3>3. \A j \in I : j <= i <=> j = i
      BY <1>1, <3>2
    <3>4. {j \in I : j <= i} = {i}
      BY <3>3
    <3>5. Rank(I, i) = 1
      BY <3>4, FS_Singleton DEF Rank
    <3> QED BY <3>5, <2>1
  <2>2. CASE m # 1
    <3>1. m - 1 \in 1..n /\ m - 1 \notin Unranked
      BY <1>1, <1>2, <2>2
    <3>2. PICK i \in I : Rank(I, i) = m - 1
      BY <3>1
    <3> DEFINE Below == {j \in I : j <= i}
               Above == {j \in I : j > i}
    <3>3. Above # {}
      <4> SUFFICES ASSUME Above = {}
                   PROVE  FALSE
        OBVIOUS
      <4>1. \A j \in I : ~(j > i) /\ j \in Nat /\ i \in Nat
        BY <1>1
      <4>2. \A j \in I : j <= i
        BY <4>1
      <4>3. Below = I
        BY <4>2
      <4> QED BY <4>3, <3>2, <1>1, <3>1 DEF Rank
    <3>4. PICK j \in Above : \A l \in Above : j <= l
      BY <3>3, Smallest
    <3>5. {x \in I : x <= j} = Below \union {j}
      <4>1. \A x \in I : x <= j <=> x <= i \/ x = j
        BY <1>1, <3>4
      <4> QED BY <4>1, <3>4
    <3>6. IsFiniteSet(Below) /\ j \notin Below
      BY FS_Subset, <3>4
    <3>7. Cardinality(Below \union {j}) = Cardinality(Below) + 1
      BY <3>6, FS_AddElement
    <3>8. Rank(I, j) = m
      BY <3>2, <3>5, <3>7, <1>1, <3>1 DEF Rank
    <3> QED BY <3>8, <3>4
  <2> QED BY <2>1, <2>2
<1>3. Unranked = {}
  <2>1. Unranked \subseteq Nat
    BY <1>1
  <2> HIDE DEF Unranked
  <2> QED BY <2>1, <1>2, Smallest
<1>4. \E i \in I : Rank(I, i) = k
  BY <1>3
<1> QED BY <1>4 DEF Nth, Rank

LEMMA ListFits ==
  ASSUME NEW s, IsList(s)
  PROVE  Len(s) \in Nat /\ DOMAIN s = 1..Len(s) /\ DOMAIN s \subseteq Nat /\ IsFiniteSet(DOMAIN s)
<1>1. Len(s) \in Nat /\ DOMAIN s = 1..Len(s)
  BY DEF IsList
<1>2. IsFiniteSet(1..Len(s))
  BY <1>1, FS_Interval
<1> QED BY <1>1, <1>2

LEMMA ListOf ==
  ASSUME NEW n \in Nat, NEW s, DOMAIN s = 1..n, s = [i \in 1..n |-> s[i]]
  PROVE  IsList(s) /\ Len(s) = n
<1>1. s \in [1..n -> {s[i] : i \in 1..n}]
  OBVIOUS
<1> QED BY <1>1 DEF IsList

LEMMA PickedFits ==
  ASSUME NEW s, IsList(s), NEW I, I \subseteq DOMAIN s
  PROVE  /\ IsList(Picked(s, I))
         /\ \A k \in DOMAIN Picked(s, I) : Nth(I, k) \in I /\ Picked(s, I)[k] = s[Nth(I, k)]
<1>1. I \subseteq Nat /\ IsFiniteSet(I)
  BY ListFits, FS_Subset
<1>2. Cardinality(I) \in Nat
  BY <1>1, FS_CardinalityType
<1>3. DOMAIN Picked(s, I) = 1..Cardinality(I)
  BY DEF Picked
<1>4. \A k \in 1..Cardinality(I) : Picked(s, I)[k] = s[Nth(I, k)]
  BY DEF Picked
<1>5. IsList(Picked(s, I))
  <2>1. Picked(s, I) = [k \in 1..Cardinality(I) |-> Picked(s, I)[k]]
    BY DEF Picked
  <2> QED BY <2>1, <1>2, <1>3, ListOf
<1>6. \A k \in 1..Cardinality(I) : Nth(I, k) \in I
  BY <1>1, NthFits
<1> QED BY <1>3, <1>4, <1>5, <1>6

LEMMA SeqIsList ==
  ASSUME NEW S, NEW s \in Seq(S)
  PROVE  IsList(s)
<1>1. Len(s) \in Nat /\ DOMAIN s = 1..Len(s)
  OBVIOUS
<1>2. s = [i \in 1..Len(s) |-> s[i]]
  BY <1>1
<1> QED BY <1>1, <1>2, ListOf

LEMMA EmptyList == IsList(<< >>) /\ DOMAIN << >> = {} /\ Len(<< >>) = 0
<1> DEFINE u == << >>
<1>1. u \in Seq({}) /\ Len(u) = 0 /\ DOMAIN u = {}
  OBVIOUS
<1> HIDE DEF u
<1>2. IsList(u)
  BY <1>1, SeqIsList, Zenon
<1> QED BY <1>1, <1>2, Zenon DEF u

LEMMA JoinedFits ==
  ASSUME NEW s, NEW t, IsList(s), IsList(t)
  PROVE  /\ IsList(s \o t) /\ Len(s \o t) = Len(s) + Len(t)
         /\ \A i \in DOMAIN (s \o t) :
              \/ i \in DOMAIN s /\ (s \o t)[i] = s[i]
              \/ i - Len(s) \in DOMAIN t /\ i \notin DOMAIN s /\ (s \o t)[i] = t[i - Len(s)]
<1>1. Len(s) \in Nat /\ DOMAIN s = 1..Len(s) /\ Len(t) \in Nat /\ DOMAIN t = 1..Len(t)
  BY ListFits
<1>2. PICK S : s \in Seq(S) /\ t \in Seq(S)
  <2>1. s \in Seq({s[i] : i \in DOMAIN s} \union {t[i] : i \in DOMAIN t})
        /\ t \in Seq({s[i] : i \in DOMAIN s} \union {t[i] : i \in DOMAIN t})
    BY <1>1 DEF IsList
  <2> QED BY <2>1
<1> DEFINE u == s \o t
<1>3. u \in Seq(S) /\ Len(u) = Len(s) + Len(t)
      /\ \A i \in 1..(Len(s) + Len(t)) : u[i] = IF i <= Len(s) THEN s[i] ELSE t[i - Len(s)]
  BY <1>2, ConcatProperties
<1> HIDE DEF u
<1>4. DOMAIN u = 1..(Len(s) + Len(t)) /\ IsList(u)
  BY <1>3, SeqIsList, ListFits
<1>5. u = s \o t
  BY DEF u
<1>6. \A i \in DOMAIN u :
        (i \in DOMAIN s /\ u[i] = s[i]) \/ (i - Len(s) \in DOMAIN t /\ i \notin DOMAIN s /\ u[i] = t[i - Len(s)])
  BY <1>1, <1>3, <1>4
<1> QED BY <1>3, <1>4, <1>5, <1>6, Zenon

LEMMA MadeList ==
  ASSUME NEW s, IsList(s), NEW t, DOMAIN t = DOMAIN s, t = [i \in DOMAIN s |-> t[i]]
  PROVE  IsList(t)
<1>1. Len(s) \in Nat /\ DOMAIN s = 1..Len(s)
  BY ListFits
<1>2. DOMAIN t = 1..Len(s) /\ t = [i \in 1..Len(s) |-> t[i]]
  BY <1>1
<1> QED BY <1>1, <1>2, ListOf

(* << >> \o f is f, the form in which the model asks for a list at once. *)
LEMMA AtOnce ==
  ASSUME NEW s, IsList(s)
  PROVE  << >> \o s = s
<1> DEFINE u == << >> \o s
<1>1. IsList(u) /\ Len(u) = Len(s) /\ Len(s) \in Nat /\ DOMAIN s = 1..Len(s) /\ DOMAIN u = 1..Len(u)
  <2>1. IsList(<< >>) /\ Len(<< >>) = 0
    BY EmptyList
  <2>2. IsList(u) /\ Len(u) = 0 + Len(s)
    BY <2>1, JoinedFits
  <2> HIDE DEF u
  <2> QED BY <2>2, ListFits
<1>2. \A i \in DOMAIN u : u[i] = s[i]
  BY DEF IsList
<1> HIDE DEF u
<1>3. u = s
  BY <1>1, <1>2 DEF IsList
<1> QED BY <1>3 DEF u

-----------------------------------------------------------------------------
(* The replacements that are found, scored and ranked. *)

Matched(selector, everyone) == {i \in DOMAIN everyone : Matches(selector, everyone[i])}

(* What the selector that is tried promises. *)
Stands(selector, dom, target) == selector # target /\ Cardinality(Matched(selector, elements(dom))) = 1

(* Whatever form it takes, the selector of an element matches no other one. *)
LEMMA SelectorIsUnique ==
  ASSUME NEW everyone, NEW e, _unique_selector(e, everyone) # << >>
  PROVE  Cardinality(Matched(_unique_selector(e, everyone), everyone)) = 1
<1> DEFINE s == _unique_selector(e, everyone)
           tagged == Same(everyone, e, "tag")
           holding == {i \in tagged : everyone[i].text # "" /\ Contains(e.text, everyone[i].text)}
<1>1. CASE Only(DOMAIN everyone, everyone, e, "id")
  <2>1. s = <<"id", e.id>>
    BY <1>1 DEF _unique_selector
  <2>2. Matched(s, everyone) = DOMAIN everyone \intersect Same(everyone, e, "id")
    BY <2>1 DEF Matched, Matches, Same
  <2> QED BY <1>1, <2>2 DEF Only
<1>2. CASE ~Only(DOMAIN everyone, everyone, e, "id") /\ Only(DOMAIN everyone, everyone, e, "testid")
  <2>1. s = <<"testid", e.testid>>
    BY <1>2 DEF _unique_selector
  <2>2. Matched(s, everyone) = DOMAIN everyone \intersect Same(everyone, e, "testid")
    BY <2>1 DEF Matched, Matches, Same
  <2> QED BY <1>2, <2>2 DEF Only
<1>3. CASE /\ ~Only(DOMAIN everyone, everyone, e, "id") /\ ~Only(DOMAIN everyone, everyone, e, "testid")
           /\ Only(tagged, everyone, e, "name")
  <2>1. s = <<"name", e.tag, e.name>>
    BY <1>3 DEF _unique_selector
  <2>2. Matched(s, everyone) = tagged \intersect Same(everyone, e, "name")
    BY <2>1 DEF Matched, Matches, Same
  <2> QED BY <1>3, <2>2 DEF Only
<1>4. CASE /\ ~Only(DOMAIN everyone, everyone, e, "id") /\ ~Only(DOMAIN everyone, everyone, e, "testid")
           /\ ~Only(tagged, everyone, e, "name")
  <2>1. s = <<"has-text", e.tag, e.text>> /\ Cardinality(holding) = 1
    BY <1>4 DEF _unique_selector
  <2> HIDE DEF s, holding, tagged
  <2>2. s[1] = "has-text" /\ s[2] = e.tag /\ s[3] = e.text
    BY <2>1
  <2>3. \A d : Matches(s, d) = (d.tag = e.tag /\ d.text # "" /\ Contains(e.text, d.text))
    BY <2>2 DEF Matches
  <2>4. Matched(s, everyone) = holding
    BY <2>3 DEF Matched, Same, holding, tagged
  <2> QED BY <2>1, <2>4 DEF s
<1> QED BY <1>1, <1>2, <1>3, <1>4

(* The evidence of a failed step: elements with a selector of their own, *)
(* other than the one that failed.                                       *)
LEMMA EvidenceStands ==
  ASSUME NEW dom, IsList(dom), NEW page, NEW tag, NEW failed
  PROVE  /\ IsList(dom_evidence(dom, page, tag, failed))
         /\ \A i \in DOMAIN dom_evidence(dom, page, tag, failed) :
              Stands(dom_evidence(dom, page, tag, failed)[i].selector, dom, failed)
<1> DEFINE everyone == elements(dom)
           own  == {i \in DOMAIN everyone : /\ tag \in {"", everyone[i].tag}
                                            /\ _unique_selector(everyone[i], everyone) # << >>}
           kept == Picked(everyone, own)
           few  == {j \in DOMAIN kept : j <= MAX_PAGE_ELEMENTS}
           records == page_elements_from_dom(dom, page, tag)
           others  == {i \in DOMAIN records : records[i].selector # failed}
<1>1. IsList(everyone)
  <2> DEFINE I == {i \in DOMAIN dom : Collected(dom[i])}
  <2>1. I \subseteq DOMAIN dom
    OBVIOUS
  <2>2. everyone = Picked(dom, I)
    BY DEF elements
  <2> HIDE DEF I
  <2> QED BY <2>1, <2>2, PickedFits
<1>2. IsList(kept) /\ \A k \in DOMAIN kept : Nth(own, k) \in own /\ kept[k] = everyone[Nth(own, k)]
  <2>1. own \subseteq DOMAIN everyone
    OBVIOUS
  <2> HIDE DEF own, everyone
  <2> QED BY <1>1, <2>1, PickedFits
<1>3. \A k \in DOMAIN kept : _unique_selector(kept[k], everyone) # << >>
  BY <1>2
<1>4. /\ DOMAIN records = few
      /\ records = [i \in few |-> records[i]]
      /\ \A i \in few : records[i].selector = _unique_selector(kept[i], everyone)
  BY DEF page_elements_from_dom, ElementRecord
<1> HIDE DEF kept, records, everyone
<1>5. IsList(records)
  <2> DEFINE n == IF Len(kept) < MAX_PAGE_ELEMENTS THEN Len(kept) ELSE MAX_PAGE_ELEMENTS
  <2>1. DOMAIN kept = 1..Len(kept) /\ Len(kept) \in Nat /\ MAX_PAGE_ELEMENTS \in Nat
    BY <1>2, ListFits, PageElementsAssumption
  <2>2. n \in Nat /\ few = 1..n
    BY <2>1
  <2> HIDE DEF n, few
  <2> QED BY <1>4, <2>2, ListOf
<1>6. dom_evidence(dom, page, tag, failed) = Picked(records, others)
  BY DEF dom_evidence, records
<1>7. /\ IsList(Picked(records, others))
      /\ \A k \in DOMAIN Picked(records, others) :
           Nth(others, k) \in others /\ Picked(records, others)[k] = records[Nth(others, k)]
  <2>1. others \subseteq DOMAIN records
    OBVIOUS
  <2> HIDE DEF others
  <2> QED BY <1>5, <2>1, PickedFits
<1>8. ASSUME NEW k \in DOMAIN Picked(records, others)
      PROVE  Stands(Picked(records, others)[k].selector, dom, failed)
  <2> DEFINE i == Nth(others, k)
  <2>1. i \in others /\ Picked(records, others)[k] = records[i]
    BY <1>7
  <2> HIDE DEF i
  <2>2. i \in few /\ i \in DOMAIN kept /\ records[i].selector # failed
    BY <1>4, <2>1
  <2>3. records[i].selector = _unique_selector(kept[i], everyone) /\ _unique_selector(kept[i], everyone) # << >>
    BY <1>3, <1>4, <2>2
  <2>4. Cardinality(Matched(records[i].selector, everyone)) = 1
    BY <2>3, SelectorIsUnique
  <2> QED BY <2>1, <2>2, <2>4 DEF Stands, everyone
<1> QED BY <1>6, <1>7, <1>8

-----------------------------------------------------------------------------
(* Ranking puts every candidate somewhere: in a total order on 1..n every *)
(* number from 0 to n - 1 is how many are ahead of one of them.           *)
LEMMA EveryRank ==
  ASSUME NEW n \in Nat, NEW A \in [1..n -> SUBSET (1..n)],
         \A i \in 1..n : i \notin A[i],
         \A i, j \in 1..n : i # j => i \in A[j] \/ j \in A[i],
         \A i, j \in 1..n : i \in A[j] => A[i] \subseteq A[j],
         NEW k \in 1..n
  PROVE  \E i \in 1..n : Cardinality(A[i]) = k - 1
<1> DEFINE I == 1..n
           T == 0..(n - 1)
           f == [i \in I |-> Cardinality(A[i])]
<1>1. IsFiniteSet(I) /\ Cardinality(I) = n /\ IsFiniteSet(T) /\ Cardinality(T) = n
  <2>1. IsFiniteSet(I) /\ Cardinality(I) = n
    <3>1. IsFiniteSet(1..n) /\ Cardinality(1..n) = IF 1 <= n THEN n - 1 + 1 ELSE 0
      BY FS_Interval
    <3> QED BY <3>1
  <2>2. IsFiniteSet(T) /\ Cardinality(T) = n
    <3>1. IsFiniteSet(0..(n - 1)) /\ Cardinality(0..(n - 1)) = IF 0 <= n - 1 THEN n - 1 - 0 + 1 ELSE 0
      BY FS_Interval
    <3> QED BY <3>1
  <2> QED BY <2>1, <2>2
<1> HIDE DEF I
<1>2. I = 1..n
  BY DEF I
<1>3. \A i \in I : A[i] \subseteq I /\ i \notin A[i] /\ IsFiniteSet(A[i]) /\ Cardinality(A[i]) \in Nat
  <2> TAKE i \in I
  <2>1. A[i] \subseteq I /\ i \notin A[i]
    BY <1>2
  <2>2. IsFiniteSet(A[i])
    BY <1>1, <2>1, FS_Subset
  <2> QED BY <2>1, <2>2, FS_CardinalityType
<1>4. \A i \in I, S \in SUBSET I : A[i] \subseteq S /\ i \in S => Cardinality(A[i]) + 1 <= Cardinality(S)
  <2> SUFFICES ASSUME NEW i \in I, NEW S \in SUBSET I, A[i] \subseteq S, i \in S
               PROVE  Cardinality(A[i]) + 1 <= Cardinality(S)
    OBVIOUS
  <2>1. Cardinality(A[i] \union {i}) = Cardinality(A[i]) + 1
    BY <1>3, FS_AddElement
  <2>2. IsFiniteSet(S)
    BY <1>1, FS_Subset
  <2>3. A[i] \union {i} \subseteq S
    OBVIOUS
  <2>4. Cardinality(A[i] \union {i}) <= Cardinality(S)
    BY <2>2, <2>3, FS_Subset
  <2> QED BY <2>1, <2>4
<1>5. f \in [I -> T]
  <2>1. \A i \in I : Cardinality(A[i]) + 1 <= n /\ Cardinality(A[i]) \in Nat
    BY <1>1, <1>3, <1>4
  <2>2. \A i \in I : Cardinality(A[i]) \in T
    BY <2>1
  <2> QED BY <2>2
<1>6. \A i, j \in I : f[i] = f[j] => i = j
  <2> SUFFICES ASSUME NEW i \in I, NEW j \in I, i \in A[j]
               PROVE  Cardinality(A[i]) # Cardinality(A[j])
    BY <1>2
  <2>1. A[i] \subseteq A[j] /\ A[j] \in SUBSET I
    BY <1>2, <1>3
  <2>2. Cardinality(A[i]) + 1 <= Cardinality(A[j])
    BY <1>4, <2>1
  <2> QED BY <2>2, <1>3
<1> HIDE DEF f, T
<1>7. f \in Injection(I, T)
  BY <1>5, <1>6 DEF Injection, IsInjective
<1>8. f \in Surjection(I, T)
  BY <1>1, <1>7, FS_Injection
<1>9. k - 1 \in T
  BY DEF T
<1>10. PICK i \in I : f[i] = k - 1
  BY <1>8, <1>9 DEF Surjection
<1> QED BY <1>2, <1>10 DEF f

(* The candidates of a list, sorted by score, are the candidates of the list. *)
LEMMA RankedFits ==
  ASSUME NEW cands, IsList(cands), \A i \in DOMAIN cands : score_candidate(cands[i]) \in Int,
         \A i \in DOMAIN cands : cands[i] = Candidate(cands[i].selector, cands[i].source, cands[i].similar)
  PROVE  /\ IsList(rank_candidates(cands))
         /\ \A k \in DOMAIN rank_candidates(cands) : \E i \in DOMAIN cands :
              /\ rank_candidates(cands)[k].selector = cands[i].selector
              /\ rank_candidates(cands)[k].confidence = score_candidate(cands[i])
<1> DEFINE graded == [i \in DOMAIN cands |-> [cands[i] EXCEPT !.confidence = score_candidate(cands[i])]]
           scored == << >> \o graded
           ahead(i) == {j \in DOMAIN scored : \/ scored[j].confidence > scored[i].confidence
                                              \/ scored[j].confidence = scored[i].confidence /\ j < i}
           sorted == [k \in DOMAIN scored |-> scored[CHOOSE i \in DOMAIN scored : Cardinality(ahead(i)) = k - 1]]
<1>1. rank_candidates(cands) = << >> \o sorted
  BY DEF rank_candidates
<1>2. IsList(graded) /\ DOMAIN graded = DOMAIN cands
  <2>1. DOMAIN graded = DOMAIN cands /\ graded = [i \in DOMAIN cands |-> graded[i]]
    OBVIOUS
  <2> HIDE DEF graded
  <2> QED BY <2>1, MadeList
<1>3. \A i \in DOMAIN graded : graded[i].selector = cands[i].selector /\ graded[i].confidence = score_candidate(cands[i])
  BY DEF Candidate
<1> HIDE DEF graded
<1>4. scored = graded
  BY <1>2, AtOnce
<1> DEFINE n == Len(graded)
           A == [i \in 1..n |-> ahead(i)]
<1>5. n \in Nat /\ DOMAIN scored = 1..n /\ DOMAIN cands = 1..n
  BY <1>2, <1>4, ListFits
<1>6. \A i \in 1..n : scored[i].confidence \in Int /\ i \in Int
  BY <1>2, <1>3, <1>4, <1>5
<1> HIDE DEF scored, n
<1>7. \A k \in 1..n : \E i \in 1..n : Cardinality(ahead(i)) = k - 1
  <2>1. A \in [1..n -> SUBSET (1..n)]
    BY <1>5
  <2>2. \A i \in 1..n : i \notin A[i]
    BY <1>6
  <2>3. \A i, j \in 1..n : i # j => i \in A[j] \/ j \in A[i]
    BY <1>5, <1>6
  <2>4. \A i, j \in 1..n : i \in A[j] => A[i] \subseteq A[j]
    BY <1>5, <1>6
  <2>5. \A i \in 1..n : A[i] = ahead(i)
    OBVIOUS
  <2> HIDE DEF A
  <2>6. \A k \in 1..n : \E i \in 1..n : Cardinality(A[i]) = k - 1
    BY <1>5, <2>1, <2>2, <2>3, <2>4, EveryRank
  <2> QED BY <2>5, <2>6
<1>8. \A k \in DOMAIN sorted : \E i \in 1..n : sorted[k] = scored[i]
  BY <1>5, <1>7
<1>9. DOMAIN sorted = 1..n /\ sorted = [k \in 1..n |-> sorted[k]]
  BY <1>5
<1> HIDE DEF sorted
<1>10. IsList(sorted)
  BY <1>5, <1>9, ListOf
<1>11. rank_candidates(cands) = sorted
  BY <1>1, <1>10, AtOnce
<1> QED BY <1>2, <1>3, <1>4, <1>5, <1>8, <1>10, <1>11

-----------------------------------------------------------------------------
(* What the scores of the candidates are made of. *)

(* A replacement that memory saw succeed, every time, scores too little to be *)
(* tried: what is no longer on the page cannot win by its past alone.         *)
PrecedentsAreWeak == 100 * (Weights["historical"] + Weights["healing_history"]) < MinScore * Total(Weights)

Rates == 0..100

LEMMA TotalFits ==
  /\ Total(Weights) \in Nat \ {0}
  /\ \A w \in WeightNames : Weights[w] \in Nat
<1>1. \A w \in WeightNames : Weights[w] \in Nat
  BY HealingDecisionAssumption
<1>2. \E w \in WeightNames : Weights[w] > 0
  BY HealingDecisionAssumption
<1> QED BY <1>1, <1>2 DEF Total, WeightNames

LEMMA ScoreFits ==
  ASSUME NEW c, c.similar \in [WeightNames -> Rates]
  PROVE  score_candidate(c) \in Int
<1> DEFINE f == [w \in WeightNames |-> Weights[w] * c.similar[w]]
<1>1. \A w \in WeightNames : f[w] \in Nat
  <2> TAKE w \in WeightNames
  <2>1. Weights[w] \in Nat /\ c.similar[w] \in Nat
    BY TotalFits DEF Rates
  <2> QED BY <2>1
<1> HIDE DEF f
<1>2. Total(f) \in Nat
  BY <1>1 DEF Total, WeightNames
<1>3. Total(Weights) \in Nat /\ Total(Weights) > 0
  BY TotalFits
<1>4. Total(f) \div Total(Weights) \in Int
  BY <1>2, <1>3
<1> QED BY <1>4 DEF score_candidate, f

LEMMA Half ==
  ASSUME NEW a \in Nat, NEW b \in Nat, NEW total \in Nat, total > 0, NEW min \in Nat,
         NEW rate \in Rates, 100 * (a + b) < min * total
  PROVE  (a * 100 + b * rate) \div total < min
<1>1. b * rate <= b * 100
  BY DEF Rates
<1> DEFINE n == a * 100 + b * rate
           q == n \div total
<1>2. n \in Nat /\ n < min * total
  <2>1. b * rate \in Nat /\ a * 100 \in Nat /\ min * total \in Nat
    BY DEF Rates
  <2> QED BY <1>1, <2>1
<1> HIDE DEF n
<1>3. q \in Nat /\ q * total <= n
  BY <1>2
<1> HIDE DEF q
<1>4. CASE q >= min
  <2>1. q * total >= min * total
    BY <1>3, <1>4
  <2>2. q * total \in Nat /\ min * total \in Nat
    BY <1>3
  <2> QED BY <1>2, <1>3, <2>1, <2>2
<1>5. CASE ~(q >= min)
  BY <1>3, <1>5 DEF q, n
<1> QED BY <1>4, <1>5

LEMMA PrecedentScore ==
  ASSUME NEW c, NEW rate \in Rates, c.similar = Precedent(rate), PrecedentsAreWeak
  PROVE  score_candidate(c) < MinScore
<1> DEFINE f == [w \in WeightNames |-> Weights[w] * c.similar[w]]
           a == Weights["historical"]
           b == Weights["healing_history"]
<1>1. /\ c.similar["historical"] = 100 /\ c.similar["healing_history"] = rate
      /\ \A w \in WeightNames \ {"historical", "healing_history"} : c.similar[w] = 0
  BY DEF Precedent, WeightNames
<1>2. a \in Nat /\ b \in Nat /\ \A w \in WeightNames : Weights[w] \in Nat
  BY TotalFits DEF WeightNames
<1>3. \A w \in WeightNames \ {"historical", "healing_history"} : f[w] = 0
  BY <1>1, <1>2
<1>4. f["historical"] = a * 100 /\ f["healing_history"] = b * rate
  BY <1>1 DEF WeightNames
<1> HIDE DEF f
<1>5. Total(f) = a * 100 + b * rate
  <2>1. f["text"] = 0 /\ f["role"] = 0 /\ f["type"] = 0 /\ f["page"] = 0 /\ f["name"] = 0
        /\ f["stable_attribute"] = 0
    BY <1>3 DEF WeightNames
  <2>2. a * 100 \in Nat /\ b * rate \in Nat
    BY <1>2 DEF Rates
  <2> QED BY <1>4, <2>1, <2>2 DEF Total
<1>6. Total(Weights) \in Nat /\ Total(Weights) > 0 /\ MinScore \in Nat
  BY TotalFits, RecoveryPolicyAssumption
<1>7. (a * 100 + b * rate) \div Total(Weights) < MinScore
  BY <1>2, <1>6, Half DEF PrecedentsAreWeak
<1> QED BY <1>5, <1>7 DEF score_candidate, f

(* The rate of successes among the records. *)
LEMMA RateFits ==
  ASSUME NEW records, IsList(records)
  PROVE  _compute_healing_history_score(records) \in Rates
<1> DEFINE Passed == {i \in DOMAIN records : records[i].ok = "yes"}
<1>1. Len(records) \in Nat /\ DOMAIN records = 1..Len(records) /\ IsFiniteSet(DOMAIN records)
  BY ListFits
<1>2. Cardinality(Passed) \in Nat /\ Cardinality(Passed) <= Len(records)
  <2>1. Passed \subseteq DOMAIN records
    OBVIOUS
  <2>2. Cardinality(DOMAIN records) = Len(records)
    <3>1. Cardinality(1..Len(records)) = IF 1 <= Len(records) THEN Len(records) - 1 + 1 ELSE 0
      BY <1>1, FS_Interval
    <3> QED BY <1>1, <3>1
  <2> HIDE DEF Passed
  <2> QED BY <1>1, <2>1, <2>2, FS_Subset, FS_CardinalityType
<1>3. CASE records = << >>
  BY <1>3 DEF _compute_healing_history_score, Rates
<1>4. CASE records # << >>
  <2>1. Len(records) > 0
    BY <1>1, <1>4 DEF IsList
  <2>2. _compute_healing_history_score(records) = (100 * Cardinality(Passed)) \div Len(records)
    BY <1>4 DEF _compute_healing_history_score
  <2> HIDE DEF Passed
  <2> DEFINE p == Cardinality(Passed)
             n == Len(records)
  <2>3. p \in Nat /\ n \in Nat /\ n > 0 /\ p <= n
    BY <1>1, <1>2, <2>1
  <2> HIDE DEF p, n
  <2> DEFINE q == (100 * p) \div n
  <2>4. q >= 0 /\ q <= 100 /\ q \in Int
    BY <2>3
  <2>5. _compute_healing_history_score(records) = q
    BY <2>2 DEF p, n
  <2> HIDE DEF q
  <2> QED BY <2>4, <2>5 DEF Rates
<1> QED BY <1>3, <1>4

(* The records of a store are found in a list, of at most so many. *)
LEMMA ByTimeFits ==
  ASSUME NEW list, Numbered(list), NEW limit \in Nat
  PROVE  IsList(ByTime(list, limit))
<1> DEFINE all == Cardinality(DOMAIN list)
           size == IF all < limit THEN all ELSE limit
<1>1. IsFiniteSet(DOMAIN list)
  <2>1. PICK b \in Nat : \A i \in DOMAIN list : i <= b
    BY DEF Numbered
  <2>2. DOMAIN list \subseteq 0..b
    BY <2>1 DEF Numbered
  <2>3. IsFiniteSet(0..b)
    BY <2>1, FS_Interval
  <2> QED BY <2>2, <2>3, FS_Subset
<1>2. all \in Nat
  BY <1>1, FS_CardinalityType
<1> HIDE DEF all
<1>3. size \in Nat
  BY <1>2
<1>4. DOMAIN ByTime(list, limit) = 1..size
  BY DEF ByTime, all
<1>5. ByTime(list, limit) = [k \in 1..size |-> ByTime(list, limit)[k]]
  BY DEF ByTime, all
<1> QED BY <1>3, <1>4, <1>5, ListOf

LEMMA HistoryFits ==
  ASSUME NEW list, Numbered(list), NEW old, NEW new
  PROVE  /\ IsList(get_healing_history(list, old, 10))
         /\ _compute_healing_history_score(get_healing_history_for_replacement(list, old, new, 20)) \in Rates
<1> DEFINE these == Where(list, LAMBDA r : r.kind = "healing" /\ r.old = old)
           those == Where(list, LAMBDA r : r.kind = "healing" /\ r.old = old /\ r.new = new)
<1>1. DOMAIN these \subseteq DOMAIN list /\ DOMAIN those \subseteq DOMAIN list
  BY DEF Where
<1>2. get_healing_history(list, old, 10) = ByTime(these, 10)
  BY DEF get_healing_history
<1>3. get_healing_history_for_replacement(list, old, new, 20) = ByTime(those, 20)
  BY DEF get_healing_history_for_replacement
<1> HIDE DEF these, those
<1>4. Numbered(these) /\ Numbered(those)
  BY <1>1 DEF Numbered
<1>5. IsList(ByTime(these, 10)) /\ IsList(ByTime(those, 20))
  BY <1>4, ByTimeFits
<1> QED BY <1>2, <1>3, <1>5, RateFits

-----------------------------------------------------------------------------
(* The candidates: elements of the page, or precedents. *)

RatesFit(of) == \A new \in DOMAIN of : _compute_healing_history_score(of[new]) \in Rates

Offered(c, dom, target, of) ==
  /\ c = Candidate(c.selector, c.source, c.similar)
  /\ c.selector \in DOMAIN of
  /\ c.similar \in [WeightNames -> Rates]
  /\ Stands(c.selector, dom, target) \/ \E rate \in Rates : c.similar = Precedent(rate)

AllOffered(cands, dom, target, of) == IsList(cands) /\ \A i \in DOMAIN cands : Offered(cands[i], dom, target, of)

LEMMA CandidateFields ==
  ASSUME NEW selector, NEW source, NEW similar, NEW c, c = Candidate(selector, source, similar)
  PROVE  c.selector = selector /\ c.source = source /\ c.similar = similar /\ c = Candidate(c.selector, c.source, c.similar)
BY DEF Candidate

LEMMA CurrentOffered ==
  ASSUME NEW previous, NEW current, IsList(current), NEW dom, NEW target, NEW of,
         \A i \in DOMAIN current : Stands(current[i].selector, dom, target) /\ current[i].selector \in DOMAIN of
  PROVE  AllOffered(_generate_from_current_elements(previous, current), dom, target, of)
<1> DEFINE mine == {i \in DOMAIN current : current[i].selector # previous.selector}
           others == Picked(current, mine)
           found == [i \in DOMAIN others |->
                       Candidate(others[i].selector, "CURRENT_DOM", _compute_similarity(previous, others[i]))]
<1>1. _generate_from_current_elements(previous, current) = << >> \o found
  BY DEF _generate_from_current_elements
<1>2. IsList(others) /\ \A k \in DOMAIN others : Nth(mine, k) \in mine /\ others[k] = current[Nth(mine, k)]
  <2>1. mine \subseteq DOMAIN current
    OBVIOUS
  <2> HIDE DEF mine
  <2> QED BY <2>1, PickedFits
<1>3. \A k \in DOMAIN others : Stands(others[k].selector, dom, target) /\ others[k].selector \in DOMAIN of
  BY <1>2
<1> HIDE DEF others
<1>4. IsList(found) /\ DOMAIN found = DOMAIN others
  <2>1. DOMAIN found = DOMAIN others /\ found = [i \in DOMAIN others |-> found[i]]
    OBVIOUS
  <2> HIDE DEF found
  <2> QED BY <1>2, <2>1, MadeList
<1>5. ASSUME NEW k \in DOMAIN found
      PROVE  Offered(found[k], dom, target, of)
  <2> DEFINE similar == _compute_similarity(previous, others[k])
  <2>1. found[k] = Candidate(others[k].selector, "CURRENT_DOM", similar)
    BY <1>4
  <2>2. similar \in [WeightNames -> Rates]
    <3>1. \A a, b : _exact_match(a, b) \in Rates
      BY DEF _exact_match, Rates
    <3>2. \A a, b : _stable_attribute_match(a, b) \in Rates
      BY <3>1 DEF _stable_attribute_match
    <3>3. 0 \in Rates
      BY DEF Rates
    <3> HIDE DEF Rates
    <3> QED BY <3>1, <3>2, <3>3 DEF _compute_similarity, WeightNames
  <2> HIDE DEF similar, found
  <2>3. /\ found[k].selector = others[k].selector /\ found[k].similar = similar
        /\ found[k] = Candidate(found[k].selector, found[k].source, found[k].similar)
    BY <2>1, CandidateFields
  <2> QED BY <1>3, <1>4, <2>2, <2>3 DEF Offered
<1> HIDE DEF found
<1>6. << >> \o found = found
  BY <1>4, AtOnce
<1> QED BY <1>1, <1>4, <1>5, <1>6 DEF AllOffered

LEMMA PrecedentFits ==
  ASSUME NEW rate \in Rates
  PROVE  Precedent(rate) \in [WeightNames -> Rates]
BY DEF Precedent, WeightNames, Rates

LEMMA PastOffered ==
  ASSUME NEW history, IsList(history), NEW dom, NEW target, NEW of, RatesFit(of),
         \A i \in DOMAIN history : history[i].new \in DOMAIN of
  PROVE  AllOffered(_generate_from_historical_memory(history, of), dom, target, of)
<1> DEFINE good == {i \in DOMAIN history : history[i].ok = "yes"}
           chosen == Picked(history, good)
           found == [i \in DOMAIN chosen |->
                       Candidate(chosen[i].new, "HISTORICAL_MEMORY",
                                 Precedent(_compute_healing_history_score(of[chosen[i].new])))]
<1>1. _generate_from_historical_memory(history, of) = << >> \o found
  BY DEF _generate_from_historical_memory
<1>2. IsList(chosen) /\ \A k \in DOMAIN chosen : Nth(good, k) \in good /\ chosen[k] = history[Nth(good, k)]
  <2>1. good \subseteq DOMAIN history
    OBVIOUS
  <2> HIDE DEF good
  <2> QED BY <2>1, PickedFits
<1>3. \A k \in DOMAIN chosen : chosen[k].new \in DOMAIN of
  BY <1>2
<1> HIDE DEF chosen
<1>4. IsList(found) /\ DOMAIN found = DOMAIN chosen
  <2>1. DOMAIN found = DOMAIN chosen /\ found = [i \in DOMAIN chosen |-> found[i]]
    OBVIOUS
  <2> HIDE DEF found
  <2> QED BY <1>2, <2>1, MadeList
<1>5. ASSUME NEW k \in DOMAIN found
      PROVE  Offered(found[k], dom, target, of)
  <2> DEFINE rate == _compute_healing_history_score(of[chosen[k].new])
  <2>1. found[k] = Candidate(chosen[k].new, "HISTORICAL_MEMORY", Precedent(rate))
    BY <1>4
  <2>2. rate \in Rates
    BY <1>3, <1>4 DEF RatesFit
  <2> HIDE DEF rate, found
  <2>3. /\ found[k].selector = chosen[k].new /\ found[k].similar = Precedent(rate)
        /\ found[k] = Candidate(found[k].selector, found[k].source, found[k].similar)
    BY <2>1, CandidateFields
  <2> QED BY <1>3, <1>4, <2>2, <2>3, PrecedentFits DEF Offered
<1> HIDE DEF found
<1>6. << >> \o found = found
  BY <1>4, AtOnce
<1> QED BY <1>1, <1>4, <1>5, <1>6 DEF AllOffered

LEMMA GeneratedOffered ==
  ASSUME NEW known, NEW previous, NEW current, NEW history, NEW dom, NEW target, NEW of,
         IsList(current), IsList(history), RatesFit(of),
         \A i \in DOMAIN current : Stands(current[i].selector, dom, target) /\ current[i].selector \in DOMAIN of,
         \A i \in DOMAIN history : history[i].new \in DOMAIN of
  PROVE  AllOffered(generate_candidates(known, previous, current, history, of), dom, target, of)
<1> DEFINE here == _generate_from_current_elements(previous, current)
           seen == IF known THEN here ELSE << >>
           past == _generate_from_historical_memory(history, of)
           other == {k \in DOMAIN past : \A i \in DOMAIN seen : seen[i].selector # past[k].selector}
           rest == Picked(past, other)
<1>1. generate_candidates(known, previous, current, history, of) = seen \o rest
  BY DEF generate_candidates
<1>2. AllOffered(here, dom, target, of) /\ AllOffered(past, dom, target, of)
  BY CurrentOffered, PastOffered
<1> HIDE DEF here, past
<1>3. AllOffered(seen, dom, target, of)
  <2>1. CASE known
    BY <1>2, <2>1
  <2>2. CASE ~known
    <3>1. seen = << >>
      BY <2>2
    <3> HIDE DEF seen
    <3> QED BY <3>1, EmptyList DEF AllOffered
  <2> QED BY <2>1, <2>2
<1> HIDE DEF seen
<1>4. IsList(rest) /\ \A k \in DOMAIN rest : Nth(other, k) \in other /\ rest[k] = past[Nth(other, k)]
  <2>1. other \subseteq DOMAIN past
    OBVIOUS
  <2> HIDE DEF other
  <2> QED BY <1>2, <2>1, PickedFits DEF AllOffered
<1>5. \A k \in DOMAIN rest : Offered(rest[k], dom, target, of)
  BY <1>2, <1>4 DEF AllOffered
<1> HIDE DEF rest
<1> DEFINE all == seen \o rest
<1>6. /\ IsList(all)
      /\ \A i \in DOMAIN all : \/ i \in DOMAIN seen /\ all[i] = seen[i]
                               \/ i - Len(seen) \in DOMAIN rest /\ i \notin DOMAIN seen /\ all[i] = rest[i - Len(seen)]
  BY <1>3, <1>4, JoinedFits DEF AllOffered
<1> HIDE DEF all
<1>7. \A i \in DOMAIN all : Offered(all[i], dom, target, of)
  BY <1>3, <1>5, <1>6 DEF AllOffered
<1>8. AllOffered(all, dom, target, of)
  BY <1>6, <1>7 DEF AllOffered
<1> QED BY <1>1, <1>8 DEF all

LEMMA EnrichedOffered ==
  ASSUME NEW cands, NEW dom, NEW target, NEW of, RatesFit(of), AllOffered(cands, dom, target, of)
  PROVE  AllOffered(_enrich_with_healing_evidence(cands, of), dom, target, of)
<1> DEFINE rich == _enrich_with_healing_evidence(cands, of)
<1>1. /\ DOMAIN rich = DOMAIN cands /\ rich = [i \in DOMAIN cands |-> rich[i]]
      /\ \A i \in DOMAIN cands :
           rich[i] = IF cands[i].similar.healing_history > 0 THEN cands[i]
                     ELSE [cands[i] EXCEPT !.similar.healing_history = _compute_healing_history_score(of[cands[i].selector])]
  BY DEF _enrich_with_healing_evidence
<1> HIDE DEF rich
<1>2. IsList(rich)
  BY <1>1, MadeList DEF AllOffered
<1>3. ASSUME NEW i \in DOMAIN cands
      PROVE  Offered(rich[i], dom, target, of)
  <2>1. Offered(cands[i], dom, target, of)
    BY DEF AllOffered
  <2>2. CASE cands[i].similar.healing_history > 0
    BY <1>1, <2>1, <2>2
  <2>3. CASE ~(cands[i].similar.healing_history > 0)
    <3>1. PICK selector, source, similar :
            cands[i] = [selector |-> selector, source |-> source, similar |-> similar, confidence |-> 0]
      BY <2>1 DEF Offered, Candidate
    <3>2. PICK rate \in Rates : rate = _compute_healing_history_score(of[selector])
      BY <2>1, <3>1 DEF Offered, RatesFit
    <3> DEFINE better == [similar EXCEPT !["healing_history"] = rate]
    <3>3. rich[i] = Candidate(selector, source, better)
      <4>1. rich[i] = [cands[i] EXCEPT !.similar.healing_history = rate]
        BY <1>1, <2>3, <3>1, <3>2
      <4> QED BY <4>1, <3>1 DEF Candidate
    <3>4. similar \in [WeightNames -> Rates] /\ selector \in DOMAIN of
          /\ (Stands(selector, dom, target) \/ \E old \in Rates : similar = Precedent(old))
      BY <2>1, <3>1 DEF Offered
    <3>5. better \in [WeightNames -> Rates]
      BY <3>4
    <3>6. \A old \in Rates : similar = Precedent(old) => better = Precedent(rate)
      BY DEF Precedent, WeightNames
    <3> HIDE DEF better
    <3>7. /\ rich[i].selector = selector /\ rich[i].similar = better
          /\ rich[i] = Candidate(rich[i].selector, rich[i].source, rich[i].similar)
      BY <3>3, CandidateFields
    <3> QED BY <3>4, <3>5, <3>6, <3>7 DEF Offered
  <2> QED BY <2>2, <2>3
<1>4. AllOffered(rich, dom, target, of)
  BY <1>1, <1>2, <1>3 DEF AllOffered
<1> QED BY <1>4 DEF rich

(* Whatever scores high enough to be tried is an element of the page. *)
HighStand(ranked, dom, target) ==
  /\ IsList(ranked)
  /\ \A k \in DOMAIN ranked : ranked[k].confidence >= MinScore => Stands(ranked[k].selector, dom, target)

LEMMA RankedStand ==
  ASSUME PrecedentsAreWeak,
         NEW type, NEW known, NEW previous, NEW current, NEW history, NEW dom, NEW target, NEW of,
         IsList(current), IsList(history), RatesFit(of),
         \A i \in DOMAIN current : Stands(current[i].selector, dom, target) /\ current[i].selector \in DOMAIN of,
         \A i \in DOMAIN history : history[i].new \in DOMAIN of
  PROVE  HighStand(RankedFor(type, known, previous, current, history, of), dom, target)
<1> DEFINE found == generate_candidates(known, previous, current, history, of)
           rich  == _enrich_with_healing_evidence(found, of)
<1>1. CASE type \in _NON_HEALABLE_FAILURES
  <2>1. RankedFor(type, known, previous, current, history, of) = << >>
    BY <1>1 DEF RankedFor
  <2> QED BY <2>1, EmptyList DEF HighStand
<1>2. CASE type \notin _NON_HEALABLE_FAILURES
  <2>1. RankedFor(type, known, previous, current, history, of) = rank_candidates(rich)
    BY <1>2 DEF RankedFor
  <2>2. AllOffered(found, dom, target, of)
    BY GeneratedOffered
  <2> HIDE DEF found
  <2>3. AllOffered(rich, dom, target, of)
    BY <2>2, EnrichedOffered
  <2> HIDE DEF rich
  <2>4. IsList(rich) /\ \A i \in DOMAIN rich :
          /\ rich[i] = Candidate(rich[i].selector, rich[i].source, rich[i].similar)
          /\ rich[i].similar \in [WeightNames -> Rates]
          /\ Stands(rich[i].selector, dom, target) \/ \E rate \in Rates : rich[i].similar = Precedent(rate)
    BY <2>3 DEF AllOffered, Offered
  <2>5. \A i \in DOMAIN rich : score_candidate(rich[i]) \in Int
    BY <2>4, ScoreFits
  <2>6. \A i \in DOMAIN rich : Stands(rich[i].selector, dom, target) \/ score_candidate(rich[i]) < MinScore
    BY <2>4, PrecedentScore
  <2> DEFINE ranked == rank_candidates(rich)
  <2>7. /\ IsList(ranked)
        /\ \A k \in DOMAIN ranked : \E i \in DOMAIN rich :
             /\ ranked[k].selector = rich[i].selector
             /\ ranked[k].confidence = score_candidate(rich[i])
    BY <2>4, <2>5, RankedFits
  <2> HIDE DEF ranked
  <2>8. HighStand(ranked, dom, target)
    <3> SUFFICES ASSUME NEW k \in DOMAIN ranked, ranked[k].confidence >= MinScore
                 PROVE  Stands(ranked[k].selector, dom, target)
      BY <2>7 DEF HighStand
    <3>1. PICK i \in DOMAIN rich : ranked[k].selector = rich[i].selector
                                   /\ ranked[k].confidence = score_candidate(rich[i])
      BY <2>7
    <3>2. ~(score_candidate(rich[i]) < MinScore)
      <4>1. score_candidate(rich[i]) \in Int /\ MinScore \in Int
        BY <2>5, RecoveryPolicyAssumption
      <4> QED BY <3>1, <4>1
    <3> QED BY <2>6, <3>1, <3>2
  <2> QED BY <2>1, <2>8 DEF ranked
<1> QED BY <1>1, <1>2

LEMMA SlimStands ==
  ASSUME NEW ranked, NEW dom, NEW target, HighStand(ranked, dom, target)
  PROVE  HighStand(Slim(ranked), dom, target)
<1> DEFINE thin == [i \in DOMAIN ranked |-> [selector |-> ranked[i].selector, confidence |-> ranked[i].confidence]]
<1>1. Slim(ranked) = << >> \o thin
  BY DEF Slim
<1>2. DOMAIN thin = DOMAIN ranked /\ thin = [i \in DOMAIN ranked |-> thin[i]]
      /\ \A i \in DOMAIN ranked : thin[i].selector = ranked[i].selector /\ thin[i].confidence = ranked[i].confidence
  OBVIOUS
<1> HIDE DEF thin
<1>3. IsList(thin)
  BY <1>2, MadeList DEF HighStand
<1>4. << >> \o thin = thin
  BY <1>3, AtOnce
<1>5. HighStand(thin, dom, target)
  BY <1>2, <1>3 DEF HighStand
<1> QED BY <1>1, <1>4, <1>5

(* The policy tries what scores high enough, and nothing else. *)
LEMMA TriedStands ==
  ASSUME NEW ranked, NEW dom, NEW target, HighStand(ranked, dom, target),
         NEW attempted, NEW d, d.action = "TRY_HEALING",
         _evaluate_healing(ranked, _filter_eligible_candidates(ranked, attempted), d)
  PROVE  Stands(d.selected, dom, target)
<1>1. PICK best \in _filter_eligible_candidates(ranked, attempted) :
        d = IF Ambiguous(ranked, best, _filter_eligible_candidates(ranked, attempted) \ {best})
            THEN Decide("REQUIRE_FURTHER_ANALYSIS")
            ELSE IF Trusted(ranked[best]) THEN [action |-> "TRY_HEALING", selected |-> ranked[best].selector]
            ELSE Decide("DO_NOT_HEAL")
  BY DEF _evaluate_healing
<1>2. d = [action |-> "TRY_HEALING", selected |-> ranked[best].selector]
  BY <1>1 DEF Decide
<1>3. Stands(ranked[best].selector, dom, target)
  BY DEF HighStand, _filter_eligible_candidates
<1> QED BY <1>2, <1>3

LEMMA EvaluateStands ==
  ASSUME NEW ranked, NEW dom, NEW target, HighStand(ranked, dom, target),
         NEW type, NEW count, NEW retries, NEW attempted, NEW d, d.action = "TRY_HEALING",
         evaluate(type, ranked, count, retries, attempted, d) \/ evaluate_continuation(ranked, count, attempted, d)
  PROVE  Stands(d.selected, dom, target)
<1>1. \A a : Decide(a).action = a
  BY DEF Decide
<1>2. _evaluate_healing(ranked, _filter_eligible_candidates(ranked, attempted), d)
  BY <1>1 DEF evaluate, evaluate_continuation
<1> QED BY <1>2, TriedStands

-----------------------------------------------------------------------------
(* Where a run is with what it tries. *)

Placed(r, target) ==
  /\ r.proc \in Procs
  /\ r.pc \in {"submit", "recommend", "validate", "feedback"} => IsList(r.dom)
  /\ r.pc \in {"validate", "feedback"} => HighStand(r.ranked, r.dom, target)
  /\ r.pc = "validate" => Stands(r.selected, r.dom, target)

TriedInv == \A t \in Tests : Placed(run[t], Target[t])

LEMMA PlacedAfter ==
  ASSUME NEW t \in Tests, NEW r, Placed(r, Target[t])
  PROVE  RunInv /\ TriedInv /\ run' = [run EXCEPT ![t] = r] => TriedInv'
<1> SUFFICES ASSUME RunInv, TriedInv, run' = [run EXCEPT ![t] = r]
             PROVE  TriedInv'
  OBVIOUS
<1>1. \A u \in Tests : (run'[u] = r /\ u = t) \/ run'[u] = run[u]
  BY DEF RunInv
<1>2. \A u \in Tests : Placed(run'[u], Target[u])
  BY <1>1 DEF TriedInv
<1>3. \A u \in Tests : Placed(run[u], Target[u])' <=> Placed(run'[u], Target[u])
  BY DEF Placed
<1> QED BY <1>2, <1>3 DEF TriedInv

LEMMA IdlePlaced == \A target : Placed(Idle, target)
BY AgentMemoryAssumption DEF Placed, Idle

LEMMA GivesUpPlaced ==
  ASSUME RunInv, TriedInv, NEW t \in Tests, GivesUp(t)
  PROVE  TriedInv'
BY IdlePlaced, PlacedAfter DEF GivesUp

LEMMA ProceedsPlaced ==
  ASSUME RunInv, TriedInv, NEW t \in Tests, NEW r, NEW d,
         r = [x \in RunFields |-> r[x]], r.proc \in Procs, IsList(r.dom),
         HighStand(r.ranked, r.dom, Target[t]),
         d.action = "TRY_HEALING" => Stands(d.selected, r.dom, Target[t]), Proceeds(t, r, d)
  PROVE  TriedInv'
<1>1. CASE d.action = "TRY_HEALING"
  <2> DEFINE q == [r EXCEPT !.pc = "validate", !.selected = d.selected,
                            !.attempted = @ \union {d.selected}, !.count = @ + 1]
  <2>1. q.proc = r.proc /\ q.pc = "validate" /\ q.dom = r.dom /\ q.ranked = r.ranked /\ q.selected = d.selected
    BY DEF RunFields
  <2>2. run' = [run EXCEPT ![t] = q]
    BY <1>1 DEF Proceeds
  <2> HIDE DEF q
  <2>3. Placed(q, Target[t])
    BY <1>1, <2>1 DEF Placed
  <2> QED BY <2>2, <2>3, PlacedAfter
<1>2. CASE d.action # "TRY_HEALING"
  BY <1>2, GivesUpPlaced DEF Proceeds
<1> QED BY <1>1, <1>2

LEMMA BrowserPlaced ==
  ASSUME RunInv, TriedInv, NEW t \in Tests, NEW p \in Procs, NEW dom \in Doms[t], BrowserRun(t, p, dom)
  PROVE  TriedInv'
<1>1. Idle = [x \in RunFields |-> Idle[x]]
  BY IdleChecked
<1>2. CASE RunPasses(t, p, dom)
  <2> DEFINE q == [Idle EXCEPT !.pc = "learn", !.proc = p, !.dom = dom, !.passed = TRUE]
  <2>1. q.pc = "learn" /\ q.proc = p
    BY <1>1 DEF RunFields
  <2>2. run' = [run EXCEPT ![t] = q]
    BY <1>2 DEF RunPasses
  <2> HIDE DEF q
  <2>3. Placed(q, Target[t])
    BY <2>1 DEF Placed
  <2> QED BY <2>2, <2>3, PlacedAfter
<1>3. CASE \E selector \in Selectors : RunHealed(t, p, dom, selector)
  <2> DEFINE q == [Idle EXCEPT !.pc = "learn", !.proc = p, !.passed = TRUE]
  <2>1. q.pc = "learn" /\ q.proc = p
    BY <1>1 DEF RunFields
  <2>2. run' = [run EXCEPT ![t] = q]
    BY <1>3 DEF RunHealed
  <2> HIDE DEF q
  <2>3. Placed(q, Target[t])
    BY <2>1 DEF Placed
  <2> QED BY <2>2, <2>3, PlacedAfter
<1>4. CASE \E f \in SeenFailures[t] \union Missing : RunFails(t, p, dom, f)
  <2>1. PICK f \in SeenFailures[t] \union Missing : RunFails(t, p, dom, f)
    BY <1>4
  <2>2. PICK n : n = IF run[t].pc = "again" THEN run[t].retries ELSE 0
    OBVIOUS
  <2> DEFINE q == [Idle EXCEPT !.pc = "submit", !.proc = p, !.dom = dom, !.failure = f, !.retries = n]
  <2>3. q.pc = "submit" /\ q.proc = p /\ q.dom = dom
    BY <1>1 DEF RunFields
  <2>4. run' = [run EXCEPT ![t] = q]
    BY <2>1, <2>2 DEF RunFails
  <2> HIDE DEF q
  <2>5. Placed(q, Target[t])
    BY <2>3, HealingLoopAssumption DEF Placed
  <2> QED BY <2>4, <2>5, PlacedAfter
<1> QED BY <1>2, <1>3, <1>4 DEF BrowserRun

LEMMA DiagnosePlaced ==
  ASSUME RunInv, TriedInv, NEW t \in Tests, Diagnose(t)
  PROVE  TriedInv'
<1> DEFINE r == run[t]
           K == Elements(index[r.proc], Target[t])
<1>1. PICK known \in BOOLEAN : known = (K # {})
  OBVIOUS
<1>2. PICK previous : previous = IF K = {} THEN {} ELSE {Newest(K).element}
  OBVIOUS
<1>3. PICK a \in analyze(r.failure, K # {}, FALSE, Diagnoses) :
        LET policy   == get_failure_policy(a.type)
            analysed == [r EXCEPT !.type = a.type, !.known = K # {},
                                  !.previous = IF K = {} THEN {} ELSE {Newest(K).element}]
        IN IF ~MayRetry(policy, r.retries) /\ ~policy.healable THEN GivesUp(t)
           ELSE /\ run' = [run EXCEPT ![t] = IF MayRetry(policy, r.retries)
                                             THEN [analysed EXCEPT !.pc = "again", !.retries = @ + 1]
                                             ELSE [analysed EXCEPT !.pc = "recommend"]]
                /\ UNCHANGED <<made, writer>>
  BY DEF Diagnose
<1> DEFINE analysed == [r EXCEPT !.type = a.type, !.known = known, !.previous = previous]
           again    == [analysed EXCEPT !.pc = "again", !.retries = @ + 1]
           onward   == [analysed EXCEPT !.pc = "recommend"]
<1>4. run' = [run EXCEPT ![t] = again] \/ run' = [run EXCEPT ![t] = onward] \/ GivesUp(t)
  BY <1>1, <1>2, <1>3
<1>5. r = [x \in RunFields |-> r[x]]
  BY DEF RunInv
<1>6. r.pc = "submit" /\ r.proc \in Procs /\ IsList(r.dom)
  BY DEF Diagnose, TriedInv, Placed
<1>7. again.pc = "again" /\ again.proc = r.proc
  BY <1>5 DEF RunFields
<1>8. onward.pc = "recommend" /\ onward.proc = r.proc /\ onward.dom = r.dom
  BY <1>5 DEF RunFields
<1> HIDE DEF again, onward, r
<1>9. Placed(again, Target[t]) /\ Placed(onward, Target[t])
  BY <1>6, <1>7, <1>8 DEF Placed
<1> QED BY <1>4, <1>9, PlacedAfter, GivesUpPlaced

(* The candidates of a run: those that score high enough are on its page. *)
LEMMA CandidatesStand ==
  ASSUME PrecedentsAreWeak, NEW t \in Tests, IsList(run[t].dom), Numbered(index[run[t].proc])
  PROVE  HighStand(CandidatesFor(t), run[t].dom, Target[t])
<1> DEFINE list     == index[run[t].proc]
           past     == get_healing_history(list, Target[t], 10)
           current  == Evidence(t)
           news     == {current[i].selector : i \in DOMAIN current} \union {past[i].new : i \in DOMAIN past}
           of       == [new \in news |-> get_healing_history_for_replacement(list, Target[t], new, 20)]
           previous == Previous(t)
           known    == previous # {}
           before   == IF previous = {} THEN Record(t, NoElement) ELSE CHOOSE e \in previous : TRUE
<1>1. CandidatesFor(t) = RankedFor(run[t].type, known, before, current, past, of)
  BY DEF CandidatesFor
<1>2. IsList(past) /\ \A new : _compute_healing_history_score(get_healing_history_for_replacement(list, Target[t], new, 20))
                                  \in Rates
  BY HistoryFits
<1>3. IsList(current) /\ \A i \in DOMAIN current : Stands(current[i].selector, run[t].dom, Target[t])
  <2> DEFINE tag == IF learned[t] = NoElement THEN "" ELSE learned[t].tag
  <2>1. current = dom_evidence(run[t].dom, Page[t], tag, Target[t])
    BY DEF Evidence
  <2> HIDE DEF current, tag
  <2> QED BY <2>1, EvidenceStands
<1> HIDE DEF past, current, previous, known, before
<1>4. RatesFit(of) /\ DOMAIN of = news
  BY <1>2 DEF RatesFit
<1>5. \A i \in DOMAIN current : current[i].selector \in DOMAIN of
  OBVIOUS
<1>6. \A i \in DOMAIN past : past[i].new \in DOMAIN of
  OBVIOUS
<1> HIDE DEF of
<1> QED BY <1>1, <1>2, <1>3, <1>4, <1>5, <1>6, RankedStand

LEMMA RecommendPlaced ==
  ASSUME PrecedentsAreWeak, MemoryInv, RunInv, TriedInv, \A p \in Procs : Numbered(index[p]),
         NEW t \in Tests, Recommend(t)
  PROVE  TriedInv'
<1> DEFINE r == run[t]
<1>1. PICK ranked \in {CandidatesFor(t)} :
        \E answer \in IF AsksModel(r.type, ranked) THEN Answers ELSE {NoAnswer}, d \in Decisions :
          /\ evaluate(r.type, ranked, r.count, r.retries, r.attempted, d)
          /\ Proceeds(t, [r EXCEPT !.ranked = Slim(ranked),
                                   !.recommendation = generate_recommendation(r.type, ranked, answer)], d)
  BY DEF Recommend
<1>2. PICK answer \in IF AsksModel(r.type, ranked) THEN Answers ELSE {NoAnswer} : \E d \in Decisions :
        /\ evaluate(r.type, ranked, r.count, r.retries, r.attempted, d)
        /\ Proceeds(t, [r EXCEPT !.ranked = Slim(ranked),
                                 !.recommendation = generate_recommendation(r.type, ranked, answer)], d)
  BY <1>1, Zenon
<1> DEFINE goesOn(d) ==
             /\ evaluate(r.type, ranked, r.count, r.retries, r.attempted, d)
             /\ Proceeds(t, [r EXCEPT !.ranked = Slim(ranked),
                                      !.recommendation = generate_recommendation(r.type, ranked, answer)], d)
<1>3. PICK d \in Decisions : goesOn(d)
  BY <1>2
<1>4. PICK slim, recommendation : slim = Slim(ranked)
                                  /\ recommendation = generate_recommendation(r.type, ranked, answer)
  OBVIOUS
<1> DEFINE q == [r EXCEPT !.ranked = slim, !.recommendation = recommendation]
<1>5. Proceeds(t, q, d)
  BY <1>4, <1>3
<1>6. r = [x \in RunFields |-> r[x]]
  BY DEF RunInv
<1>7. r.pc = "recommend" /\ r.proc \in Procs /\ IsList(r.dom)
  BY DEF Recommend, TriedInv, Placed
<1>8. q = [x \in RunFields |-> q[x]] /\ q.proc = r.proc /\ q.dom = r.dom /\ q.ranked = slim
  BY <1>6 DEF RunFields
<1>9. HighStand(ranked, r.dom, Target[t])
  BY <1>1, <1>7, CandidatesStand
<1>10. HighStand(slim, r.dom, Target[t])
  BY <1>4, <1>9, SlimStands
<1>11. d.action = "TRY_HEALING" => Stands(d.selected, r.dom, Target[t])
  <2>1. evaluate(r.type, ranked, r.count, r.retries, r.attempted, d)
    BY <1>3
  <2> HIDE DEF r, q
  <2> QED BY <2>1, <1>9, EvaluateStands
<1> HIDE DEF q, r
<1> QED BY <1>5, <1>7, <1>8, <1>10, <1>11, ProceedsPlaced

LEMMA ValidatePlaced ==
  ASSUME RunInv, TriedInv, NEW t \in Tests, NEW passed \in BOOLEAN, Validate(t, passed)
  PROVE  TriedInv'
<1> DEFINE r == run[t]
           q == [r EXCEPT !.pc = "feedback", !.passed = passed, !.previous = {}, !.recommendation = << >>]
<1>1. run' = [run EXCEPT ![t] = q] /\ r.pc = "validate"
  BY DEF Validate
<1>2. r = [x \in RunFields |-> r[x]] /\ Placed(r, Target[t])
  BY DEF RunInv, TriedInv
<1>3. q.pc = "feedback" /\ q.proc = r.proc /\ q.dom = r.dom /\ q.ranked = r.ranked
  BY <1>2 DEF RunFields
<1> HIDE DEF q, r
<1>4. Placed(q, Target[t])
  BY <1>1, <1>2, <1>3 DEF Placed
<1> QED BY <1>1, <1>4, PlacedAfter

LEMMA FeedbackPlaced ==
  ASSUME RunInv, TriedInv, NEW t \in Tests, Feedback(t)
  PROVE  TriedInv'
<1> DEFINE r == run[t]
           q == [Idle EXCEPT !.pc = "learn", !.proc = r.proc, !.dom = r.dom, !.selected = r.selected,
                             !.passed = TRUE]
<1>1. r = [x \in RunFields |-> r[x]] /\ Placed(r, Target[t]) /\ r.pc = "feedback"
  BY DEF RunInv, TriedInv, Feedback
<1>2. CASE run' = [run EXCEPT ![t] = q]
  <2>1. Idle = [x \in RunFields |-> Idle[x]]
    BY IdleChecked
  <2>2. q.pc = "learn" /\ q.proc = r.proc
    BY <2>1 DEF RunFields
  <2> HIDE DEF q, r
  <2>3. Placed(q, Target[t])
    BY <1>1, <2>2 DEF Placed
  <2> QED BY <1>2, <2>3, PlacedAfter
<1>3. CASE \E d \in Decisions : evaluate_continuation(r.ranked, r.count, r.attempted, d) /\ Proceeds(t, r, d)
  <2>1. PICK d \in Decisions : evaluate_continuation(r.ranked, r.count, r.attempted, d) /\ Proceeds(t, r, d)
    BY <1>3
  <2> HIDE DEF r
  <2>2. r.proc \in Procs /\ IsList(r.dom) /\ HighStand(r.ranked, r.dom, Target[t])
    BY <1>1 DEF Placed
  <2>3. d.action = "TRY_HEALING" => Stands(d.selected, r.dom, Target[t])
    BY <2>1, <2>2, EvaluateStands
  <2> QED BY <1>1, <2>1, <2>2, <2>3, ProceedsPlaced
<1> QED BY <1>2, <1>3 DEF Feedback

Numbers == \A p \in Procs : Numbered(index[p])

LEMMA InitPlaced == Init => TriedInv /\ Numbers
<1> SUFFICES ASSUME Init PROVE TriedInv /\ Numbers
  OBVIOUS
<1>1. (\A t \in Tests : run[t] = Idle) /\ \A p \in Procs : index[p] = << >>
  BY DEF Init, MemoryInit
<1>2. TriedInv
  BY <1>1, IdlePlaced DEF TriedInv
<1>3. Numbers
  BY <1>1, InEmpty DEF Numbers
<1> QED BY <1>2, <1>3

(* What becomes of the index of one process. *)
LEMMA IndexNumbered ==
  ASSUME MemoryInv, Numbers, NEW p, NEW list, p \in Procs => Numbered(list), index' = [index EXCEPT ![p] = list]
  PROVE  Numbers'
<1>1. \A q \in Procs : (index'[q] = list /\ q = p) \/ index'[q] = index[q]
  BY DEF MemoryInv, Shape
<1>2. \A q \in Procs : Numbered(index'[q])
  BY <1>1 DEF Numbers
<1> QED BY <1>2 DEF Numbers, Numbered

LEMMA SameNumbered ==
  ASSUME Numbers, UNCHANGED index
  PROVE  Numbers'
BY DEF Numbers, Numbered

LEMMA NextNumbered ==
  ASSUME MemoryInv, Numbers, [Next]_vars
  PROVE  Numbers'
<1>1. CASE \E t \in Tests : StoreInIndex(t)
  <2>1. PICK t \in Tests : StoreInIndex(t)
    BY <1>1
  <2> DEFINE p == writer[t].proc
             list == Add(index[p], Next1(t).record)
  <2>2. index' = [index EXCEPT ![p] = list]
    BY <2>1 DEF StoreInIndex
  <2>3. p \in Procs => Numbered(list)
    BY AddNumbered DEF Numbers
  <2> HIDE DEF p, list
  <2> QED BY <2>2, <2>3, IndexNumbered
<1>2. CASE \E p \in Procs, reachable \in BOOLEAN : Restart(p, reachable)
  <2>1. PICK p \in Procs, reachable \in BOOLEAN : Restart(p, reachable)
    BY <1>2
  <2> DEFINE list == IF reachable THEN _load(rows) ELSE << >>
  <2>2. index' = [index EXCEPT ![p] = list]
    BY <2>1 DEF Restart
  <2>3. Numbered(_load(rows))
    BY LoadDomain DEF MemoryInv, Shape, Numbered
  <2>4. Numbered(list)
    BY <2>3, InEmpty
  <2> HIDE DEF list
  <2> QED BY <2>2, <2>4, IndexNumbered
<1>3. CASE Clear
  <2> DEFINE list == << >>
  <2>1. index' = [index EXCEPT ![Api] = list]
    BY <1>3 DEF Clear
  <2>2. Numbered(list)
    BY InEmpty
  <2> HIDE DEF list
  <2> QED BY <2>1, <2>2, IndexNumbered
<1>4. CASE Replay
  <2> DEFINE list == Add(index[Api], eraser.replay[Oldest(eraser.replay)])
  <2>1. index' = [index EXCEPT ![Api] = list]
    BY <1>4 DEF Replay
  <2>2. Numbered(list)
    BY AddNumbered, AgentMemoryAssumption DEF Numbers
  <2> HIDE DEF list
  <2> QED BY <2>1, <2>2, IndexNumbered
<1>5. CASE UNCHANGED index
  BY <1>5, SameNumbered
<1>6. ASSUME NEW t \in Tests, NEW p, NEW dom, BrowserRun(t, p, dom)
      PROVE  UNCHANGED index
  BY <1>6 DEF BrowserRun, RunPasses, RunHealed, RunFails
<1>7. ASSUME NEW t \in Tests, \/ Diagnose(t) \/ Recommend(t) \/ Feedback(t) \/ Finish(t) \/ StoreFails(t)
                             \/ \E passed \in BOOLEAN : Validate(t, passed)
      PROVE  UNCHANGED index
  BY <1>7 DEF Diagnose, Recommend, Feedback, Finish, StoreFails, PersistFails, Validate, memory_vars
<1>8. ASSUME NEW t \in Tests, Stores(t)
      PROVE  UNCHANGED index \/ StoreInIndex(t)
  BY <1>8 DEF Stores, StoreSkipped, Persist
<1>9. ASSUME Erasure
      PROVE  UNCHANGED index \/ Clear \/ Replay
  BY <1>9 DEF Erasure, DeleteRows, Find, FindFails
<1>10. ASSUME NEW p \in Procs, NEW reachable \in BOOLEAN, Restarts(p, reachable)
       PROVE  Restart(p, reachable)
  BY <1>10 DEF Restarts
<1>11. UNCHANGED vars => UNCHANGED index
  BY DEF vars, memory_vars
<1> QED BY <1>1, <1>2, <1>3, <1>4, <1>5, <1>6, <1>7, <1>8, <1>9, <1>10, <1>11 DEF Next

LEMMA SamePlaced ==
  ASSUME TriedInv, UNCHANGED run
  PROVE  TriedInv'
BY DEF TriedInv, Placed

LEMMA NextPlaced ==
  ASSUME PrecedentsAreWeak, MemoryInv, RunInv, Numbers, TriedInv, [Next]_vars
  PROVE  TriedInv'
<1>1. CASE \E t \in Tests : \E p \in Procs : \E dom \in Doms[t] : BrowserRun(t, p, dom)
  BY <1>1, BrowserPlaced
<1>2. CASE \E t \in Tests : Diagnose(t) \/ Feedback(t)
  BY <1>2, DiagnosePlaced, FeedbackPlaced
<1>3. CASE \E t \in Tests : Recommend(t)
  BY <1>3, RecommendPlaced DEF Numbers
<1>4. CASE \E t \in Tests, passed \in BOOLEAN : Validate(t, passed)
  BY <1>4, ValidatePlaced
<1>5. CASE \E t \in Tests : Finish(t) \/ StoreFails(t)
  <2>1. PICK t \in Tests : Finish(t) \/ StoreFails(t)
    BY <1>5
  <2>2. run' = [run EXCEPT ![t] = Idle]
    BY <2>1 DEF Finish, StoreFails
  <2> QED BY <2>2, IdlePlaced, PlacedAfter
<1>6. CASE \E t \in Tests : Stores(t)
  BY <1>6, SamePlaced DEF Stores
<1>7. CASE \E p \in Procs, reachable \in BOOLEAN : Restarts(p, reachable)
  <2>1. PICK p \in Procs, reachable \in BOOLEAN : Restarts(p, reachable)
    BY <1>7
  <2>2. \A t \in Tests : run'[t] = Idle \/ run'[t] = run[t]
    BY <2>1 DEF Restarts
  <2>3. \A t \in Tests : Placed(run'[t], Target[t])
    BY <2>2, IdlePlaced DEF TriedInv
  <2>4. \A t \in Tests : Placed(run[t], Target[t])' <=> Placed(run'[t], Target[t])
    BY DEF Placed
  <2> QED BY <2>3, <2>4 DEF TriedInv
<1>8. CASE UNCHANGED run
  BY <1>8, SamePlaced
<1> QED BY <1>1, <1>2, <1>3, <1>4, <1>5, <1>6, <1>7, <1>8 DEF Next, vars

(* A replacement the platform tries is an element of the page the step failed *)
(* on, its selector matches no other one there and is not the one that failed,*)
(* if a past success alone does not reach the policy's threshold              *)
(* (_unique_selector, dom_evidence, generate_candidates, rank_candidates,     *)
(* _filter_eligible_candidates).  The defaults are 0.15 of 1.0 against 0.30.  *)
THEOREM TriedIsThere ==
  ASSUME PrecedentsAreWeak
  PROVE  Spec => []TriedIsOnThePage
<1>1. Init => RunInv /\ Numbers /\ TriedInv
  BY InitChecked, InitPlaced
<1>2. MemoryInv /\ RunInv /\ Numbers /\ TriedInv /\ [Next]_vars => RunInv' /\ Numbers' /\ TriedInv'
  BY NextChecked, NextNumbered, NextPlaced
<1>3. TriedInv => TriedIsOnThePage
  BY DEF TriedInv, Placed, Stands, Matched, TriedIsOnThePage
<1>4. Spec => []MemoryInv
  BY MemoryInvariant, PTL
<1> QED BY <1>1, <1>2, <1>3, <1>4, PTL DEF Spec
=============================================================================
