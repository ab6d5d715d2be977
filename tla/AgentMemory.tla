----------------------------- MODULE AgentMemory -----------------------------
(***************************************************************************)
(* The healing memory (agents/memory/in_memory_store.py and                *)
(* persistent_store.py): per process an index of the records its runs      *)
(* stored, written through to the agent_memory collection, replayed from   *)
(* it when the process starts, and rebuilt when an account is erased       *)
(* (DELETE /me, backend/api/me.py).                                        *)
(*                                                                         *)
(* A run stores from its event loop: append to the index, then insert the  *)
(* row.  The erasure runs in a thread of the API process: its steps fall   *)
(* between those of a store.  Other processes keep what they hold.         *)
(* Records carry the moment they were made.  A store is a list of records, *)
(* each under the number it came with; those that are deleted leave gaps.  *)
(***************************************************************************)
EXTENDS Integers, Sequences, FiniteSets

CONSTANTS
  Procs,            \* the processes that run tests
  Api,              \* the one that serves DELETE /me
  Tests,            \* test cases; each has at most one run at a time
  Owner,            \* the account a test belongs to
  MaxRecords,       \* AGENT_MEMORY_MAX_RECORDS, replayed at start
  MaxStored,        \* bound: records made
  MaxFaults,        \* bound: outages and restarts
  Erasable          \* the accounts that may be erased

ASSUME AgentMemoryAssumption ==
  /\ Api \in Procs
  /\ Erasable \subseteq {Owner[t] : t \in Tests}
  /\ {MaxRecords, MaxStored, MaxFaults} \subseteq Nat

VARIABLES
  index,            \* the indexes of each process's store, as one list
  rows,             \* the agent_memory collection, by id
  volatile,         \* processes that fell back to an in-process store
  writer,           \* what the run of each test still has to store
  made,             \* records made so far: the clock of their timestamps
  eraser,           \* the DELETE /me request
  faults            \* outages and restarts so far

memory_vars == <<index, rows, volatile, writer, made, eraser, faults>>

-----------------------------------------------------------------------------
(* Records.  Execution records are left out: no decision reads more of them *)
(* than their number.  A healing record's ok is the validation result:      *)
(* "yes", "no" or "unknown".  A record is stored unless the index holds     *)
(* "same" (the latest of this element looks the same) or "known" (any with  *)
(* this selector).                                                          *)

HealingRecord(t, at, old, new, ok) ==
  [kind |-> "healing", test |-> t, owner |-> Owner[t], at |-> at, old |-> old, new |-> new, ok |-> ok]

ElementOf(t, at, element) == [kind |-> "element", test |-> t, owner |-> Owner[t], at |-> at, element |-> element]

Item(record, unless) == [record |-> record, unless |-> unless]

-----------------------------------------------------------------------------
(* InMemoryStore: queries, newest first. *)

Newest(S) == CHOOSE r \in S : \A other \in S : other.at <= r.at

In(list) == {list[i] : i \in DOMAIN list}

Where(list, Is(_)) == [i \in {j \in DOMAIN list : Is(list[j])} |-> list[i]]

Last(list) == CHOOSE n \in {0} \union DOMAIN list : \A i \in DOMAIN list : i <= n

Add(list, record) ==
  [i \in DOMAIN list \union {Last(list) + 1} |-> IF i = Last(list) + 1 THEN record ELSE list[i]]

(* A record that a reload replayed while its run stored it is there twice. *)
ByTime(list, limit) ==
  LET ahead(i) == {j \in DOMAIN list : list[j].at > list[i].at \/ (list[j].at = list[i].at /\ j < i)}
      all      == Cardinality(DOMAIN list)
      size     == IF all < limit THEN all ELSE limit
  IN [k \in 1..size |-> list[CHOOSE i \in DOMAIN list : Cardinality(ahead(i)) = k - 1]]

Elements(list, selector) == {r \in In(list) : r.kind = "element" /\ r.element.selector = selector}

get_element_by_selector(list, selector) == Newest(Elements(list, selector))

get_element_history(list, t, selector) == {r \in Elements(list, selector) : r.test = t}

get_healing_history(list, selector, limit) ==
  ByTime(Where(list, LAMBDA r : r.kind = "healing" /\ r.old = selector), limit)

get_healing_history_for_replacement(list, old, new, limit) ==
  ByTime(Where(list, LAMBDA r : r.kind = "healing" /\ r.old = old /\ r.new = new), limit)

(* _remember_element and _submit_ready look before they store. *)
Skips(list, item) ==
  LET same == get_element_history(list, item.record.test, item.record.element.selector)
  IN \/ item.unless = "same" /\ same # {} /\ Newest(same).element = item.record.element
     \/ item.unless = "known" /\ Elements(list, item.record.element.selector) # {}

-----------------------------------------------------------------------------
(* PersistentMemoryStore. *)

(* The newest rows, by id, which keep their order. *)
_load(stored) ==
  [i \in {j \in DOMAIN stored : Cardinality({k \in DOMAIN stored : k > j}) < MaxRecords} |-> stored[i]]

(* They are replayed oldest first. *)
Oldest(list) == CHOOSE i \in DOMAIN list : \A j \in DOMAIN list : i <= j

Without(list, n) == [i \in DOMAIN list \ {n} |-> list[i]]

Free == [proc |-> Api, items |-> {}, half |-> "index"]

Stored(t) == writer[t].items = {}

(* half: where the next item goes, to the index and then to a row.           *)
(* Runs store without an await: no other run of the process steps meanwhile. *)
LoopIsFree(p) == \A t \in Tests : writer[t].proc = p => Stored(t)

NoErasure == [pc |-> "idle", owner |-> "", gone |-> {}, replay |-> << >>]

MemoryInit ==
  /\ index = [p \in Procs |-> << >>]
  /\ rows = << >>
  /\ volatile = {}
  /\ writer = [t \in Tests |-> Free]
  /\ made = 0
  /\ eraser = NoErasure
  /\ faults = 0

Fault == faults < MaxFaults /\ faults' = faults + 1

(* The run of t, in p, has this item to store next. *)
ToStore(t, p, item) ==
  /\ made < MaxStored
  /\ made' = made + 1
  /\ writer' = [writer EXCEPT ![t] = [proc |-> p, items |-> {item}, half |-> "index"]]

Next1(t) == CHOOSE item \in writer[t].items : TRUE

(* store_execution, store_element, store_healing_record: into the index. *)
StoreSkipped(t) ==
  /\ ~Stored(t) /\ writer[t].half = "index"
  /\ Skips(index[writer[t].proc], Next1(t))
  /\ writer' = [writer EXCEPT ![t] = Free]
  /\ UNCHANGED <<index, rows, volatile, made, eraser, faults>>

StoreInIndex(t) ==
  LET p == writer[t].proc
  IN /\ ~Stored(t) /\ writer[t].half = "index"
     /\ ~Skips(index[p], Next1(t))
     /\ index' = [index EXCEPT ![p] = Add(@, Next1(t).record)]
     /\ writer' = [writer EXCEPT ![t] = IF p \in volatile THEN Free ELSE [@ EXCEPT !.half = "row"]]
     /\ UNCHANGED <<rows, volatile, made, eraser, faults>>

(* _persist: the row is inserted, *)
Persist(t) ==
  /\ writer[t].half = "row"
  /\ rows' = Add(rows, Next1(t).record)
  /\ writer' = [writer EXCEPT ![t] = Free]
  /\ UNCHANGED <<index, volatile, made, eraser, faults>>

(* or the database is unavailable: the index keeps the record, the run fails. *)
PersistFails(t) ==
  /\ writer[t].half = "row"
  /\ Fault
  /\ writer' = [writer EXCEPT ![t] = Free]
  /\ UNCHANGED <<index, rows, volatile, made, eraser>>

(* create_memory_store when a process starts again: the rows are replayed, or *)
(* the database is unavailable and this process keeps an in-process store.    *)
Restart(p, reachable) ==
  /\ Fault
  /\ index' = [index EXCEPT ![p] = IF reachable THEN _load(rows) ELSE << >>]
  /\ volatile' = IF reachable THEN volatile \ {p} ELSE volatile \union {p}
  /\ writer' = [t \in Tests |-> IF writer[t].proc = p THEN Free ELSE writer[t]]
  /\ eraser' = IF p = Api /\ eraser.pc # "idle" THEN [eraser EXCEPT !.pc = "cut", !.replay = << >>] ELSE eraser
  /\ UNCHANGED <<rows, made>>

-----------------------------------------------------------------------------
(* delete_me: the account's rows, then, if there were any, *)
(* forget_healing_memory in the API process.               *)

\* mutant: the running store is left as it is
ForgetsNothing(deleted) == FALSE

Forgets(deleted) == deleted # {} /\ Api \notin volatile

DeleteRows(o) ==
  LET deleted == {r \in In(rows) : r.owner = o}
  IN /\ eraser.pc = "idle"
     /\ rows' = Where(rows, LAMBDA r : r.owner # o)
     /\ eraser' = [pc |-> IF Forgets(deleted) THEN "clear" ELSE "done", owner |-> o, gone |-> deleted, replay |-> << >>]
     /\ UNCHANGED <<index, volatile, writer, made, faults>>

(* reload: clear the index, read the rows, replay them one by one. *)
Clear ==
  /\ eraser.pc = "clear"
  /\ index' = [index EXCEPT ![Api] = << >>]
  /\ eraser' = [eraser EXCEPT !.pc = "find"]
  /\ UNCHANGED <<rows, volatile, writer, made, faults>>

Find ==
  /\ eraser.pc = "find"
  /\ eraser' = [eraser EXCEPT !.pc = IF DOMAIN _load(rows) = {} THEN "done" ELSE "replay", !.replay = _load(rows)]
  /\ UNCHANGED <<index, rows, volatile, writer, made, faults>>

(* The rows cannot be read: the request fails and the index stays empty. *)
FindFails ==
  /\ eraser.pc = "find"
  /\ Fault
  /\ eraser' = [eraser EXCEPT !.pc = "failed"]
  /\ UNCHANGED <<index, rows, volatile, writer, made>>

Replay ==
  /\ eraser.pc = "replay"
  /\ LET next == Oldest(eraser.replay)
         left == Without(eraser.replay, next)
     IN /\ index' = [index EXCEPT ![Api] = Add(@, eraser.replay[next])]
        /\ eraser' = [eraser EXCEPT !.pc = IF DOMAIN left = {} THEN "done" ELSE "replay", !.replay = left]
  /\ UNCHANGED <<rows, volatile, writer, made, faults>>

Erasure ==
  \/ \E o \in Erasable : DeleteRows(o)
  \/ Clear
  \/ Find
  \/ FindFails
  \/ Replay
=============================================================================
