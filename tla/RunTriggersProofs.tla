-------------------------- MODULE RunTriggersProofs --------------------------
(***************************************************************************)
(* Proofs about RunTriggers, for any number of pushes, users' requests,    *)
(* schedulers, workers and faults, and in both execution modes.            *)
(***************************************************************************)
EXTENDS RunTriggers, TLAPS

----------------------------------------------------------------------------
(* Type correctness *)

\* A bare request and a new run.
LEMMA StartTypes ==
  /\ NoRun \in Docs /\ Waiting \in Reqs
  /\ \A o \in Origins : Queued(o) \in Docs
<1>1. 0 \in Slots /\ 0 \in 0..MaxNow
  BY RunTriggersAssumption DEF Slots
<1> QED BY <1>1 DEF NoRun, Waiting, Queued, Docs, Reqs

LEMMA InitType == ASSUME Init PROVE TypeOK
<1>1. 0 \in Slots /\ 0 \in 0..MaxNow /\ 0 \in 0..MaxFaults
  BY RunTriggersAssumption DEF Slots
<1> QED BY <1>1, StartTypes DEF Init, TypeOK

LEMMA FaultType ==
  ASSUME faults \in 0..MaxFaults, NEW kind, Fault(kind)
  PROVE  faults' \in 0..MaxFaults
BY RunTriggersAssumption DEF Fault

\* A request that is not a tick is what its run is started for; a tick starts
\* the run of its slot.
LEMMA OriginTypes ==
  /\ \A q \in Requests \ Ticks : q \in Origins
  /\ \A k \in Slots : <<"slot", k>> \in Origins
  /\ \A p \in Pushes : <<"push", p>> \in Origins
BY DEF Requests, Origins, PushRequests, Ticks

LEMMA ActType ==
  ASSUME TypeOK, NEW q \in Requests, NEW o \in Origins, NEW found, Act(q, o, found)
  PROVE  /\ runs' \in [RunIds -> Docs]
         /\ pending' \in Pushes \union {NoPush}
         /\ replaced' \subseteq Pushes
<1> USE DEF TypeOK
<1>1. CASE q \in PushRequests /\ Queue(q) /\ UNCHANGED runs
  <2>1. q[2] \in Pushes
    BY <1>1 DEF PushRequests
  <2> QED BY <1>1, <2>1 DEF Queue
<1>2. CASE start_run(o) /\ UNCHANGED <<pending, replaced>>
  BY <1>2, StartTypes DEF start_run
<1> QED BY <1>1, <1>2 DEF Act

LEMMA RequestType ==
  ASSUME TypeOK, NEW q \in Requests, Request(q) \/ Begin(q) \/ Handle(q)
  PROVE  TypeOK'
<1> USE DEF TypeOK
<1>0. \A t \in 0..MaxNow : next_run_after(t) \in Slots
  BY RunTriggersAssumption DEF next_run_after, Slots
<1>1. Answered(q) \in Reqs
  BY StartTypes DEF Answered, Reqs
<1>2. \A pc \in {"idle", "claim", "queued?", "running?", "found", "free", "done"} :
        Goes(q, pc) => req' \in [Requests -> Reqs]
  BY DEF Goes, Reqs
<1>3. CASE Request(q)
  BY <1>1, <1>3, ActType, OriginTypes DEF Request, Arrives
<1>4. CASE Begin(q)
  BY <1>2, <1>4 DEF Begin
<1>5. CASE Tick(q)
  <2>1. <<"slot", next_run_at>> \in Origins
    BY OriginTypes
  <2> QED BY <1>0, <1>5, <2>1, ActType DEF Tick
<1>6. CASE Due(q)
  <2>1. [pc |-> "claim", slot |-> next_run_at, time |-> now] \in Reqs
    BY DEF Reqs
  <2> QED BY <1>6, <2>1 DEF Due
<1>7. CASE Claim(q)
  <2>1. req[q].time \in 0..MaxNow
    BY DEF Reqs
  <2> QED BY <1>0, <1>2, <1>7, <2>1, StartTypes DEF Claim
<1>8. CASE Look(q)
  BY <1>2, <1>8 DEF Look
<1>9. CASE Respond(q)
  <2>1. OriginOf(q) \in Origins
    <3>1. req[q].slot \in Slots
      BY DEF Reqs
    <3> QED BY <3>1, OriginTypes DEF OriginOf
  <2> QED BY <1>1, <1>9, <2>1, ActType DEF Respond
<1> QED BY <1>3, <1>4, <1>5, <1>6, <1>7, <1>8, <1>9 DEF Handle

\* What the place of a run says of its document: only an existing run has a
\* place and an origin, and only a push that was taken is being started.
RunsNamed ==
  \A r \in RunIds :
    /\ runs[r].status = "none" => runs[r].origin = NoOrigin /\ runs[r].at = "none"
    /\ runs[r].status # "none" => runs[r].origin # NoOrigin
    /\ runs[r].at = "create" => runs[r].push \in Pushes

LEMMA RunType ==
  ASSUME TypeOK, RunsNamed, NEW r \in RunIds, Execute(r) \/ Cancel(r) \/ Die(r) \/ Outage(r)
  PROVE  TypeOK'
<1> USE DEF TypeOK, Executing
<1>0. /\ [runs[r] EXCEPT !.status = "ended"] \in Docs /\ [runs[r] EXCEPT !.status = "ended", !.at = "done"] \in Docs
      /\ [runs[r] EXCEPT !.at = "dead"] \in Docs /\ [runs[r] EXCEPT !.at = "done"] \in Docs
      /\ [runs[r] EXCEPT !.at = "create"] \in Docs
  BY DEF Docs
<1>a. /\ [runs[r] EXCEPT !.status = "running", !.at = "run"] \in Docs
      /\ [runs[r] EXCEPT !.status = "ended", !.at = "ended"] \in Docs
      /\ [runs[r] EXCEPT !.status = "ended", !.at = "notify", !.push = pending] \in Docs
      /\ [runs[r] EXCEPT !.at = "notify", !.push = pending] \in Docs
  BY DEF Docs
<1>1. CASE RunBegins(r)
  BY <1>1, <1>a DEF RunBegins
<1>2. CASE RunEnds(r)
  <2>1. CASE Inline
    BY <1>2, <1>a, <2>1 DEF RunEnds
  <2>2. CASE ~Inline
    BY <1>2, <1>a, <2>2 DEF RunEnds
  <2> QED BY <2>1, <2>2
<1>3. CASE ReadProject(r)
  BY <1>3, <1>a DEF ReadProject
<1>4. CASE _start_pending_push(r)
  <2>1. CASE runs' = [runs EXCEPT ![r].at = "done"] /\ UNCHANGED pending
    BY <1>0, <1>4, <2>1 DEF _start_pending_push
  <2>2. CASE runs' = [runs EXCEPT ![r].at = "create"] /\ pending' = NoPush
    BY <1>0, <1>4, <2>2 DEF _start_pending_push
  <2>3. CASE Takes(r) /\ pending' = NoPush /\ \E s \in RunIds :
               runs' = [runs EXCEPT ![r].at = "done", ![s] = Queued(<<"push", runs[r].push>>)]
    <3>1. runs[r].push \in Pushes
      BY <2>3 DEF Takes, Docs
    <3>2. Queued(<<"push", runs[r].push>>) \in Docs
      BY <3>1, StartTypes, OriginTypes
    <3>3. runs' \in [RunIds -> Docs]
      BY <1>0, <2>3, <3>2
    <3> QED BY <1>4, <2>3, <3>3 DEF _start_pending_push
  <2> QED BY <1>4, <2>1, <2>2, <2>3 DEF _start_pending_push
<1>5. CASE CreatePending(r)
  <2>1. Queued(<<"push", runs[r].push>>) \in Docs
    BY <1>5, StartTypes, OriginTypes DEF CreatePending, RunsNamed
  <2>2. runs' \in [RunIds -> Docs]
    BY <1>0, <1>5, <2>1 DEF CreatePending
  <2> QED BY <1>5, <2>2 DEF CreatePending
<1>6. CASE Reap(r)
  BY <1>0, <1>6 DEF Reap
<1>7. CASE Cancel(r)
  <2>1. runs' \in [RunIds -> Docs]
    BY <1>0, <1>7 DEF Cancel
  <2> QED BY <1>7, <2>1, FaultType DEF Cancel
<1>8. CASE Die(r)
  <2>1. runs' \in [RunIds -> Docs]
    BY <1>0, <1>8 DEF Die
  <2> QED BY <1>8, <2>1, FaultType DEF Die
<1>9. CASE Outage(r)
  <2>1. runs' \in [RunIds -> Docs]
    BY <1>0, <1>9 DEF Outage
  <2> QED BY <1>9, <2>1, FaultType DEF Outage
<1> QED BY <1>1, <1>2, <1>3, <1>4, <1>5, <1>6, <1>7, <1>8, <1>9 DEF Execute

LEMMA RestartType == ASSUME TypeOK, Restart PROVE TypeOK'
<1>1. runs' \in [RunIds -> Docs]
  BY DEF Restart, TypeOK, Docs
<1> QED BY <1>1, FaultType DEF Restart, TypeOK

LEMMA NextType == ASSUME TypeOK, RunsNamed, [Next]_vars PROVE TypeOK'
<1>1. CASE \E q \in Requests : Request(q) \/ Begin(q) \/ Handle(q)
  BY <1>1, RequestType
<1>2. CASE \E r \in RunIds : Execute(r) \/ Cancel(r) \/ Die(r) \/ Outage(r)
  BY <1>2, RunType
<1>3. CASE Restart
  BY <1>3, RestartType
<1>4. CASE Clock
  BY <1>4, RunTriggersAssumption DEF Clock, TypeOK
<1>5. CASE UNCHANGED vars
  BY <1>5 DEF vars, TypeOK
<1> QED BY <1>1, <1>2, <1>3, <1>4, <1>5 DEF Next

----------------------------------------------------------------------------
(* No push and no slot starts two runs *)

(* A push, a user's request or a slot passes from hand to hand: it is asked for,
   it waits, it is being started, or it has its run; and it is in one hand at a
   time. *)
Creating(r, p) == runs[r].at = "create" /\ runs[r].push = p
HasRun(o) == \E r \in RunIds : runs[r].origin = o
IsCreated(p) == \E r \in RunIds : Creating(r, p)
Claimed(q) == req[q].pc \in {"queued?", "running?", "found", "free"}

\* A request that was not answered has left nothing behind.
Unanswered ==
  \A q \in Requests \ Ticks : req[q].pc # "done" =>
    /\ ~HasRun(q)
    /\ \A p \in Pushes : q = <<"push", p>> => pending # p /\ ~IsCreated(p)

\* A push that waits has no run, one that is being started does not wait and is
\* started by one run only.
PushInOneHand ==
  \A p \in Pushes :
    /\ pending = p => ~HasRun(<<"push", p>>) /\ ~IsCreated(p)
    /\ IsCreated(p) => ~HasRun(<<"push", p>>)
    /\ \A r, s \in RunIds : Creating(r, p) /\ Creating(s, p) => r = s

\* The slots that were claimed or have a run lie before the next one, and no
\* two schedulers have claimed the same.
SlotInOneHand ==
  /\ \A k \in Slots : HasRun(<<"slot", k>>) => k < next_run_at
  /\ \A q \in Ticks, k \in Slots : Claimed(q) /\ req[q].slot = k => k < next_run_at /\ ~HasRun(<<"slot", k>>)
  /\ \A q, t \in Ticks : Claimed(q) /\ Claimed(t) /\ req[q].slot = req[t].slot => q = t
  /\ \A q \in Requests : req[q].pc = "claim" => q \in Ticks /\ req[q].slot <= req[q].time

OriginsDiffer ==
  \A r, s \in RunIds : runs[r].origin = runs[s].origin /\ runs[r].origin # NoOrigin => r = s

OneHand == Unanswered /\ PushInOneHand /\ SlotInOneHand /\ OriginsDiffer

\* The kinds of requests and origins do not mix.
LEMMA KindsDiffer ==
  /\ \A p \in Pushes : <<"push", p>> \in Requests \ Ticks
  /\ \A q \in PushRequests : q[2] \in Pushes /\ q = <<"push", q[2]>>
  /\ \A q \in Requests \ Ticks, k \in Slots : q # <<"slot", k>>
  /\ \A o \in Origins : o # NoOrigin
BY DEF Requests, PushRequests, Ticks, Origins, NoOrigin

LEMMA RequestNamed ==
  ASSUME TypeOK, RunsNamed, NEW q \in Requests, Request(q) \/ Begin(q) \/ Handle(q)
  PROVE  RunsNamed'
<1>1. CASE UNCHANGED runs
  BY <1>1 DEF RunsNamed
<1>2. CASE \E o \in Origins : start_run(o)
  <2>1. PICK o \in Origins : start_run(o)
    BY <1>2
  <2>2. o # NoOrigin
    BY KindsDiffer
  <2> QED BY <2>1, <2>2 DEF start_run, Queued, RunsNamed, TypeOK
<1>3. <<"slot", next_run_at>> \in Origins /\ (q \notin Ticks => q \in Origins) /\ OriginOf(q) \in Origins
  BY OriginTypes DEF TypeOK, Reqs, OriginOf
<1> QED BY <1>1, <1>2, <1>3 DEF Handle, Request, Arrives, Begin, Tick, Due, Claim, Look, Respond, Act

LEMMA RunNamed ==
  ASSUME TypeOK, RunsNamed, NEW r \in RunIds, Execute(r) \/ Cancel(r) \/ Die(r) \/ Outage(r)
  PROVE  RunsNamed'
<1> USE DEF TypeOK, Docs, RunsNamed, Executing
<1>1. CASE RunBegins(r)
  BY <1>1 DEF RunBegins
<1>2. CASE RunEnds(r)
  BY <1>2 DEF RunEnds
<1>3. CASE ReadProject(r)
  BY <1>3 DEF ReadProject
<1>4. CASE _start_pending_push(r)
  <2>1. CASE runs' = [runs EXCEPT ![r].at = "done"]
    BY <1>4, <2>1 DEF _start_pending_push
  <2>2. CASE Takes(r) /\ runs' = [runs EXCEPT ![r].at = "create"]
    BY <1>4, <2>2 DEF _start_pending_push, Takes
  <2>3. CASE Takes(r) /\ \E s \in RunIds : runs' = [runs EXCEPT ![r].at = "done", ![s] = Queued(<<"push", runs[r].push>>)]
    <3>1. runs[r].push \in Pushes /\ <<"push", runs[r].push>> # NoOrigin
      BY <2>3 DEF Takes, NoOrigin
    <3>2. PICK s \in RunIds : runs' = [runs EXCEPT ![r].at = "done", ![s] = Queued(<<"push", runs[r].push>>)]
      BY <2>3
    <3>3. \A t \in RunIds : \/ runs'[t] = Queued(<<"push", runs[r].push>>)
                            \/ runs'[t] = runs[t]
                            \/ t = r /\ runs'[t] = [runs[r] EXCEPT !.at = "done"]
      BY <3>2
    <3>4. runs[r].status # "none"
      BY <1>4 DEF _start_pending_push
    <3> QED BY <3>1, <3>3, <3>4 DEF Queued
  <2> QED BY <1>4, <2>1, <2>2, <2>3 DEF _start_pending_push
<1>5. CASE CreatePending(r)
  <2>1. <<"push", runs[r].push>> # NoOrigin
    BY DEF NoOrigin
  <2> QED BY <1>5, <2>1 DEF CreatePending, Queued
<1>6. CASE Reap(r)
  BY <1>6 DEF Reap
<1>7. CASE Cancel(r)
  BY <1>7 DEF Cancel, ACTIVE
<1>8. CASE Die(r)
  BY <1>8 DEF Die
<1>9. CASE Outage(r)
  BY <1>9 DEF Outage
<1> QED BY <1>1, <1>2, <1>3, <1>4, <1>5, <1>6, <1>7, <1>8, <1>9 DEF Execute

LEMMA NextNamed == ASSUME TypeOK, RunsNamed, [Next]_vars PROVE RunsNamed'
<1>1. CASE \E q \in Requests : Request(q) \/ Begin(q) \/ Handle(q)
  BY <1>1, RequestNamed
<1>2. CASE \E r \in RunIds : Execute(r) \/ Cancel(r) \/ Die(r) \/ Outage(r)
  BY <1>2, RunNamed
<1>3. CASE Restart
  BY <1>3 DEF Restart, RunsNamed, TypeOK, Docs, Exists
<1>4. CASE Clock \/ UNCHANGED vars
  BY <1>4 DEF Clock, vars, RunsNamed
<1> QED BY <1>1, <1>2, <1>3, <1>4 DEF Next

\* A run that goes on leaves everything in the hand it is in.
LEMMA Aging ==
  ASSUME OneHand, UNCHANGED <<req, next_run_at, pending>>,
         \A r \in RunIds : runs'[r].origin = runs[r].origin,
         \A r \in RunIds : runs'[r].at = "create" => runs[r].at = "create" /\ runs'[r].push = runs[r].push
  PROVE  OneHand'
BY DEF OneHand, Unanswered, PushInOneHand, SlotInOneHand, OriginsDiffer, HasRun, IsCreated, Creating, Claimed

\* A new run is the only one of its origin.
LEMMA NewRun ==
  ASSUME RunsNamed, OriginsDiffer, NEW o, ~HasRun(o), NEW s \in RunIds, Free(s), runs'[s].origin = o,
         \A r \in RunIds \ {s} : runs'[r].origin = runs[r].origin
  PROVE  /\ OriginsDiffer'
         /\ \A x : HasRun(x)' => HasRun(x) \/ x = o
BY DEF RunsNamed, OriginsDiffer, HasRun, Free, Exists

LEMMA ActEffect ==
  ASSUME TypeOK, RunsNamed, OriginsDiffer,
         NEW q \in Requests, NEW o, ~HasRun(o), NEW found, Act(q, o, found)
  PROVE  /\ OriginsDiffer'
         /\ \A x : HasRun(x)' => HasRun(x) \/ x = o
         /\ \A r \in RunIds : runs'[r].at = "create" => runs[r].at = "create" /\ runs'[r].push = runs[r].push
         /\ \/ pending' = pending
            \/ q \in PushRequests /\ pending' = q[2] /\ runs' = runs
<1>1. CASE UNCHANGED runs
  BY <1>1 DEF Act, Queue, OriginsDiffer, HasRun
<1>2. CASE start_run(o) /\ UNCHANGED pending
  <2>1. PICK s \in RunIds : Free(s) /\ runs' = [runs EXCEPT ![s] = Queued(o)]
    BY <1>2 DEF start_run
  <2>2. runs'[s].origin = o /\ \A r \in RunIds \ {s} : runs'[r].origin = runs[r].origin
    BY <2>1 DEF TypeOK, Queued
  <2>3. \A r \in RunIds : runs'[r].at = "create" => runs[r].at = "create" /\ runs'[r].push = runs[r].push
    BY <2>1 DEF TypeOK, Queued
  <2> QED BY <1>2, <2>1, <2>2, <2>3, NewRun
<1> QED BY <1>1, <1>2 DEF Act

\* A push or a user's request that is answered gets a run, or (a push) waits.
LEMMA AnswerOneHand ==
  ASSUME TypeOK, RunsNamed, OneHand, NEW q \in Requests \ Ticks, req[q].pc # "done", NEW found, Act(q, q, found),
         req' = [req EXCEPT ![q] = Answered(q)], next_run_at' = next_run_at
  PROVE  OneHand'
<1>1. ~HasRun(q) /\ \A p \in Pushes : q = <<"push", p>> => pending # p /\ ~IsCreated(p)
  BY DEF OneHand, Unanswered
<1>2. /\ OriginsDiffer'
      /\ \A x : HasRun(x)' => HasRun(x) \/ x = q
      /\ \A r \in RunIds : runs'[r].at = "create" => runs[r].at = "create" /\ runs'[r].push = runs[r].push
      /\ \/ pending' = pending
         \/ q \in PushRequests /\ pending' = q[2] /\ runs' = runs
  BY <1>1, ActEffect DEF OneHand
<1>3. \A p \in Pushes : IsCreated(p)' => IsCreated(p)
  BY <1>2 DEF IsCreated, Creating
<1>4. req'[q].pc = "done" /\ \A t \in Requests \ {q} : req'[t] = req[t]
  BY DEF Answered, TypeOK, Reqs
<1>5. Unanswered'
  <2> SUFFICES ASSUME NEW t \in Requests \ Ticks, t # q, req[t].pc # "done"
               PROVE  ~HasRun(t)' /\ \A p \in Pushes : t = <<"push", p>> => pending' # p /\ ~IsCreated(p)'
    BY <1>4 DEF Unanswered
  <2>1. ~HasRun(t) /\ \A p \in Pushes : t = <<"push", p>> => pending # p /\ ~IsCreated(p)
    BY DEF OneHand, Unanswered
  <2>2. \A p \in Pushes : t = <<"push", p>> => pending' # p
    BY <1>2, <2>1, KindsDiffer
  <2> QED BY <1>2, <1>3, <2>1, <2>2
<1>6. PushInOneHand'
  <2>1. ASSUME NEW p \in Pushes, pending' = p
        PROVE  ~HasRun(<<"push", p>>)' /\ ~IsCreated(p)'
    <3>1. CASE pending' = pending
      BY <1>1, <1>2, <1>3, <2>1, <3>1 DEF OneHand, PushInOneHand
    <3>2. CASE q \in PushRequests /\ pending' = q[2] /\ runs' = runs
      <4>1. q = <<"push", p>>
        BY <2>1, <3>2, KindsDiffer
      <4> QED BY <1>1, <3>2, <4>1 DEF HasRun, IsCreated, Creating
    <3> QED BY <1>2, <3>1, <3>2
  <2>2. ASSUME NEW p \in Pushes, IsCreated(p)'
        PROVE  ~HasRun(<<"push", p>>)'
    BY <1>1, <1>2, <1>3, <2>2 DEF OneHand, PushInOneHand
  <2>3. ASSUME NEW p \in Pushes, NEW r \in RunIds, NEW s \in RunIds, Creating(r, p)', Creating(s, p)'
        PROVE  r = s
    BY <1>2, <2>3 DEF OneHand, PushInOneHand, Creating
  <2> QED BY <2>1, <2>2, <2>3 DEF PushInOneHand
<1>7. SlotInOneHand'
  <2>1. \A k \in Slots : HasRun(<<"slot", k>>)' => HasRun(<<"slot", k>>)
    BY <1>2, KindsDiffer
  <2>2. \A t \in Ticks : t \in Requests /\ t # q /\ req[t].slot \in Slots
    BY DEF Requests, TypeOK, Reqs
  <2> QED BY <1>4, <2>1, <2>2 DEF OneHand, SlotInOneHand, Claimed
<1> QED BY <1>2, <1>5, <1>6, <1>7 DEF OneHand

\* What a slot's run and its claim leave alone.
LEMMA SlotActed ==
  ASSUME TypeOK, RunsNamed, OneHand, NEW q \in Ticks, NEW k \in Slots, ~HasRun(<<"slot", k>>),
         NEW found, Act(q, <<"slot", k>>, found), \A t \in Requests \ Ticks : req'[t] = req[t]
  PROVE  Unanswered' /\ PushInOneHand' /\ OriginsDiffer' /\ \A x : HasRun(x)' => HasRun(x) \/ x = <<"slot", k>>
<1>1. /\ OriginsDiffer'
      /\ \A x : HasRun(x)' => HasRun(x) \/ x = <<"slot", k>>
      /\ \A r \in RunIds : runs'[r].at = "create" => runs[r].at = "create" /\ runs'[r].push = runs[r].push
      /\ pending' = pending
  <2>1. q \in Requests /\ q \notin PushRequests
    BY DEF Requests, PushRequests, Ticks
  <2> QED BY <2>1, ActEffect DEF OneHand
<1>2. \A t \in Requests \ Ticks : HasRun(t)' => HasRun(t)
  BY <1>1, KindsDiffer
<1>3. \A p \in Pushes : IsCreated(p)' => IsCreated(p)
  BY <1>1 DEF IsCreated, Creating
<1>4. Unanswered'
  BY <1>1, <1>2, <1>3 DEF OneHand, Unanswered
<1>5. PushInOneHand'
  <2>1. \A p \in Pushes : HasRun(<<"push", p>>)' => HasRun(<<"push", p>>)
    BY <1>2, KindsDiffer
  <2>2. \A p \in Pushes, r \in RunIds : Creating(r, p)' => Creating(r, p)
    BY <1>1 DEF Creating
  <2> QED BY <1>1, <1>3, <2>1, <2>2 DEF OneHand, PushInOneHand
<1> QED BY <1>1, <1>4, <1>5

LEMMA RequestOneHand ==
  ASSUME TypeOK, RunsNamed, OneHand, NEW q \in Requests, Request(q) \/ Begin(q) \/ Handle(q)
  PROVE  OneHand'
<1>0. req \in [Requests -> Reqs] /\ next_run_at \in Nat /\ now \in Nat /\ Slots \subseteq Nat /\ 0..MaxNow \subseteq Nat
  BY DEF TypeOK, Slots
<1>1. CASE Request(q)
  BY <1>1, AnswerOneHand DEF Request, Arrives
<1>2. CASE Begin(q)
  <2>1. /\ q \notin Ticks /\ req[q].pc # "done" /\ req'[q].pc = "queued?"
        /\ \A t \in Requests \ {q} : req'[t] = req[t]
    BY <1>0, <1>2 DEF Begin, Arrives, Goes, Reqs
  <2>2. Unanswered' /\ SlotInOneHand'
    BY <1>2, <2>1 DEF Begin, OneHand, Unanswered, SlotInOneHand, HasRun, IsCreated, Creating, Claimed, Requests
  <2> QED BY <1>2, <2>2 DEF Begin, OneHand, PushInOneHand, OriginsDiffer, HasRun, IsCreated, Creating
<1>3. CASE Tick(q)
  <2>1. ~HasRun(<<"slot", next_run_at>>)
    BY <1>0 DEF OneHand, SlotInOneHand, TypeOK
  <2>2. /\ Unanswered' /\ PushInOneHand' /\ OriginsDiffer'
        /\ \A x : HasRun(x)' => HasRun(x) \/ x = <<"slot", next_run_at>>
    BY <1>3, <2>1, SlotActed DEF Tick, TypeOK
  <2>3. next_run_at < next_run_at'
    BY <1>0, <1>3 DEF Tick, next_run_after
  <2>4. \A t \in Ticks : req[t].slot \in Nat
    BY <1>0 DEF Reqs, Requests
  <2>5. next_run_at' \in Nat /\ req' = req
    BY <1>0, <1>3 DEF Tick, next_run_after
  <2>6. SlotInOneHand'
    <3>1. \A k \in Slots : HasRun(<<"slot", k>>)' => k < next_run_at'
      BY <1>0, <2>2, <2>3, <2>5 DEF OneHand, SlotInOneHand
    <3>2. \A t \in Ticks, k \in Slots : Claimed(t)' /\ req'[t].slot = k => k < next_run_at' /\ ~HasRun(<<"slot", k>>)'
      BY <1>0, <2>2, <2>3, <2>4, <2>5 DEF OneHand, SlotInOneHand, Claimed
    <3> QED BY <2>5, <3>1, <3>2 DEF OneHand, SlotInOneHand, Claimed
  <2> QED BY <2>2, <2>6 DEF OneHand
<1>4. CASE Due(q)
  <2>1. /\ req'[q].pc = "claim" /\ req'[q].slot = next_run_at /\ req'[q].time = now
        /\ \A t \in Requests \ {q} : req'[t] = req[t]
    BY <1>0, <1>4 DEF Due
  <2>2. Unanswered' /\ SlotInOneHand'
    BY <1>0, <1>4, <2>1 DEF Due, OneHand, Unanswered, SlotInOneHand, HasRun, IsCreated, Creating, Claimed, Requests
  <2> QED BY <1>4, <2>2 DEF Due, OneHand, PushInOneHand, OriginsDiffer, HasRun, IsCreated, Creating
<1>5. CASE Claim(q)
  <2>1. q \in Ticks /\ req[q].slot <= req[q].time
    BY <1>5 DEF Claim, OneHand, SlotInOneHand
  <2>2. UNCHANGED <<runs, pending>> /\ \A t \in Requests \ {q} : req'[t] = req[t]
    BY <1>0, <1>5 DEF Claim, Goes
  <2>3. CASE next_run_at # req[q].slot
    <3>1. req'[q].pc = "idle" /\ next_run_at' = next_run_at
      BY <1>0, <1>5, <2>3 DEF Claim, Waiting
    <3>2. Unanswered' /\ SlotInOneHand'
      BY <1>0, <2>1, <2>2, <3>1
         DEF OneHand, Unanswered, SlotInOneHand, HasRun, IsCreated, Creating, Claimed, Requests
    <3> QED BY <2>2, <3>2 DEF OneHand, PushInOneHand, OriginsDiffer, HasRun, IsCreated, Creating
  <2>4. CASE next_run_at = req[q].slot
    <3>1. /\ req'[q].pc = "queued?" /\ req'[q].slot = next_run_at
          /\ next_run_at < next_run_at' /\ next_run_at' \in Nat
      BY <1>0, <1>5, <2>1, <2>4 DEF Claim, Goes, Reqs, next_run_after
    <3>2. \A x : HasRun(x)' <=> HasRun(x)
      BY <2>2 DEF HasRun
    <3>3. \A t \in Ticks \ {q} : t \in Requests /\ req'[t] = req[t] /\ req[t].slot \in Slots
      BY <1>0, <2>2 DEF Requests, Reqs
    <3>4. SlotInOneHand'
      <4>1. \A k \in Slots : HasRun(<<"slot", k>>)' => k < next_run_at'
        BY <1>0, <3>1, <3>2 DEF OneHand, SlotInOneHand
      <4>2. \A t \in Ticks \ {q}, k \in Slots : Claimed(t)' /\ req'[t].slot = k => k < next_run_at /\ ~HasRun(<<"slot", k>>)
        BY <3>3 DEF OneHand, SlotInOneHand, Claimed
      <4>3. ~HasRun(<<"slot", next_run_at>>)
        BY <1>0 DEF OneHand, SlotInOneHand, TypeOK
      <4>4. \A t \in Ticks, k \in Slots : Claimed(t)' /\ req'[t].slot = k => k < next_run_at' /\ ~HasRun(<<"slot", k>>)'
        <5>1. ASSUME NEW t \in Ticks \ {q}, NEW k \in Slots, Claimed(t)', req'[t].slot = k
              PROVE  k < next_run_at' /\ ~HasRun(<<"slot", k>>)'
          <6>1. k < next_run_at /\ ~HasRun(<<"slot", k>>)
            BY <4>2, <5>1
          <6>2. k \in Nat /\ next_run_at \in Nat /\ next_run_at' \in Nat
            BY <1>0, <3>1, <6>1 DEF Slots, OneHand, TypeOK
          <6> QED BY <3>1, <3>2, <6>1, <6>2
        <5>2. ASSUME NEW k \in Slots, req'[q].slot = k
              PROVE  k < next_run_at' /\ ~HasRun(<<"slot", k>>)'
          <6>1. k = next_run_at
            BY <3>1, <5>2
          <6>2. ~HasRun(<<"slot", k>>)
            BY <4>3, <6>1
          <6> QED BY <3>1, <3>2, <6>1, <6>2
        <5> HIDE DEF Claimed, HasRun
        <5> QED BY <5>1, <5>2, Zenon
      <4>5. \A t, u \in Ticks : Claimed(t)' /\ Claimed(u)' /\ req'[t].slot = req'[u].slot => t = u
        <5>1. \A t \in Ticks \ {q} : Claimed(t)' => req'[t].slot # req'[q].slot
          <6>1. \A t \in Ticks \ {q} : Claimed(t)' => req'[t].slot < next_run_at
            BY <3>3, <4>2
          <6> QED BY <1>0, <3>1, <3>3, <6>1
        <5>2. \A t, u \in Ticks \ {q} : Claimed(t)' /\ Claimed(u)' /\ req'[t].slot = req'[u].slot => t = u
          BY <3>3 DEF OneHand, SlotInOneHand, Claimed
        <5> QED BY <5>1, <5>2
      <4>6. \A t \in Requests : req'[t].pc = "claim" => t \in Ticks /\ req'[t].slot <= req'[t].time
        BY <2>1, <2>2, <3>1 DEF OneHand, SlotInOneHand
      <4> QED BY <4>1, <4>4, <4>5, <4>6 DEF SlotInOneHand
    <3>5. Unanswered'
      BY <2>1, <2>2, <3>2 DEF OneHand, Unanswered, IsCreated, Creating
    <3> QED BY <2>2, <3>4, <3>5 DEF OneHand, PushInOneHand, OriginsDiffer, HasRun, IsCreated, Creating
  <2> QED BY <2>3, <2>4
<1>6. CASE Look(q)
  <2>1. /\ req[q].pc \in {"queued?", "running?"} /\ req'[q].pc \in {"found", "running?", "free"}
        /\ req'[q].slot = req[q].slot
        /\ \A t \in Requests \ {q} : req'[t] = req[t]
    BY <1>0, <1>6 DEF Look, Goes, Reqs
  <2>2. Unanswered' /\ SlotInOneHand'
    BY <1>0, <1>6, <2>1 DEF Look, OneHand, Unanswered, SlotInOneHand, HasRun, IsCreated, Creating, Claimed, Requests
  <2> QED BY <1>6, <2>2 DEF Look, OneHand, PushInOneHand, OriginsDiffer, HasRun, IsCreated, Creating
<1>7. CASE Respond(q)
  <2>1. CASE q \notin Ticks
    BY <1>7, <2>1, AnswerOneHand DEF Respond, OriginOf
  <2>2. CASE q \in Ticks
    <3> DEFINE mine == req[q].slot
    <3>1. Claimed(q) /\ mine \in Slots /\ OriginOf(q) = <<"slot", mine>>
      BY <1>0, <1>7, <2>2 DEF Respond, Claimed, Reqs, OriginOf
    <3>2. req'[q].pc = "idle" /\ \A t \in Requests \ {q} : req'[t] = req[t]
      BY <1>0, <1>7, <2>2 DEF Respond, Answered, Waiting
    <3>3. mine < next_run_at /\ ~HasRun(<<"slot", mine>>)
      BY <2>2, <3>1 DEF OneHand, SlotInOneHand
    <3>4. /\ Unanswered' /\ PushInOneHand' /\ OriginsDiffer'
          /\ \A x : HasRun(x)' => HasRun(x) \/ x = <<"slot", mine>>
      BY <1>7, <2>2, <3>1, <3>2, <3>3, SlotActed DEF Respond
    <3>5. SlotInOneHand'
      <4>1. next_run_at' = next_run_at
        BY <1>7 DEF Respond
      <4>2. \A j \in Slots : HasRun(<<"slot", j>>)' => j < next_run_at'
        BY <3>3, <3>4, <4>1 DEF OneHand, SlotInOneHand
      <4>3. \A t \in Ticks : Claimed(t)' => t # q /\ req'[t] = req[t] /\ Claimed(t)
        BY <3>2 DEF Claimed, Requests
      <4>4. \A t \in Ticks, k \in Slots : Claimed(t)' /\ req'[t].slot = k => k < next_run_at' /\ ~HasRun(<<"slot", k>>)'
        BY <2>2, <3>1, <3>4, <4>1, <4>3 DEF OneHand, SlotInOneHand
      <4>5. \A t, u \in Ticks : Claimed(t)' /\ Claimed(u)' /\ req'[t].slot = req'[u].slot => t = u
        BY <4>3 DEF OneHand, SlotInOneHand
      <4>6. \A t \in Requests : req'[t].pc = "claim" => t \in Ticks /\ req'[t].slot <= req'[t].time
        BY <3>2 DEF OneHand, SlotInOneHand
      <4> QED BY <4>2, <4>4, <4>5, <4>6 DEF SlotInOneHand
    <3> QED BY <3>4, <3>5 DEF OneHand
  <2> QED BY <2>1, <2>2
<1> QED BY <1>1, <1>2, <1>3, <1>4, <1>5, <1>6, <1>7 DEF Handle

\* A push that is taken leaves the project, and its run is started at once
\* (inline) or by the worker that took it.
LEMMA TakeOneHand ==
  ASSUME TypeOK, RunsNamed, OneHand, NEW r \in RunIds, Takes(r), pending' = NoPush,
         UNCHANGED <<req, next_run_at>>, runs' = [runs EXCEPT ![r].at = "create"]
  PROVE  OneHand'
<1>1. runs[r].push \in Pushes /\ pending = runs[r].push
  BY DEF Takes, TypeOK, Docs
<1>2. ~HasRun(<<"push", pending>>) /\ ~IsCreated(pending)
  BY <1>1 DEF OneHand, PushInOneHand
<1>3. \A x : HasRun(x)' <=> HasRun(x)
  BY DEF HasRun, TypeOK, Docs
<1>4. \A s \in RunIds, p \in Pushes : Creating(s, p)' => Creating(s, p) \/ (s = r /\ p = pending)
  BY <1>1 DEF Creating, TypeOK, Docs
<1>5. \A p \in Pushes : IsCreated(p)' => IsCreated(p) \/ p = pending
  BY <1>4 DEF IsCreated
<1>6. \A p \in Pushes : pending' # p
  BY DEF Pushes, NoPush
<1>7. Unanswered'
  BY <1>3, <1>5, <1>6 DEF OneHand, Unanswered
<1>8. PushInOneHand'
  <2>1. \A p \in Pushes : IsCreated(p)' => ~HasRun(<<"push", p>>)'
    BY <1>2, <1>3, <1>5 DEF OneHand, PushInOneHand
  <2>2. ASSUME NEW p \in Pushes, NEW s \in RunIds, NEW t \in RunIds, Creating(s, p)', Creating(t, p)'
        PROVE  s = t
    BY <1>2, <1>4, <2>2 DEF OneHand, PushInOneHand, IsCreated
  <2> QED BY <1>6, <2>1, <2>2 DEF PushInOneHand
<1>9. SlotInOneHand'
  BY <1>3 DEF OneHand, SlotInOneHand, Claimed
<1>10. OriginsDiffer'
  BY DEF OneHand, OriginsDiffer, TypeOK, Docs
<1> QED BY <1>7, <1>8, <1>9, <1>10 DEF OneHand

\* The run of a push that nobody else holds.
LEMMA PushOneHand ==
  ASSUME TypeOK, RunsNamed, OneHand, NEW p \in Pushes, NEW s \in RunIds, Free(s), ~HasRun(<<"push", p>>),
         req[<<"push", p>>].pc = "done", pending' # p, pending' \in {pending, NoPush},
         UNCHANGED <<req, next_run_at>>, runs'[s].origin = <<"push", p>>,
         \A t \in RunIds \ {s} : runs'[t].origin = runs[t].origin,
         \A t \in RunIds, x \in Pushes : Creating(t, x)' => Creating(t, x) /\ x # p
  PROVE  OneHand'
<1>1. OriginsDiffer' /\ \A x : HasRun(x)' => HasRun(x) \/ x = <<"push", p>>
  BY NewRun DEF OneHand
<1>2. \A x \in Pushes : IsCreated(x)' => IsCreated(x) /\ x # p
  BY DEF IsCreated
<1>3. \A x \in Pushes : pending' = x => pending = x /\ x # p
  BY DEF Pushes, NoPush
<1>4. Unanswered'
  BY <1>1, <1>2, <1>3 DEF OneHand, Unanswered
<1>5. PushInOneHand'
  <2>1. \A x \in Pushes : x # p => <<"push", x>> # <<"push", p>>
    OBVIOUS
  <2> QED BY <1>1, <1>2, <1>3, <2>1 DEF OneHand, PushInOneHand
<1>6. SlotInOneHand'
  <2>1. \A k \in Slots : HasRun(<<"slot", k>>)' => HasRun(<<"slot", k>>)
    BY <1>1
  <2> QED BY <2>1 DEF OneHand, SlotInOneHand, Claimed
<1> QED BY <1>1, <1>4, <1>5, <1>6 DEF OneHand

\* Only a push that was answered waits or is being started.
LEMMA HeldIsAnswered ==
  ASSUME OneHand, NEW p \in Pushes, pending = p \/ IsCreated(p)
  PROVE  req[<<"push", p>>].pc = "done"
BY KindsDiffer DEF OneHand, Unanswered

LEMMA RunOneHand ==
  ASSUME TypeOK, RunsNamed, OneHand, NEW r \in RunIds, Execute(r) \/ Cancel(r) \/ Die(r) \/ Outage(r)
  PROVE  OneHand'
<1> USE DEF TypeOK, Docs, Executing
<1>1. CASE RunBegins(r)
  BY <1>1, Aging DEF RunBegins
<1>2. CASE RunEnds(r)
  BY <1>2, Aging DEF RunEnds
<1>3. CASE ReadProject(r)
  BY <1>3, Aging DEF ReadProject
<1>4. CASE _start_pending_push(r)
  <2>1. CASE runs' = [runs EXCEPT ![r].at = "done"] /\ UNCHANGED pending
    BY <1>4, <2>1, Aging DEF _start_pending_push
  <2>2. CASE Takes(r) /\ runs' = [runs EXCEPT ![r].at = "create"] /\ pending' = NoPush
    BY <1>4, <2>2, TakeOneHand DEF _start_pending_push
  <2>3. CASE Takes(r) /\ pending' = NoPush /\ \E s \in RunIds :
               Free(s) /\ runs' = [runs EXCEPT ![r].at = "done", ![s] = Queued(<<"push", runs[r].push>>)]
    <3>1. PICK s \in RunIds :
            Free(s) /\ runs' = [runs EXCEPT ![r].at = "done", ![s] = Queued(<<"push", runs[r].push>>)]
      BY <2>3
    <3> DEFINE p == runs[r].push
    <3>2. p \in Pushes /\ pending = p /\ pending' # p
      BY <2>3 DEF Takes, Pushes, NoPush
    <3>3. ~HasRun(<<"push", p>>) /\ ~IsCreated(p) /\ req[<<"push", p>>].pc = "done"
      BY <3>2, HeldIsAnswered DEF OneHand, PushInOneHand
    <3>4. runs'[s].origin = <<"push", p>> /\ \A t \in RunIds \ {s} : runs'[t].origin = runs[t].origin
      BY <3>1 DEF Queued
    <3>5. \A t \in RunIds, x \in Pushes : Creating(t, x)' => Creating(t, x)
      BY <3>1 DEF Queued, Creating
    <3>6. \A t \in RunIds, x \in Pushes : Creating(t, x)' => Creating(t, x) /\ x # p
      BY <3>3, <3>5 DEF IsCreated
    <3>7. UNCHANGED <<req, next_run_at>>
      BY <1>4 DEF _start_pending_push
    <3> HIDE DEF p
    <3> QED BY <2>3, <3>1, <3>2, <3>3, <3>4, <3>6, <3>7, PushOneHand
  <2> QED BY <1>4, <2>1, <2>2, <2>3 DEF _start_pending_push
<1>5. CASE CreatePending(r)
  <2>1. PICK s \in RunIds :
          Free(s) /\ runs' = [runs EXCEPT ![r].at = "done", ![s] = Queued(<<"push", runs[r].push>>)]
    BY <1>5 DEF CreatePending
  <2> DEFINE p == runs[r].push
  <2>2. p \in Pushes /\ Creating(r, p) /\ IsCreated(p)
    BY <1>5 DEF CreatePending, RunsNamed, Creating, IsCreated
  <2>3. ~HasRun(<<"push", p>>) /\ pending # p /\ req[<<"push", p>>].pc = "done"
    BY <2>2, HeldIsAnswered DEF OneHand, PushInOneHand
  <2>4. runs'[s].origin = <<"push", p>> /\ \A t \in RunIds \ {s} : runs'[t].origin = runs[t].origin
    BY <2>1 DEF Queued
  <2>5. \A t \in RunIds, x \in Pushes : Creating(t, x)' => Creating(t, x) /\ t # r
    <3> SUFFICES ASSUME NEW t \in RunIds, NEW x \in Pushes, Creating(t, x)'
                 PROVE  Creating(t, x) /\ t # r
      OBVIOUS
    <3>1. t # s
      BY <2>1 DEF Queued, Creating
    <3>2. ASSUME t = r PROVE FALSE
      <4>1. runs'[r].at = "done"
        BY <2>1, <3>1, <3>2
      <4> QED BY <3>2, <4>1 DEF Creating
    <3>3. runs'[t] = runs[t]
      BY <2>1, <3>1, <3>2
    <3> QED BY <3>2, <3>3 DEF Creating
  <2>6. \A t \in RunIds, x \in Pushes : Creating(t, x)' => Creating(t, x) /\ x # p
    <3>1. \A t \in RunIds : Creating(t, p) => t = r
      BY <2>2 DEF OneHand, PushInOneHand
    <3> HIDE DEF p
    <3> QED BY <2>5, <3>1
  <2>7. UNCHANGED <<req, next_run_at, pending>>
    BY <1>5 DEF CreatePending
  <2> HIDE DEF p
  <2> QED BY <2>1, <2>2, <2>3, <2>4, <2>6, <2>7, PushOneHand
<1>6. CASE Reap(r)
  BY <1>6, Aging DEF Reap
<1>7. CASE Cancel(r)
  BY <1>7, Aging DEF Cancel
<1>8. CASE Die(r)
  BY <1>8, Aging DEF Die
<1>9. CASE Outage(r)
  BY <1>9, Aging DEF Outage
<1> QED BY <1>1, <1>2, <1>3, <1>4, <1>5, <1>6, <1>7, <1>8, <1>9 DEF Execute

LEMMA NextOneHand == ASSUME TypeOK, RunsNamed, OneHand, [Next]_vars PROVE OneHand'
<1>1. CASE \E q \in Requests : Request(q) \/ Begin(q) \/ Handle(q)
  BY <1>1, RequestOneHand
<1>2. CASE \E r \in RunIds : Execute(r) \/ Cancel(r) \/ Die(r) \/ Outage(r)
  BY <1>2, RunOneHand
<1>3. CASE Restart
  BY <1>3, Aging DEF Restart, TypeOK, Docs
<1>4. CASE Clock \/ UNCHANGED vars
  BY <1>4, Aging DEF Clock, vars
<1> QED BY <1>1, <1>2, <1>3, <1>4 DEF Next

LEMMA InitOneHand == ASSUME Init PROVE RunsNamed /\ OneHand
<1>1. \A r \in RunIds : runs[r] = NoRun
  BY DEF Init
<1>2. RunsNamed /\ OriginsDiffer /\ (\A p \in Pushes : ~IsCreated(p))
  BY <1>1 DEF NoRun, RunsNamed, OriginsDiffer, IsCreated, Creating
<1>3. \A o \in Origins : ~HasRun(o)
  BY <1>1, KindsDiffer DEF NoRun, HasRun
<1>4. \A p \in Pushes : pending # p
  BY DEF Init, Pushes, NoPush
<1>5. Unanswered /\ PushInOneHand
  BY <1>2, <1>3, <1>4, OriginTypes DEF Unanswered, PushInOneHand, IsCreated
<1>6. SlotInOneHand
  <2>1. \A q \in Requests : req[q].pc = "idle"
    BY DEF Init, Waiting
  <2> QED BY <1>3, <2>1, OriginTypes DEF SlotInOneHand, Claimed, Requests
<1> QED BY <1>2, <1>5, <1>6 DEF OneHand

LEMMA AlwaysOneHand == Spec => [](TypeOK /\ RunsNamed /\ OneHand)
<1>1. Init => TypeOK /\ RunsNamed /\ OneHand
  BY InitType, InitOneHand
<1>2. TypeOK /\ RunsNamed /\ OneHand /\ [Next]_vars => (TypeOK /\ RunsNamed /\ OneHand)'
  BY NextType, NextNamed, NextOneHand
<1> QED BY <1>1, <1>2, PTL DEF Spec

\* Every variable keeps its type.
THEOREM TypeCorrect == Spec => []TypeOK
BY AlwaysOneHand, PTL

\* No push and no slot of the schedule starts two runs.
THEOREM NothingStartsTwice == Spec => []StartedOnce
<1>1. TypeOK /\ RunsNamed /\ OneHand => StartedOnce
  <2> SUFFICES ASSUME TypeOK, RunsNamed, OneHand, NEW r \in RunIds, NEW s \in RunIds, Exists(r), Exists(s),
                      runs[r].origin = runs[s].origin
               PROVE  r = s
    BY DEF StartedOnce
  <2> QED BY DEF Exists, RunsNamed, OneHand, OriginsDiffer
<1> QED BY <1>1, AlwaysOneHand, PTL

----------------------------------------------------------------------------
(* No push is forgotten *)

\* What an answer does about a push: it waits, or it has a run.
LEMMA ActRemembers ==
  ASSUME TypeOK, NEW p \in Pushes, NEW found, Act(<<"push", p>>, <<"push", p>>, found)
  PROVE  Remembered(p)'
<1>1. <<"push", p>> \in PushRequests
  BY DEF PushRequests
<1>2. CASE Queue(<<"push", p>>)
  BY <1>2 DEF Queue, Remembered
<1>3. CASE start_run(<<"push", p>>)
  BY <1>3 DEF start_run, Queued, Remembered, TypeOK
<1> QED BY <1>1, <1>2, <1>3 DEF Act

\* Requests keep what is remembered: a waiting push is only replaced, and a new
\* run takes a place that had none.
LEMMA RequestRemembers ==
  ASSUME TypeOK, RunsNamed, NEW q \in Requests, Request(q) \/ Begin(q) \/ Handle(q),
         NEW p \in Pushes, Remembered(p)
  PROVE  Remembered(p)'
<1>1. /\ \/ runs' = runs
         \/ \E s \in RunIds, o \in Origins : Free(s) /\ runs' = [runs EXCEPT ![s] = Queued(o)]
      /\ pending' # pending => replaced' = replaced \union ({pending} \ {NoPush})
      /\ replaced \subseteq replaced'
  <2>1. <<"slot", next_run_at>> \in Origins /\ (q \notin Ticks => q \in Origins) /\ OriginOf(q) \in Origins
    BY OriginTypes DEF TypeOK, Reqs, OriginOf
  <2> QED BY <2>1 DEF Handle, Request, Arrives, Begin, Tick, Due, Claim, Look, Respond, Act, Queue, start_run
<1>2. CASE pending = p \/ p \in replaced
  BY <1>1, <1>2 DEF Remembered, Pushes, NoPush
<1>3. CASE \E r \in RunIds : runs[r].origin = <<"push", p>>
  <2>1. PICK r \in RunIds : runs[r].origin = <<"push", p>>
    BY <1>3
  <2>2. ~Free(r)
    BY <2>1 DEF Free, Exists, RunsNamed, NoOrigin
  <2>3. runs'[r] = runs[r]
    BY <1>1, <2>2 DEF TypeOK
  <2> QED BY <2>1, <2>3 DEF Remembered
<1>4. CASE \E r \in RunIds : runs[r].at = "create" /\ runs[r].push = p
  <2>1. PICK r \in RunIds : runs[r].at = "create" /\ runs[r].push = p
    BY <1>4
  <2>2. ~Free(r)
    BY <2>1 DEF Free, Exists, RunsNamed
  <2>3. runs'[r] = runs[r]
    BY <1>1, <2>2 DEF TypeOK
  <2> QED BY <2>1, <2>3 DEF Remembered
<1> QED BY <1>2, <1>3, <1>4 DEF Remembered

\* So do the runs: a run that takes the waiting push starts it.
LEMMA RunRemembers ==
  ASSUME TypeOK, RunsNamed, NEW r \in RunIds, Execute(r), NEW p \in Pushes, Remembered(p)
  PROVE  Remembered(p)'
<1> USE DEF TypeOK, Docs
<1>1. replaced' = replaced
  BY DEF Execute, RunBegins, RunEnds, ReadProject, _start_pending_push, CreatePending, Reap
<1>2. CASE RunBegins(r) \/ RunEnds(r) \/ ReadProject(r) \/ Reap(r) \/ (_start_pending_push(r) /\ ~Takes(r))
  <2>1. /\ pending' = pending
        /\ \A s \in RunIds : runs'[s].origin = runs[s].origin
        /\ \A s \in RunIds : runs[s].at = "create" => runs'[s].at = "create" /\ runs'[s].push = runs[s].push
    <3>1. CASE RunBegins(r)
      BY <3>1 DEF RunBegins, CanBegin
    <3>2. CASE RunEnds(r)
      BY <3>2 DEF RunEnds
    <3>3. CASE ReadProject(r) \/ Reap(r)
      BY <3>3 DEF ReadProject, Reap
    <3>4. CASE _start_pending_push(r) /\ ~Takes(r)
      BY <3>4 DEF _start_pending_push
    <3> QED BY <1>2, <3>1, <3>2, <3>3, <3>4
  <2> QED BY <1>1, <2>1 DEF Remembered
<1>3. CASE _start_pending_push(r) /\ Takes(r) /\ ~Inline
  <2>1. /\ runs' = [runs EXCEPT ![r].at = "create"] /\ runs[r].push = pending /\ runs[r].at = "notify"
    BY <1>3 DEF _start_pending_push, Takes
  <2>2. /\ \A s \in RunIds : runs'[s].origin = runs[s].origin
        /\ \A s \in RunIds : runs[s].at = "create" => runs'[s].at = "create" /\ runs'[s].push = runs[s].push
        /\ runs'[r].at = "create" /\ runs'[r].push = pending
    BY <2>1
  <2> QED BY <1>1, <2>2 DEF Remembered
<1>4. CASE CreatePending(r) \/ (_start_pending_push(r) /\ Takes(r) /\ Inline)
  <2>1. PICK s \in RunIds :
          Free(s) /\ runs' = [runs EXCEPT ![r].at = "done", ![s] = Queued(<<"push", runs[r].push>>)]
    BY <1>4 DEF CreatePending, _start_pending_push
  <2>2. runs'[s].origin = <<"push", runs[r].push>>
    BY <2>1 DEF Queued
  <2>3. runs[s].origin = NoOrigin /\ runs[s].at = "none" /\ s # r
    BY <1>4, <2>1 DEF Free, Exists, RunsNamed, CreatePending, _start_pending_push
  <2>4. \A t \in RunIds \ {s} : runs'[t].origin = runs[t].origin /\ (t # r => runs'[t] = runs[t])
    BY <2>1
  <2>5. pending' = pending \/ runs[r].push = pending
    BY <1>4 DEF CreatePending, _start_pending_push, Takes
  <2>6. CASE pending = p \/ p \in replaced
    BY <1>1, <2>2, <2>5, <2>6 DEF Remembered
  <2>7. CASE \E t \in RunIds : runs[t].origin = <<"push", p>>
    BY <2>3, <2>4, <2>7 DEF Remembered, NoOrigin
  <2>8. CASE \E t \in RunIds : runs[t].at = "create" /\ runs[t].push = p
    BY <2>2, <2>3, <2>4, <2>8 DEF Remembered
  <2> QED BY <2>6, <2>7, <2>8 DEF Remembered
<1> QED BY <1>2, <1>3, <1>4 DEF Execute

\* A push is newly answered only by an answer.
LEMMA NewlyDone ==
  ASSUME TypeOK, [Next]_vars, NEW p \in Pushes, req[<<"push", p>>].pc # "done", req'[<<"push", p>>].pc = "done"
  PROVE  Remembered(p)'
<1> DEFINE mine == <<"push", p>>
<1>0. mine \in Requests \ Ticks
  BY KindsDiffer
<1>1. PICK q \in Requests : Request(q) \/ Begin(q) \/ Handle(q)
  BY <1>0 DEF Next, vars, Execute, RunBegins, RunEnds, ReadProject, _start_pending_push, CreatePending, Reap,
              Cancel, Die, Outage, Restart, Clock
<1>2. q = mine
  BY <1>0, <1>1 DEF Handle, Request, Begin, Tick, Due, Claim, Look, Respond, Goes, TypeOK
<1>3. Request(mine) \/ Respond(mine)
  BY <1>0, <1>1, <1>2 DEF Handle, Begin, Tick, Due, Claim, Look, Goes, TypeOK, Reqs, Waiting
<1> QED BY <1>0, <1>3, ActRemembers DEF Request, Respond, OriginOf

LEMMA ForgottenStep ==
  ASSUME TypeOK, RunsNamed, NoPushForgotten, [Next]_vars
  PROVE  NoPushForgotten'
<1> SUFFICES ASSUME faults' = 0, NEW p \in Pushes, req'[<<"push", p>>].pc = "done"
             PROVE  Remembered(p)'
  BY DEF NoPushForgotten
<1>1. /\ faults = 0 /\ ~Restart
      /\ \A r \in RunIds : ~Cancel(r) /\ ~Die(r) /\ ~Outage(r)
  <2>1. faults \in Nat
    BY DEF TypeOK
  <2>2. \A kind : ~Fault(kind)
    BY <2>1 DEF Fault
  <2>3. ~Restart /\ \A r \in RunIds : ~Cancel(r) /\ ~Die(r) /\ ~Outage(r)
    BY <2>2 DEF Restart, Cancel, Die, Outage
  <2>4. faults' = faults
    BY <2>3 DEF Next, vars, Handle, Request, Begin, Tick, Due, Claim, Look, Respond, Clock,
                Execute, RunBegins, RunEnds, ReadProject, _start_pending_push, CreatePending, Reap
  <2> QED BY <2>3, <2>4
<1>2. CASE req[<<"push", p>>].pc # "done"
  BY <1>2, NewlyDone
<1>3. CASE req[<<"push", p>>].pc = "done"
  <2>1. Remembered(p)
    BY <1>1, <1>3 DEF NoPushForgotten
  <2>2. CASE UNCHANGED <<runs, pending, replaced>>
    BY <2>1, <2>2 DEF Remembered
  <2>3. CASE \E q \in Requests : Request(q) \/ Begin(q) \/ Handle(q)
    BY <2>1, <2>3, RequestRemembers
  <2>4. CASE \E r \in RunIds : Execute(r)
    BY <2>1, <2>4, RunRemembers
  <2> QED BY <1>1, <2>2, <2>3, <2>4 DEF Next, Clock, vars
<1> QED BY <1>2, <1>3

\* While nothing fails, every push that was answered has a run, waits, was
\* replaced, or is being started.
THEOREM PushesAreRemembered == Spec => []NoPushForgotten
<1>1. Init => NoPushForgotten
  BY KindsDiffer DEF Init, NoPushForgotten, Waiting
<1>2. TypeOK /\ RunsNamed /\ NoPushForgotten /\ [Next]_vars => NoPushForgotten'
  BY ForgottenStep
<1> QED BY <1>1, <1>2, AlwaysOneHand, PTL DEF Spec
=============================================================================
