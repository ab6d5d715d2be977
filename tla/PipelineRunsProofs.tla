------------------------- MODULE PipelineRunsProofs -------------------------
(***************************************************************************)
(* Proofs about PipelineRuns, for any number of workers, runs, stages and  *)
(* faults: its type invariant and that no run is ever executed twice; and, *)
(* where only deaths disturb it, that ended runs are closed and that every *)
(* step is one of RunLifecycle or a stutter.                               *)
(***************************************************************************)
EXTENDS PipelineRuns, TLAPS

----------------------------------------------------------------------------
(* Type correctness *)

\* What a process's place says of its local variables; with TypeOK this is
\* inductive.
LocalOK ==
  /\ \A w \in Workers :
       /\ pc[w] \in Executing \cup {"reapEnd", "reapFinish"} => job[w] \in RunIds
       /\ pc[w] \in {"finish", "endFinish"} => copy[w].status \in Ended
  /\ cancel.pc # "idle" => cancel.id \in RunIds

TypeInv == TypeOK /\ LocalOK

LEMMA RowsElim ==
  ASSUME NEW x \in Rows
  PROVE  DOMAIN x \subseteq RunIds /\ \A q \in DOMAIN x : x[q] \in Docs
BY DEF Rows

LEMMA RowsIntro ==
  ASSUME NEW ids \in SUBSET RunIds, NEW f \in [ids -> Docs]
  PROVE  f \in Rows
BY DEF Rows

LEMMA NoDocType == NoDoc \in Docs
BY PipelineRunsAssumption DEF NoDoc, Docs, Statuses, Stages, NoWorker

LEMMA NoRowsType == NoRows \in Rows
<1>1. NoRows \in [{} -> Docs]
  BY DEF NoRows
<1> QED BY <1>1, RowsIntro

\* Removing a row leaves rows.
LEMMA RowsWithoutType ==
  ASSUME TypeOK, NEW w \in Workers, NEW r
  PROVE  RowsWithout(w, r) \in Rows
<1>1. rows[w] \in Rows
  BY DEF TypeOK
<1>2. RowsWithout(w, r) \in [DOMAIN rows[w] \ {r} -> Docs]
  BY <1>1, RowsElim DEF RowsWithout
<1> QED BY <1>1, <1>2, RowsElim, RowsIntro

\* Closing stages leaves stages.
LEMMA CloseAllType == ASSUME NEW stages PROVE CloseAll(stages) \in Stages
BY DEF CloseAll, Stages

\* A write to a run's status and stages leaves a document.
LEMMA DocWrite ==
  ASSUME NEW d \in Docs, NEW st \in Statuses, NEW sg \in Stages
  PROVE  /\ [d EXCEPT !.status = st] \in Docs
         /\ [d EXCEPT !.stages = sg] \in Docs
         /\ [d EXCEPT !.status = st, !.stages = sg] \in Docs
BY DEF Docs

LEMMA DocError ==
  ASSUME NEW d \in Docs
  PROVE  [d EXCEPT !.status = "error"] \in Docs /\ [d EXCEPT !.status = "error"].status = "error"
<1>1. "error" \in Statuses
  BY DEF Statuses, Ended
<1> QED BY <1>1 DEF Docs

\* So does a claim.
LEMMA DocClaim ==
  ASSUME NEW d \in Docs, NEW w \in Workers
  PROVE  [d EXCEPT !.status = "running", !.worker = w, !.heartbeat_at = 1] \in Docs
<1>1. 1 \in 0..MaxBeats /\ "running" \in Statuses
  BY PipelineRunsAssumption DEF Statuses, ACTIVE
<1> QED BY <1>1 DEF Docs

\* Store.update leaves documents.
LEMMA UpdateType ==
  ASSUME runs \in [RunIds -> Docs], NEW r \in RunIds, NEW doc \in Docs, Update(r, doc)
  PROVE  runs' \in [RunIds -> Docs]
BY DEF Update

\* A stage that starts or closes leaves a worker's copy.
LEMMA CopyMove ==
  ASSUME NEW c \in [status: Statuses, stages: Stages], NEW s \in StageKeys, NEW to \in {"running", "closed"}
  PROVE  [c EXCEPT !.stages = [@ EXCEPT ![s] = to]] \in [status: Statuses, stages: Stages]
<1>1. [c.stages EXCEPT ![s] = to] \in Stages
  BY DEF Stages
<1> QED BY <1>1

\* So does a heartbeat.
LEMMA DocBeat ==
  ASSUME NEW d \in Docs, d.heartbeat_at < MaxBeats
  PROVE  [d EXCEPT !.heartbeat_at = @ + 1] \in Docs
<1>1. d.heartbeat_at + 1 \in 0..MaxBeats
  BY PipelineRunsAssumption DEF Docs
<1> QED BY <1>1 DEF Docs

LEMMA InitTypeInv == ASSUME Init PROVE TypeInv
<1> USE DEF Init
<1>1. NoCopy \in [status: Statuses, stages: Stages]
  BY NoDocType DEF NoCopy, Docs, Statuses, ACTIVE
<1>2. cancel \in [pc: {"idle", "end", "finish", "mark"}, id: RunIds \cup {NoRun}, stages: Stages]
  BY NoDocType DEF NoCancel, Docs
<1>3. nextId \in 0..MaxRuns /\ age \in [RunIds -> 0..Stale] /\ faults \in 0..MaxFaults
      /\ starts \in [RunIds -> Nat]
  BY PipelineRunsAssumption
<1>4. TypeOK
  BY <1>1, <1>2, <1>3, NoDocType, NoRowsType DEF TypeOK, PCs
<1>5. LocalOK
  BY DEF LocalOK, NoCancel, Executing
<1> QED BY <1>4, <1>5 DEF TypeInv

LEMMA ApiTypeInv ==
  ASSUME TypeInv, Api
  PROVE  TypeInv'
<1> USE DEF TypeInv, TypeOK, LocalOK, store, api
<1>1. CASE AllocateId
  BY <1>1, PipelineRunsAssumption DEF AllocateId
<1>2. CASE \E r \in RunIds : CreateRun(r)
  <2>1. PICK r \in RunIds : CreateRun(r)
    BY <1>2
  <2>2. [NoDoc EXCEPT !.status = "queued"] \in Docs
    BY NoDocType, DocWrite DEF Docs, Statuses, ACTIVE
  <2> QED BY <2>1, <2>2 DEF CreateRun
<1>3. CASE \E r \in RunIds : CancelRead(r)
  <2>1. PICK r \in RunIds : CancelRead(r)
    BY <1>3
  <2>2. runs[r].stages \in Stages
    BY DEF Docs
  <2> QED BY <2>1, <2>2 DEF CancelRead
<1>4. CASE CancelEnd
  <2>1. cancel.id \in RunIds
    BY <1>4 DEF CancelEnd
  <2>2. runs' \in [RunIds -> Docs]
    BY <1>4, <2>1, UpdateType, DocWrite, CloseAllType DEF CancelEnd, Statuses, Ended
  <2> QED BY <1>4, <2>2 DEF CancelEnd
<1>5. CASE CancelFinish
  BY <1>5 DEF CancelFinish, FinishProject, Ended
<1>6. CASE CancelMark
  <2>1. cancel.id \in RunIds
    BY <1>6 DEF CancelMark
  <2>2. [runs[cancel.id] EXCEPT !.status = "cancelled"] \in Docs
    BY <2>1, DocWrite DEF Statuses, Ended
  <2>3. runs' \in [RunIds -> Docs]
    BY <1>6, <2>1, <2>2, UpdateType DEF CancelMark
  <2>4. NoCancel \in [pc: {"idle", "end", "finish", "mark"}, id: RunIds \cup {NoRun}, stages: Stages]
    BY NoDocType DEF NoCancel, Docs
  <2> QED BY <1>6, <2>3, <2>4 DEF CancelMark, NoCancel
<1>7. CASE DeleteFind
  BY <1>7 DEF DeleteFind
<1>8. CASE \E r \in RunIds : DeleteRun(r)
  <2>1. PICK r \in RunIds : DeleteRun(r)
    BY <1>8
  <2>2. [runs[r] EXCEPT !.status = "deleted"] \in Docs
    BY DocWrite DEF Statuses
  <2>3. runs' \in [RunIds -> Docs]
    BY <2>1, <2>2 DEF DeleteRun
  <2> QED BY <2>1, <2>3 DEF DeleteRun
<1>9. CASE DeleteProject
  BY <1>9 DEF DeleteProject
<1> QED BY <1>1, <1>2, <1>3, <1>4, <1>5, <1>6, <1>7, <1>8, <1>9 DEF Api

LEMMA LoopTypeInv ==
  ASSUME TypeInv, NEW w \in Workers, Loop(w)
  PROVE  TypeInv'
<1> USE DEF TypeInv, TypeOK, LocalOK, store, api
<1>1. CASE ReapFind(w)
  <2>1. [r \in {q \in DOMAIN Find("running") : IsStale(q)} |-> runs[r]] \in Rows
    <3> DEFINE ids == {q \in DOMAIN Find("running") : IsStale(q)}
    <3>1. ids \in SUBSET RunIds /\ [r \in ids |-> runs[r]] \in [ids -> Docs]
      BY DEF Find
    <3> QED BY <3>1, RowsIntro
  <2> QED BY <1>1, <2>1 DEF ReapFind, PCs, Executing
<1>2. CASE \E r \in RunIds : ReapMark(w, r)
  <2>1. PICK r \in RunIds : ReapMark(w, r)
    BY <1>2
  <2>2. RowsWithout(w, r) \in Rows
    BY RowsWithoutType
  <2>3. [runs EXCEPT ![r].status = "error"] \in [RunIds -> Docs]
    BY DEF Docs, Statuses, Ended
  <2>4. CASE StillSilent(w, r)
    <3>1. /\ runs' = [runs EXCEPT ![r].status = "error"]
          /\ job' = [job EXCEPT ![w] = r]
          /\ pc' = [pc EXCEPT ![w] = "reapEnd"]
          /\ UNCHANGED <<rows, nextId, inserting, age, project, lastRun, api, copy,
                         reapDue, faults, starts>>
      BY <2>1, <2>4 DEF ReapMark
    <3>2. runs' \in [RunIds -> Docs] /\ job' \in [Workers -> RunIds \cup {NoRun}]
          /\ pc' \in [Workers -> PCs]
      BY <2>3, <3>1 DEF PCs
    <3>3. LocalOK'
      BY <3>1 DEF Executing
    <3> QED BY <3>1, <3>2, <3>3
  <2>5. CASE ~StillSilent(w, r)
    BY <2>1, <2>2, <2>5 DEF ReapMark
  <2> QED BY <2>4, <2>5
<1>3. CASE ReapEnd(w)
  <2>1. job[w] \in RunIds
    BY <1>3 DEF ReapEnd
  <2>2. runs' \in [RunIds -> Docs]
    BY <1>3, <2>1, UpdateType, DocWrite, CloseAllType DEF ReapEnd, Statuses, Ended
  <2> QED BY <1>3, <2>2 DEF ReapEnd, PCs, Executing
<1>4. CASE ReapFinish(w)
  BY <1>4, RowsWithoutType DEF ReapFinish, FinishProject, PCs, Executing, Ended
<1>5. CASE ReapDone(w)
  BY <1>5 DEF ReapDone, PCs, Executing
<1>6. CASE ClaimFind(w)
  <2>1. Find("queued") \in Rows
    <3> DEFINE ids == {q \in RunIds : runs[q].status = "queued"}
    <3>1. Find("queued") \in [ids -> Docs]
      BY DEF Find
    <3> QED BY <3>1, RowsIntro
  <2> QED BY <1>6, <2>1 DEF ClaimFind, PCs, Executing
<1>7. CASE \E r \in RunIds : Claim(w, r)
  <2>1. PICK r \in RunIds : Claim(w, r)
    BY <1>7
  <2>2. RowsWithout(w, r) \in Rows
    BY RowsWithoutType
  <2>3. 0 \in 0..Stale
    BY PipelineRunsAssumption
  <2>4. CASE StillQueued(r)
    <3>1. runs' \in [RunIds -> Docs]
      <4>1. runs' = [runs EXCEPT ![r].status = "running", ![r].worker = w,
                                 ![r].heartbeat_at = 1]
        BY <2>1, <2>4 DEF Claim
      <4>2. [runs[r] EXCEPT !.status = "running", !.worker = w, !.heartbeat_at = 1] \in Docs
        BY DocClaim
      <4>3. \A q \in RunIds : runs'[q] = IF q = r
              THEN [runs[r] EXCEPT !.status = "running", !.worker = w, !.heartbeat_at = 1]
              ELSE runs[q]
        BY <4>1 DEF Docs
      <4> QED BY <4>1, <4>2, <4>3
    <3>2. age' \in [RunIds -> 0..Stale]
      BY <2>1, <2>3, <2>4 DEF Claim
    <3>3. /\ job' = [job EXCEPT ![w] = r] /\ rows' = [rows EXCEPT ![w] = NoRows]
          /\ pc' = [pc EXCEPT ![w] = "begin"]
          /\ UNCHANGED <<nextId, inserting, project, lastRun, api, copy, reapDue, faults, starts>>
      BY <2>1, <2>4 DEF Claim
    <3>4. TypeOK'
      BY <3>1, <3>2, <3>3, NoRowsType DEF PCs
    <3>5. LocalOK'
      BY <3>3 DEF Executing
    <3> QED BY <3>4, <3>5
  <2>5. CASE ~StillQueued(r)
    BY <2>1, <2>2, <2>5 DEF Claim
  <2> QED BY <2>4, <2>5
<1>8. CASE ClaimNone(w)
  BY <1>8 DEF ClaimNone, PCs, Executing
<1> QED BY <1>1, <1>2, <1>3, <1>4, <1>5, <1>6, <1>7, <1>8 DEF Loop

LEMMA ReleaseType ==
  ASSUME TypeInv, NEW w \in Workers, NEW at \in {"loop", "raised", "down"}, Release(w, at)
  PROVE  /\ pc' \in [Workers -> PCs] /\ job' \in [Workers -> RunIds \cup {NoRun}]
         /\ rows' \in [Workers -> Rows]
         /\ copy' \in [Workers -> [status: Statuses, stages: Stages]]
         /\ \A v \in Workers :
              /\ pc'[v] \in Executing \cup {"reapEnd", "reapFinish"} => job'[v] \in RunIds
              /\ pc'[v] \in {"finish", "endFinish"} => copy'[v].status \in Ended
<1>1. NoCopy \in [status: Statuses, stages: Stages]
  BY NoDocType DEF NoCopy, Docs, Statuses, ACTIVE
<1> QED BY <1>1, NoRowsType DEF TypeInv, TypeOK, LocalOK, Release, PCs, Executing

LEMMA ExecuteTypeInv ==
  ASSUME TypeInv, NEW w \in Workers, Execute(w)
  PROVE  TypeInv'
<1> USE DEF TypeInv, TypeOK, LocalOK, store, api
<1>0. pc[w] \in Executing => job[w] \in RunIds /\ runs[job[w]] \in Docs
  OBVIOUS
<1>1. CASE ExecuteRead(w)
  <2>1. CASE ~Exists(job[w]) \/ runs[job[w]].status = "cancelled"
    BY <1>1, <2>1, ReleaseType DEF ExecuteRead
  <2>2. CASE ~(~Exists(job[w]) \/ runs[job[w]].status = "cancelled")
    <3>1. [status |-> runs[job[w]].status, stages |-> runs[job[w]].stages]
            \in [status: Statuses, stages: Stages] /\ job[w] \in RunIds
      BY <1>0, <1>1 DEF Docs, ExecuteRead, Executing
    <3>2. /\ copy' \in [Workers -> [status: Statuses, stages: Stages]]
          /\ starts' \in [RunIds -> Nat]
          /\ pc' = [pc EXCEPT ![w] = "save"] /\ UNCHANGED <<job, rows>>
          /\ \A v \in Workers : v # w => copy'[v] = copy[v]
      <4>1. /\ copy' = [copy EXCEPT ![w] = [status |-> runs[job[w]].status,
                                              stages |-> runs[job[w]].stages]]
            /\ pc' = [pc EXCEPT ![w] = "save"]
            /\ starts' = [starts EXCEPT ![job[w]] = @ + 1]
            /\ UNCHANGED <<job, rows>>
        BY <1>1, <2>2 DEF ExecuteRead
      <4> QED BY <3>1, <4>1
    <3> QED BY <1>1, <3>1, <3>2 DEF ExecuteRead, PCs, Executing
  <2> QED BY <2>1, <2>2
<1>2. CASE ExecuteOrphan(w)
  <2>1. runs' \in [RunIds -> Docs]
    <3>1. [runs[job[w]] EXCEPT !.status = "error"] \in Docs
      BY <1>0, <1>2 DEF ExecuteOrphan, Executing, Statuses, Ended, Docs
    <3> QED BY <1>0, <1>2, <3>1, UpdateType DEF ExecuteOrphan, Executing
  <2> QED BY <1>2, <2>1, ReleaseType DEF ExecuteOrphan
<1>3. CASE ExecuteBegin(w)
  <2>1. runs' \in [RunIds -> Docs]
    BY <1>0, <1>3, UpdateType DEF ExecuteBegin, Executing, Statuses, ACTIVE, Docs
  <2> QED BY <1>3, <2>1 DEF ExecuteBegin, PCs, Executing, Statuses, ACTIVE
<1>4. CASE StageSave(w)
  <2>1. PICK s \in Open(copy[w].stages), to \in {"running", "closed"} :
          copy' = [copy EXCEPT ![w].stages = [@ EXCEPT ![s] = to]]
    BY <1>4 DEF StageSave
  <2>a. [copy[w] EXCEPT !.stages = [@ EXCEPT ![s] = to]] \in [status: Statuses, stages: Stages]
    BY CopyMove DEF Open
  <2>2. /\ copy' \in [Workers -> [status: Statuses, stages: Stages]]
        /\ \A v \in Workers : copy'[v].status = copy[v].status
    BY <2>1, <2>a
  <2>3. copy'[w].stages \in Stages
    BY <2>2
  <2>b. job[w] \in RunIds /\ runs[job[w]] \in Docs
    BY <1>0, <1>4 DEF StageSave, Executing
  <2>4. [runs[job[w]] EXCEPT !.stages = copy'[w].stages] \in Docs
    BY <2>3, <2>b, DocWrite
  <2>5. runs' \in [RunIds -> Docs]
    BY <1>4, <2>4, <2>b, UpdateType DEF StageSave
  <2> QED BY <1>4, <2>2, <2>5 DEF StageSave
<1>5. CASE Report(w)
  <2>1. PICK status \in {"passed", "failed", "error"}, at \in {"finish", "post"} :
          /\ Update(job[w], [runs[job[w]] EXCEPT !.status = status])
          /\ copy' = [copy EXCEPT ![w].status = status]
          /\ pc' = [pc EXCEPT ![w] = at]
    BY <1>5 DEF Report
  <2>2. [runs[job[w]] EXCEPT !.status = status] \in Docs
    BY <1>0, <1>5 DEF Report, Executing, Docs, Statuses, Ended
  <2>3. runs' \in [RunIds -> Docs]
    BY <1>0, <1>5, <2>1, <2>2, UpdateType DEF Report, Executing
  <2> QED BY <1>5, <2>1, <2>3 DEF Report, PCs, Executing, Statuses, Ended
<1>6. CASE EndError(w)
  <2>1. [status |-> "error", stages |-> CloseAll(copy[w].stages)]
          \in [status: Statuses, stages: Stages]
    BY CloseAllType DEF Statuses, Ended
  <2>2. copy' \in [Workers -> [status: Statuses, stages: Stages]] /\ copy'[w].status = "error"
        /\ \A v \in Workers : v # w => copy'[v] = copy[v]
    BY <1>6, <2>1 DEF EndError
  <2>3. runs' \in [RunIds -> Docs]
    BY <1>0, <1>6, <2>2, UpdateType, DocWrite DEF EndError, Executing, Statuses, Ended
  <2> QED BY <1>6, <2>2, <2>3 DEF EndError, PCs, Executing, Ended
<1>7. CASE ExecuteFinish(w)
  BY <1>7 DEF ExecuteFinish, FinishProject, PCs, Executing
<1>8. CASE ExecuteReturn(w)
  BY <1>8, ReleaseType DEF ExecuteReturn
<1> QED BY <1>1, <1>2, <1>3, <1>4, <1>5, <1>6, <1>7, <1>8 DEF Execute

LEMMA FaultTypeInv ==
  ASSUME TypeInv,
         \/ Tick
         \/ \E w \in Workers : Heartbeat(w) \/ Kill(w) \/ Restart(w) \/ Outage(w)
  PROVE  TypeInv'
<1> USE DEF TypeInv, TypeOK, LocalOK, store, api
<1>1. CASE Tick
  BY <1>1, PipelineRunsAssumption DEF Tick
<1>2. CASE \E w \in Workers : Heartbeat(w)
  <2>1. PICK w \in Workers : Heartbeat(w)
    BY <1>2
  <2>2. [runs[job[w]] EXCEPT !.heartbeat_at = @ + 1] \in Docs
    BY <2>1, DocBeat DEF Heartbeat
  <2>3. runs' \in [RunIds -> Docs]
    BY <2>1, <2>2 DEF Heartbeat
  <2>4. age' \in [RunIds -> 0..Stale]
    BY <2>1, PipelineRunsAssumption DEF Heartbeat
  <2> QED BY <2>1, <2>3, <2>4 DEF Heartbeat
<1>3. CASE \E w \in Workers : Kill(w)
  BY <1>3, ReleaseType, PipelineRunsAssumption DEF Kill
<1>4. CASE \E w \in Workers : Restart(w)
  BY <1>4 DEF Restart, PCs, Executing
<1>5. CASE \E w \in Workers : Outage(w)
  <2>1. PICK w \in Workers : Outage(w)
    BY <1>5
  <2>2. faults' \in 0..MaxFaults
    BY <2>1, PipelineRunsAssumption DEF Outage
  <2>3. CASE Release(w, "loop") /\ UNCHANGED runs
    BY <2>1, <2>2, <2>3, ReleaseType DEF Outage
  <2>4. CASE Release(w, "raised") /\ UNCHANGED runs
    BY <2>1, <2>2, <2>4, ReleaseType DEF Outage
  <2>5. CASE /\ pc[w] \in {"stages", "finish", "endFinish"}
             /\ pc' = [pc EXCEPT ![w] = "post"] /\ UNCHANGED <<runs, job, rows, copy>>
    BY <2>1, <2>2, <2>5 DEF Outage, PCs, Executing
  <2>6. CASE /\ pc[w] = "finish"
             /\ copy' = [copy EXCEPT ![w].status = "error"]
             /\ Update(job[w], [runs[job[w]] EXCEPT !.status = "error"])
             /\ pc' = [pc EXCEPT ![w] = "endFinish"] /\ UNCHANGED <<job, rows>>
    <3>1. runs' \in [RunIds -> Docs]
      <4>1. job[w] \in RunIds
        BY <2>6 DEF Executing
      <4>2. [runs[job[w]] EXCEPT !.status = "error"] \in Docs
        BY <4>1, DocError
      <4> QED BY <2>6, <4>1, <4>2, UpdateType
    <3>2. UNCHANGED <<nextId, inserting, age, project, lastRun, api, reapDue, starts>>
      BY <2>1 DEF Outage
    <3>3. TypeOK'
      BY <2>2, <2>6, <3>1, <3>2 DEF PCs, Statuses, Ended
    <3>4. LocalOK'
      BY <2>6, <3>2 DEF Executing, Ended
    <3> QED BY <3>3, <3>4
  <2> QED BY <2>1, <2>3, <2>4, <2>5, <2>6 DEF Outage
<1> QED BY <1>1, <1>2, <1>3, <1>4, <1>5

LEMMA StutterTypeInv == ASSUME TypeInv, UNCHANGED vars PROVE TypeInv'
BY DEF TypeInv, TypeOK, LocalOK, vars

\* Every reachable state is well typed, whatever the constants: in particular
\* a project is only ever shown a finished status by _finish_project.
THEOREM TypeCorrect == Spec => []TypeOK
<1>1. Init => TypeInv
  BY InitTypeInv
<1>2. TypeInv /\ [Next]_vars => TypeInv'
  BY ApiTypeInv, LoopTypeInv, ExecuteTypeInv, FaultTypeInv, StutterTypeInv DEF Next, Worker
<1>3. TypeInv => TypeOK
  BY DEF TypeInv
<1> QED BY <1>1, <1>2, <1>3, PTL DEF Spec
----------------------------------------------------------------------------
(* No run is executed twice *)

\* A run that is not yet or still queued was never begun and nobody holds it;
\* a run in execution has one holder; a holder that has not read its run yet
\* is the first to begin it.  Ids without a document are still unused.
ExecutedInv ==
  /\ \A r \in RunIds : runs[r].status \in {"absent", "queued"} =>
       starts[r] = 0 /\ \A w \in Workers : pc[w] \in Executing => job[w] # r
  /\ \A r \in RunIds : r \in inserting \/ r > nextId => runs[r].status = "absent"
  /\ \A r \in doomed : runs[r].status # "absent"
  /\ \A w, v \in Workers :
       pc[w] \in Executing /\ pc[v] \in Executing /\ job[w] = job[v] => w = v
  /\ \A w \in Workers : pc[w] = "begin" => starts[job[w]] = 0
  /\ ExecutedOnce

\* What most steps do: they hand out no run and re-queue none, and let
\* processes only leave execute_run or move on inside it.
Harmless ==
  /\ nextId' = nextId /\ inserting' = inserting /\ starts' = starts
  /\ doomed' \subseteq doomed
  /\ \A r \in RunIds : runs'[r].status = runs[r].status
       \/ (runs[r].status # "absent" /\ runs'[r].status \notin {"absent", "queued"})
  /\ \A w \in Workers : pc'[w] \in Executing =>
       /\ pc[w] \in Executing /\ job'[w] = job[w]
       /\ pc'[w] = "begin" => pc[w] = "begin"

LEMMA HarmlessKeepsInv ==
  ASSUME TypeInv, ExecutedInv, Harmless
  PROVE  ExecutedInv'
<1> USE DEF TypeInv, TypeOK, ExecutedInv, Harmless
<1>1. \A r \in RunIds : runs'[r].status \in {"absent", "queued"} =>
        /\ runs[r].status = runs'[r].status
        /\ starts'[r] = 0 /\ \A w \in Workers : pc'[w] \in Executing => job'[w] # r
  OBVIOUS
<1>2. \A r \in RunIds : r \in inserting' \/ r > nextId' => runs'[r].status = "absent"
  OBVIOUS
<1>3. \A r \in doomed' : runs'[r].status # "absent"
  OBVIOUS
<1>4. \A w, v \in Workers :
        pc'[w] \in Executing /\ pc'[v] \in Executing /\ job'[w] = job'[v] => w = v
  OBVIOUS
<1>5. \A w \in Workers : pc'[w] = "begin" => starts'[job'[w]] = 0
  BY DEF Executing
<1>6. ExecutedOnce'
  BY DEF ExecutedOnce
<1> QED BY <1>1, <1>2, <1>3, <1>4, <1>5, <1>6

\* Store.update never re-queues a run.
LEMMA UpdateHarmless ==
  ASSUME runs \in [RunIds -> Docs], NEW r \in RunIds, NEW doc \in Docs, Update(r, doc),
         doc.status \notin {"absent", "queued"} \/ doc.status = runs[r].status
  PROVE  \A q \in RunIds : runs'[q].status = runs[q].status
           \/ (runs[q].status # "absent" /\ runs'[q].status \notin {"absent", "queued"})
BY DEF Update, Exists

LEMMA ApiExecutedInv ==
  ASSUME TypeInv, ExecutedInv, Api
  PROVE  ExecutedInv'
<1> USE DEF store, api
<1>1. CASE AllocateId
  BY <1>1, PipelineRunsAssumption DEF AllocateId, TypeInv, TypeOK, ExecutedInv, ExecutedOnce, RunIds
<1>2. CASE \E r \in RunIds : CreateRun(r)
  <2>1. PICK r \in RunIds : CreateRun(r)
    BY <1>2
  <2>2. /\ runs' = [runs EXCEPT ![r] = [NoDoc EXCEPT !.status = "queued"]]
        /\ r \in inserting /\ inserting' = inserting \ {r}
        /\ UNCHANGED <<nextId, pc, job, starts, doomed>>
    BY <2>1 DEF CreateRun
  <2>3. \A q \in RunIds : runs'[q].status = IF q = r THEN "queued" ELSE runs[q].status
    BY <2>2 DEF NoDoc, TypeInv, TypeOK
  <2>4. runs[r].status = "absent" /\ r <= nextId
    BY <2>2, PipelineRunsAssumption DEF ExecutedInv, TypeInv, TypeOK, RunIds
  <2> QED BY <2>2, <2>3, <2>4 DEF ExecutedInv, ExecutedOnce, TypeInv, TypeOK, RunIds
<1>3. CASE \E r \in RunIds : CancelRead(r)
  BY <1>3, HarmlessKeepsInv DEF CancelRead, Harmless
<1>4. CASE CancelEnd
  <2>1. cancel.id \in RunIds /\ runs[cancel.id] \in Docs
    BY <1>4 DEF CancelEnd, TypeInv, TypeOK, LocalOK
  <2> DEFINE doc == [runs[cancel.id] EXCEPT !.status = "error", !.stages = CloseAll(cancel.stages)]
  <2>2. doc \in Docs /\ doc.status = "error"
    BY <2>1, DocWrite, CloseAllType DEF Docs, Statuses, Ended
  <2>3. Harmless
    BY <1>4, <2>1, <2>2, UpdateHarmless DEF CancelEnd, Harmless, TypeInv, TypeOK
  <2> QED BY <2>3, HarmlessKeepsInv
<1>5. CASE CancelFinish
  BY <1>5, HarmlessKeepsInv DEF CancelFinish, Harmless
<1>6. CASE CancelMark
  <2>1. cancel.id \in RunIds /\ runs[cancel.id] \in Docs
    BY <1>6 DEF CancelMark, TypeInv, TypeOK, LocalOK
  <2> DEFINE doc == [runs[cancel.id] EXCEPT !.status = "cancelled"]
  <2>2. doc \in Docs /\ doc.status = "cancelled"
    BY <2>1 DEF Docs, Statuses, Ended
  <2>3. Harmless
    BY <1>6, <2>1, <2>2, UpdateHarmless DEF CancelMark, Harmless, TypeInv, TypeOK
  <2> QED BY <2>3, HarmlessKeepsInv
<1>7. CASE DeleteFind
  BY <1>7 DEF DeleteFind, ExecutedInv, ExecutedOnce, Exists
<1>8. CASE \E r \in RunIds : DeleteRun(r)
  <2>1. PICK r \in RunIds : DeleteRun(r)
    BY <1>8
  <2>2. \A q \in RunIds : runs'[q].status = IF q = r THEN "deleted" ELSE runs[q].status
    BY <2>1 DEF DeleteRun, TypeInv, TypeOK, Docs
  <2>3. r \in doomed /\ doomed' \subseteq doomed /\ UNCHANGED <<nextId, inserting, pc, job, starts>>
    BY <2>1 DEF DeleteRun
  <2>4. runs[r].status # "absent"
    BY <2>3 DEF ExecutedInv
  <2>5. Harmless
    BY <2>2, <2>3, <2>4 DEF Harmless
  <2> QED BY <2>5, HarmlessKeepsInv
<1>9. CASE DeleteProject
  BY <1>9, HarmlessKeepsInv DEF DeleteProject, Harmless
<1> QED BY <1>1, <1>2, <1>3, <1>4, <1>5, <1>6, <1>7, <1>8, <1>9 DEF Api
LEMMA LoopExecutedInv ==
  ASSUME TypeInv, ExecutedInv, NEW w \in Workers, Loop(w)
  PROVE  ExecutedInv'
<1> USE DEF store, api, Executing
<1>0. pc \in [Workers -> PCs] /\ job \in [Workers -> RunIds \cup {NoRun}] /\ runs \in [RunIds -> Docs]
  BY DEF TypeInv, TypeOK
<1>1. CASE ReapFind(w)
  BY <1>0, <1>1, HarmlessKeepsInv DEF ReapFind, Harmless
<1>2. CASE \E r \in RunIds : ReapMark(w, r)
  <2>1. PICK r \in RunIds : ReapMark(w, r)
    BY <1>2
  <2>2. CASE StillSilent(w, r)
    <3>1. /\ runs' = [runs EXCEPT ![r].status = "error"]
          /\ job' = [job EXCEPT ![w] = r] /\ pc' = [pc EXCEPT ![w] = "reapEnd"]
          /\ UNCHANGED <<nextId, inserting, doomed, starts>>
      BY <2>1, <2>2 DEF ReapMark
    <3>2. \A q \in RunIds : runs'[q].status = IF q = r THEN "error" ELSE runs[q].status
      BY <1>0, <3>1 DEF Docs
    <3>3. runs[r].status # "absent"
      BY <2>2 DEF StillSilent, Exists
    <3>4. Harmless
      BY <1>0, <3>1, <3>2, <3>3 DEF Harmless
    <3> QED BY <3>4, HarmlessKeepsInv
  <2>3. CASE ~StillSilent(w, r)
    BY <2>1, <2>3, HarmlessKeepsInv DEF ReapMark, Harmless
  <2> QED BY <2>2, <2>3
<1>3. CASE ReapEnd(w)
  <2>1. job[w] \in RunIds /\ runs[job[w]] \in Docs
    BY <1>0, <1>3 DEF ReapEnd, TypeInv, LocalOK
  <2> DEFINE doc == [runs[job[w]] EXCEPT !.status = "error", !.stages = CloseAll(rows[w][job[w]].stages)]
  <2>2. doc \in Docs /\ doc.status = "error"
    BY <2>1, DocWrite, CloseAllType DEF Docs, Statuses, Ended
  <2>3. Update(job[w], doc)
    BY <1>3 DEF ReapEnd
  <2>4. Harmless
    BY <1>0, <1>3, <2>1, <2>2, <2>3, UpdateHarmless DEF ReapEnd, Harmless
  <2> QED BY <2>4, HarmlessKeepsInv
<1>4. CASE ReapFinish(w)
  BY <1>0, <1>4, HarmlessKeepsInv DEF ReapFinish, Harmless
<1>5. CASE ReapDone(w)
  BY <1>0, <1>5, HarmlessKeepsInv DEF ReapDone, Harmless
<1>6. CASE ClaimFind(w)
  BY <1>0, <1>6, HarmlessKeepsInv DEF ClaimFind, Harmless
<1>7. CASE \E r \in RunIds : Claim(w, r)
  <2>1. PICK r \in RunIds : Claim(w, r)
    BY <1>7
  <2>2. CASE StillQueued(r)
    <3>1. /\ runs' = [runs EXCEPT ![r].status = "running", ![r].worker = w, ![r].heartbeat_at = 1]
          /\ job' = [job EXCEPT ![w] = r] /\ pc' = [pc EXCEPT ![w] = "begin"]
          /\ UNCHANGED <<nextId, inserting, doomed, starts>>
      BY <2>1, <2>2 DEF Claim
    <3>2. \A q \in RunIds : runs'[q].status = IF q = r THEN "running" ELSE runs[q].status
      BY <1>0, <3>1 DEF Docs
    <3>3. /\ runs[r].status = "queued" /\ starts[r] = 0
          /\ \A v \in Workers : pc[v] \in Executing => job[v] # r
      BY <2>2 DEF StillQueued, ExecutedInv
    <3>4. \A v, u \in Workers :
            pc'[v] \in Executing /\ pc'[u] \in Executing /\ job'[v] = job'[u] => v = u
      BY <1>0, <3>1, <3>3 DEF ExecutedInv
    <3>5. \A v \in Workers : pc'[v] = "begin" => starts'[job'[v]] = 0
      BY <1>0, <3>1, <3>3 DEF ExecutedInv
    <3>6. \A q \in RunIds : runs'[q].status \in {"absent", "queued"} =>
            starts'[q] = 0 /\ \A v \in Workers : pc'[v] \in Executing => job'[v] # q
      BY <1>0, <3>1, <3>2 DEF ExecutedInv
    <3>7. /\ \A q \in RunIds : q \in inserting' \/ q > nextId' => runs'[q].status = "absent"
          /\ \A q \in doomed' : runs'[q].status # "absent"
      BY <3>1, <3>2, <3>3 DEF ExecutedInv, TypeInv, TypeOK
    <3> QED BY <3>1, <3>4, <3>5, <3>6, <3>7 DEF ExecutedInv, ExecutedOnce
  <2>3. CASE ~StillQueued(r)
    BY <2>1, <2>3, HarmlessKeepsInv DEF Claim, Harmless
  <2> QED BY <2>2, <2>3
<1>8. CASE ClaimNone(w)
  BY <1>0, <1>8, HarmlessKeepsInv DEF ClaimNone, Harmless
<1> QED BY <1>1, <1>2, <1>3, <1>4, <1>5, <1>6, <1>7, <1>8 DEF Loop

LEMMA ExecuteExecutedInv ==
  ASSUME TypeInv, ExecutedInv, NEW w \in Workers, Execute(w)
  PROVE  ExecutedInv'
<1> USE DEF store, api
<1>0. /\ pc \in [Workers -> PCs] /\ job \in [Workers -> RunIds \cup {NoRun}]
      /\ runs \in [RunIds -> Docs]
      /\ pc[w] \in Executing => job[w] \in RunIds
      /\ copy \in [Workers -> [status: Statuses, stages: Stages]]
      /\ starts \in [RunIds -> Nat]
  BY DEF TypeInv, TypeOK, LocalOK
<1>1. CASE ExecuteRead(w)
  <2>1. CASE ~Exists(job[w]) \/ runs[job[w]].status = "cancelled"
    BY <1>0, <1>1, <2>1, HarmlessKeepsInv DEF ExecuteRead, Release, Harmless, Executing
  <2>2. CASE ~(~Exists(job[w]) \/ runs[job[w]].status = "cancelled")
    <3>1. /\ pc' = [pc EXCEPT ![w] = "save"] /\ starts' = [starts EXCEPT ![job[w]] = @ + 1]
          /\ UNCHANGED <<runs, nextId, inserting, doomed, job>> /\ pc[w] = "begin"
      BY <1>1, <2>2 DEF ExecuteRead
    <3>2. job[w] \in RunIds /\ starts[job[w]] = 0
      BY <1>0, <3>1 DEF ExecutedInv, Executing
    <3>3. runs[job[w]].status \notin {"absent", "queued"}
      BY <3>1, <3>2 DEF ExecutedInv, Executing
    <3>4. \A v \in Workers : pc'[v] = "begin" => v # w /\ job[v] # job[w]
      BY <1>0, <3>1 DEF ExecutedInv, Executing
    <3>5. \A q \in RunIds : starts'[q] = IF q = job[w] THEN 1 ELSE starts[q]
      BY <1>0, <3>1, <3>2
    <3>6. \A v \in Workers : pc'[v] = "begin" => pc[v] = "begin" /\ starts'[job[v]] = starts[job[v]]
      BY <1>0, <3>1, <3>4
    <3>7. \A q \in RunIds : runs'[q].status \in {"absent", "queued"} =>
            starts'[q] = 0 /\ \A v \in Workers : pc'[v] \in Executing => job'[v] # q
      BY <1>0, <3>1, <3>3, <3>5 DEF ExecutedInv, Executing
    <3>8. ExecutedOnce'
      BY <3>5 DEF ExecutedInv, ExecutedOnce
    <3>9. \A v, u \in Workers :
            pc'[v] \in Executing /\ pc'[u] \in Executing /\ job'[v] = job'[u] => v = u
      BY <1>0, <3>1 DEF ExecutedInv, Executing
    <3> QED BY <3>1, <3>6, <3>7, <3>8, <3>9 DEF ExecutedInv
  <2> QED BY <2>1, <2>2
<1>2. CASE ExecuteOrphan(w)
  <2> DEFINE doc == [runs[job[w]] EXCEPT !.status = "error"]
  <2>0. job[w] \in RunIds /\ Update(job[w], doc) /\ runs[job[w]] \in Docs
    BY <1>0, <1>2 DEF ExecuteOrphan, Executing
  <2>1. job[w] \in RunIds /\ Update(job[w], doc) /\ doc \in Docs /\ doc.status = "error"
    BY <2>0, DocError
  <2>2. Harmless
    BY <1>0, <1>2, <2>1, UpdateHarmless DEF ExecuteOrphan, Release, Harmless, Executing
  <2> QED BY <2>2, HarmlessKeepsInv
<1>3. CASE ExecuteBegin(w)
  <2> DEFINE doc == [runs[job[w]] EXCEPT !.status = "running"]
  <2>1. job[w] \in RunIds /\ Update(job[w], doc) /\ doc \in Docs /\ doc.status = "running"
    BY <1>0, <1>3 DEF ExecuteBegin, Executing, Docs, Statuses, ACTIVE
  <2>2. Harmless
    BY <1>0, <1>3, <2>1, UpdateHarmless DEF ExecuteBegin, Harmless, Executing
  <2> QED BY <2>2, HarmlessKeepsInv
<1>4. CASE StageSave(w)
  <2> DEFINE doc == [runs[job[w]] EXCEPT !.stages = copy'[w].stages]
  <2>1. job[w] \in RunIds /\ Update(job[w], doc)
    BY <1>0, <1>4 DEF StageSave, Executing
  <2>2. \A q \in RunIds : runs'[q].status = runs[q].status
    BY <1>0, <2>1 DEF Update, Docs
  <2>3. Harmless
    BY <1>0, <1>4, <2>2 DEF StageSave, Harmless, Executing
  <2> QED BY <2>3, HarmlessKeepsInv
<1>5. CASE Report(w)
  <2>1. PICK status \in {"passed", "failed", "error"}, at \in {"finish", "post"} :
          /\ Update(job[w], [runs[job[w]] EXCEPT !.status = status])
          /\ pc' = [pc EXCEPT ![w] = at]
    BY <1>5 DEF Report
  <2> DEFINE doc == [runs[job[w]] EXCEPT !.status = status]
  <2>2. job[w] \in RunIds /\ doc \in Docs /\ doc.status = status
    BY <1>0, <1>5 DEF Report, Executing, Docs, Statuses, Ended
  <2>3. Harmless
    BY <1>0, <1>5, <2>1, <2>2, UpdateHarmless DEF Report, Harmless, Executing
  <2> QED BY <2>3, HarmlessKeepsInv
<1>6. CASE EndError(w)
  <2> DEFINE doc == [runs[job[w]] EXCEPT !.status = "error", !.stages = copy'[w].stages]
  <2>1. copy'[w].stages \in Stages
    BY <1>0, <1>6, CloseAllType DEF EndError
  <2>2. job[w] \in RunIds /\ Update(job[w], doc)
    BY <1>0, <1>6 DEF EndError, Executing
  <2>3. doc \in Docs /\ doc.status = "error"
    <3>1. runs[job[w]] \in Docs /\ "error" \in Statuses
      BY <1>0, <2>2 DEF Statuses, Ended
    <3> QED BY <2>1, <3>1 DEF Docs
  <2>4. Harmless
    BY <1>0, <1>6, <2>2, <2>3, UpdateHarmless DEF EndError, Harmless, Executing
  <2> QED BY <2>4, HarmlessKeepsInv
<1>7. CASE ExecuteFinish(w)
  BY <1>0, <1>7, HarmlessKeepsInv DEF ExecuteFinish, Harmless, Executing
<1>8. CASE ExecuteReturn(w)
  BY <1>0, <1>8, HarmlessKeepsInv DEF ExecuteReturn, Release, Harmless, Executing
<1> QED BY <1>1, <1>2, <1>3, <1>4, <1>5, <1>6, <1>7, <1>8 DEF Execute

LEMMA FaultExecutedInv ==
  ASSUME TypeInv, ExecutedInv,
         \/ Tick
         \/ \E w \in Workers : Heartbeat(w) \/ Kill(w) \/ Restart(w) \/ Outage(w)
  PROVE  ExecutedInv'
<1> USE DEF store, api
<1>0. /\ pc \in [Workers -> PCs] /\ job \in [Workers -> RunIds \cup {NoRun}]
      /\ runs \in [RunIds -> Docs]
      /\ \A w \in Workers : pc[w] \in Executing => job[w] \in RunIds
  BY DEF TypeInv, TypeOK, LocalOK
<1>1. CASE Tick
  BY <1>1, HarmlessKeepsInv DEF Tick, Harmless
<1>2. CASE \E w \in Workers : Heartbeat(w)
  <2>1. PICK w \in Workers : Heartbeat(w)
    BY <1>2
  <2>2. \A q \in RunIds : runs'[q].status = runs[q].status
    BY <1>0, <2>1 DEF Heartbeat, Docs
  <2>3. Harmless
    BY <2>1, <2>2 DEF Heartbeat, Harmless
  <2> QED BY <2>3, HarmlessKeepsInv
<1>3. CASE \E w \in Workers : Kill(w)
  BY <1>0, <1>3, HarmlessKeepsInv DEF Kill, Release, Harmless, Executing
<1>4. CASE \E w \in Workers : Restart(w)
  BY <1>0, <1>4, HarmlessKeepsInv DEF Restart, Harmless, Executing
<1>5. CASE \E w \in Workers : Outage(w)
  <2>1. PICK w \in Workers : Outage(w)
    BY <1>5
  <2>2. UNCHANGED <<nextId, inserting, doomed, starts>>
    BY <2>1 DEF Outage
  <2>3. CASE (Release(w, "loop") \/ Release(w, "raised")) /\ UNCHANGED runs
    BY <1>0, <2>2, <2>3, HarmlessKeepsInv DEF Release, Harmless, Executing
  <2>4. CASE /\ pc[w] \in {"stages", "finish", "endFinish"}
             /\ pc' = [pc EXCEPT ![w] = "post"] /\ UNCHANGED <<runs, job, rows, copy>>
    BY <1>0, <2>2, <2>4, HarmlessKeepsInv DEF Harmless, Executing
  <2>5. CASE /\ pc[w] = "finish"
             /\ Update(job[w], [runs[job[w]] EXCEPT !.status = "error"])
             /\ pc' = [pc EXCEPT ![w] = "endFinish"] /\ UNCHANGED <<job, rows>>
    <3> DEFINE doc == [runs[job[w]] EXCEPT !.status = "error"]
    <3>1. job[w] \in RunIds
      BY <1>0, <2>5 DEF Executing
    <3>2. doc \in Docs /\ doc.status = "error"
      BY <1>0, <3>1 DEF Docs, Statuses, Ended
    <3>3. Harmless
      BY <1>0, <2>2, <2>5, <3>1, <3>2, UpdateHarmless DEF Harmless, Executing
    <3> QED BY <3>3, HarmlessKeepsInv
  <2> QED BY <2>1, <2>3, <2>4, <2>5 DEF Outage
<1> QED BY <1>1, <1>2, <1>3, <1>4, <1>5

LEMMA StutterExecutedInv == ASSUME ExecutedInv, UNCHANGED vars PROVE ExecutedInv'
BY DEF ExecutedInv, ExecutedOnce, vars

\* "several workers never execute the same run" (worker.py), and an
\* interrupted run is never re-run: for every number of workers, runs and
\* faults, and although cancels, reapers and zombies overwrite each other.
THEOREM ExecutesOnce == Spec => []ExecutedOnce
<1>1. Init => TypeInv /\ ExecutedInv
  <2> SUFFICES ASSUME Init PROVE TypeInv /\ ExecutedInv
    OBVIOUS
  <2>1. ExecutedInv
    BY DEF Init, ExecutedInv, ExecutedOnce, NoDoc, Executing, RunIds
  <2> QED BY <2>1, InitTypeInv
<1>2. TypeInv /\ ExecutedInv /\ [Next]_vars => TypeInv' /\ ExecutedInv'
  BY ApiTypeInv, LoopTypeInv, ExecuteTypeInv, FaultTypeInv, StutterTypeInv,
     ApiExecutedInv, LoopExecutedInv, ExecuteExecutedInv, FaultExecutedInv, StutterExecutedInv
     DEF Next, Worker
<1>3. ExecutedInv => ExecutedOnce
  BY DEF ExecutedInv
<1> QED BY <1>1, <1>2, <1>3, PTL DEF Spec

----------------------------------------------------------------------------
(* The life cycle of a run, where workers may die, but their heartbeats are *)
(* punctual and nothing is cancelled, deleted or out of reach.              *)

Finals == {"passed", "failed", "error"}
Reaping == {"reap", "reapEnd", "reapFinish"}

Held(r) == \E w \in Workers : pc[w] \in Executing /\ job[w] = r

\* Nobody cancels or deletes.
Undisturbed == project = "live" /\ cancel.pc = "idle" /\ doomed = {}

\* A run in execution is never old enough to be reaped.
Punctual == \A w \in Workers : pc[w] \in Executing => age[job[w]] <= HeartbeatEvery

\* What the worker executing a run knows of it is what the store says.
InHand ==
  \A w \in Workers :
    /\ pc[w] \in {"begin", "save", "stages"} => runs[job[w]].status = "running"
    /\ pc[w] \in {"save", "stages"} => copy[w].stages = runs[job[w]].stages
    /\ pc[w] \in {"finish", "endFinish"} => runs[job[w]].status = copy[w].status
    /\ pc[w] \in {"finish", "endFinish", "post"} => runs[job[w]].status \in Finals

\* What a reaper found has no worker any more, and may have been ended by
\* another reaper since.
Abandoned(r) == runs[r].status \in {"running", "error"} /\ ~Held(r) /\ faults > 0

Reaped ==
  \A w \in Workers :
    /\ pc[w] \in Reaping => \A r \in DOMAIN rows[w] : Abandoned(r)
    /\ pc[w] \in {"reapEnd", "reapFinish"} => Abandoned(job[w]) /\ runs[job[w]].status = "error"

\* A running run without a worker lost it to a death.
Lost == \A r \in RunIds : runs[r].status = "running" => Held(r) \/ faults > 0

LifeInv == Undisturbed /\ Punctual /\ InHand /\ Reaped /\ Lost /\ EndedIsClosed

LEMMA InitLifeInv == ASSUME Init PROVE LifeInv
BY PipelineRunsAssumption
   DEF Init, LifeInv, Undisturbed, NoCancel, Punctual, InHand, Reaped, Lost, EndedIsClosed, Executing, Reaping, NoDoc, Ended

\* Steps of a worker w that write no run: it may leave execute_run, or go on in it.
LocalStep(w) ==
  /\ UNCHANGED <<runs, age, project, cancel, doomed>>
  /\ \A v \in Workers \ {w} : pc'[v] = pc[v] /\ job'[v] = job[v] /\ rows'[v] = rows[v] /\ copy'[v] = copy[v]
  /\ pc'[w] \in Executing => pc[w] \in Executing /\ job'[w] = job[w]
  /\ faults' \in Nat /\ faults' >= faults

LEMMA LocalKeepsLife ==
  ASSUME TypeInv, LifeInv, NEW w \in Workers, LocalStep(w),
         /\ pc'[w] \in {"begin", "save", "stages"} => runs[job'[w]].status = "running"
         /\ pc'[w] \in {"save", "stages"} => copy'[w].stages = runs[job'[w]].stages
         /\ pc'[w] \in {"finish", "endFinish"} => runs[job'[w]].status = copy'[w].status
         /\ pc'[w] \in {"finish", "endFinish", "post"} => runs[job'[w]].status \in Finals,
         /\ pc'[w] \in Reaping => \A r \in DOMAIN rows'[w] : Abandoned(r)
         /\ pc'[w] \in {"reapEnd", "reapFinish"} => Abandoned(job'[w]) /\ runs[job'[w]].status = "error",
         pc[w] \in Executing /\ pc'[w] \notin Executing => runs[job[w]].status # "running" \/ faults' > 0,
         pc[w] = "reapEnd" => faults' > 1 \/ (pc'[w] = "reapEnd" /\ job'[w] = job[w])
  PROVE  LifeInv'
<1> USE DEF LocalStep
<1>0. faults \in Nat /\ job \in [Workers -> RunIds \cup {NoRun}]
  BY PipelineRunsAssumption DEF TypeInv, TypeOK
<1>1. Undisturbed'
  BY DEF LifeInv, Undisturbed
<1>2. Punctual'
  BY DEF LifeInv, Punctual
<1>3. InHand'
  BY DEF LifeInv, InHand
<1>4. \A r : Abandoned(r) => Abandoned(r)'
  BY <1>0 DEF Abandoned, Held
<1>5. Reaped'
  <2> SUFFICES ASSUME NEW v \in Workers
               PROVE  /\ pc'[v] \in Reaping => \A r \in DOMAIN rows'[v] : Abandoned(r)'
                      /\ pc'[v] \in {"reapEnd", "reapFinish"} => Abandoned(job'[v]) /\ runs[job'[v]].status = "error"
    BY <1>4 DEF Reaped, Abandoned, Held
  <2> QED
    BY <1>4 DEF LifeInv, Reaped
<1>6. Lost'
  BY <1>0 DEF LifeInv, Lost, Held
<1>7. EndedIsClosed'
  <2> SUFFICES ASSUME NEW r \in RunIds, runs[r].status \in Ended, Open(runs[r].stages) # {}
               PROVE  \/ \E v \in Workers : pc'[v] = "reapEnd" /\ job'[v] = r
                      \/ runs[r].status = "error" /\ faults' > 1
    BY DEF EndedIsClosed
  <2>1. CASE runs[r].status = "error" /\ faults > 1
    BY <1>0, <2>1
  <2>2. ASSUME NEW v \in Workers, pc[v] = "reapEnd", job[v] = r
        PROVE  \/ pc'[v] = "reapEnd" /\ job'[v] = r
               \/ runs[r].status = "error" /\ faults' > 1
    BY <2>2 DEF LifeInv, Reaped
  <2> QED
    BY <2>1, <2>2 DEF LifeInv, EndedIsClosed
<1> QED
  BY <1>1, <1>2, <1>3, <1>5, <1>6, <1>7 DEF LifeInv

\* The disturbances that are ruled out.
OnlyDeaths == Faults \subseteq {"kill"}

LEMMA LoopLife ==
  ASSUME TypeInv, LifeInv, NEW w \in Workers,
         ReapFind(w) \/ ReapFinish(w) \/ ReapDone(w) \/ ClaimFind(w) \/ ClaimNone(w) \/ Restart(w)
  PROVE  LifeInv'
<1> USE DEF store, api, Reaping
<1>0. /\ pc \in [Workers -> PCs] /\ job \in [Workers -> RunIds \cup {NoRun}]
      /\ rows \in [Workers -> Rows] /\ copy \in [Workers -> [status: Statuses, stages: Stages]]
      /\ faults \in Nat /\ age \in [RunIds -> 0..Stale] /\ HeartbeatEvery < Stale
      /\ HeartbeatEvery \in Nat /\ Stale \in Nat
  BY PipelineRunsAssumption DEF TypeInv, TypeOK
<1>1. CASE ReapFind(w)
  <2>1. /\ pc' = [pc EXCEPT ![w] = "reap"] /\ UNCHANGED <<runs, age, project, cancel, doomed, job, copy, faults>>
        /\ rows' = [rows EXCEPT ![w] = [r \in {q \in DOMAIN Find("running") : IsStale(q)} |-> runs[r]]]
    BY <1>1 DEF ReapFind
  <2>2. \A r \in DOMAIN rows'[w] : r \in RunIds /\ runs[r].status = "running" /\ age[r] >= Stale
    BY <1>0, <2>1 DEF Find, IsStale
  <2>3. \A r \in DOMAIN rows'[w] : Abandoned(r)
    <3> SUFFICES ASSUME NEW r \in DOMAIN rows'[w] PROVE Abandoned(r)
      OBVIOUS
    <3>1. ~Held(r)
      BY <1>0, <2>2 DEF Held, LifeInv, Punctual
    <3> QED BY <2>2, <3>1 DEF Abandoned, LifeInv, Lost
  <2>4. LocalStep(w)
    BY <1>0, <2>1 DEF LocalStep, Executing
  <2>5. pc[w] = "loop" /\ pc'[w] = "reap"
    BY <1>0, <1>1, <2>1 DEF ReapFind
  <2> QED BY <2>3, <2>4, <2>5, LocalKeepsLife DEF Executing
<1>2. CASE ReapFinish(w)
  <2>1. /\ pc' = [pc EXCEPT ![w] = "reap"] /\ UNCHANGED <<runs, age, project, cancel, doomed, copy, faults>>
        /\ rows' = [rows EXCEPT ![w] = RowsWithout(w, job[w])] /\ job' = [job EXCEPT ![w] = NoRun]
        /\ pc[w] = "reapFinish"
    BY <1>2 DEF ReapFinish
  <2>2. \A r \in DOMAIN rows'[w] : Abandoned(r)
    BY <1>0, <2>1 DEF RowsWithout, LifeInv, Reaped
  <2>3. LocalStep(w)
    BY <1>0, <2>1 DEF LocalStep, Executing
  <2>4. pc'[w] = "reap"
    BY <1>0, <2>1
  <2> QED BY <2>1, <2>2, <2>3, <2>4, LocalKeepsLife DEF Executing
<1>3. CASE ReapDone(w) \/ ClaimFind(w) \/ ClaimNone(w) \/ Restart(w)
  <2>1. /\ UNCHANGED <<runs, age, project, cancel, doomed, job, copy, faults>>
        /\ \E at \in {"poll", "claim", "loop"} : pc' = [pc EXCEPT ![w] = at]
        /\ \A v \in Workers \ {w} : rows'[v] = rows[v]
        /\ pc[w] \in {"reap", "poll", "loop", "claim", "down"}
    BY <1>0, <1>3 DEF ReapDone, ClaimFind, ClaimNone, Restart
  <2>2. LocalStep(w) /\ pc'[w] \in {"poll", "claim", "loop"}
    BY <1>0, <2>1 DEF LocalStep, Executing
  <2> QED BY <2>1, <2>2, LocalKeepsLife DEF Executing
<1> QED BY <1>1, <1>2, <1>3

LEMMA KillLife ==
  ASSUME TypeInv, LifeInv, NEW w \in Workers, Kill(w)
  PROVE  LifeInv'
<1>0. /\ pc \in [Workers -> PCs] /\ job \in [Workers -> RunIds \cup {NoRun}]
      /\ rows \in [Workers -> Rows] /\ copy \in [Workers -> [status: Statuses, stages: Stages]]
      /\ faults \in Nat
  BY PipelineRunsAssumption DEF TypeInv, TypeOK
<1>1. /\ pc' = [pc EXCEPT ![w] = "down"] /\ job' = [job EXCEPT ![w] = NoRun]
      /\ rows' = [rows EXCEPT ![w] = NoRows] /\ copy' = [copy EXCEPT ![w] = NoCopy]
      /\ faults' = faults + 1 /\ UNCHANGED <<runs, age, project, cancel, doomed>>
  BY DEF Kill, Release, store, api
<1>2. LocalStep(w) /\ pc'[w] = "down"
  BY <1>0, <1>1 DEF LocalStep, Executing
<1>3. pc[w] = "reapEnd" => faults' > 1
  BY <1>0, <1>1 DEF LifeInv, Reaped, Abandoned
<1> QED BY <1>0, <1>1, <1>2, <1>3, LocalKeepsLife DEF Executing, Reaping

LEMMA AllocateLife ==
  ASSUME LifeInv, AllocateId
  PROVE  LifeInv'
BY DEF AllocateId, LifeInv, Undisturbed, Punctual, InHand, Reaped, Abandoned, Held, Lost, EndedIsClosed, store, api

LEMMA TickLife ==
  ASSUME OnlyDeaths, TypeInv, LifeInv, Tick
  PROVE  LifeInv'
<1>1. /\ UNCHANGED <<runs, project, cancel, doomed, pc, job, rows, copy, faults>>
      /\ \A w \in Workers : pc[w] \in Executing => age[job[w]] < HeartbeatEvery
      /\ age' = [r \in RunIds |->
               IF age[r] < Stale /\ (runs[r].status = "running" \/ \E w \in Workers : job[w] = r)
               THEN age[r] + 1 ELSE age[r]]
  BY DEF Tick, OnlyDeaths, store, api
<1>2. Punctual'
  <2> SUFFICES ASSUME NEW w \in Workers, pc[w] \in Executing PROVE age'[job[w]] <= HeartbeatEvery
    BY <1>1 DEF Punctual
  <2>1. job[w] \in RunIds /\ age[job[w]] \in Nat /\ HeartbeatEvery \in Nat /\ age[job[w]] < HeartbeatEvery
    BY <1>1, PipelineRunsAssumption DEF TypeInv, TypeOK, LocalOK
  <2>2. age'[job[w]] = age[job[w]] + 1 \/ age'[job[w]] = age[job[w]]
    BY <1>1, <2>1
  <2> QED BY <2>1, <2>2
<1> QED BY <1>1, <1>2 DEF LifeInv, Undisturbed, InHand, Reaped, Abandoned, Held, Lost, EndedIsClosed

\* Steps of the worker w in execute_run that write the run it holds.
OwnWrite(w) ==
  /\ pc[w] \in Executing /\ pc'[w] \in Executing
  /\ UNCHANGED <<age, project, cancel, doomed, job, rows, faults>>
  /\ \A v \in Workers \ {w} : pc'[v] = pc[v] /\ copy'[v] = copy[v]
  /\ \A r \in RunIds \ {job[w]} : runs'[r] = runs[r]

LEMMA OwnWriteKeepsLife ==
  ASSUME TypeInv, ExecutedInv, LifeInv, NEW w \in Workers, OwnWrite(w),
         /\ pc'[w] \in {"begin", "save", "stages"} => runs'[job[w]].status = "running"
         /\ pc'[w] \in {"save", "stages"} => copy'[w].stages = runs'[job[w]].stages
         /\ pc'[w] \in {"finish", "endFinish"} => runs'[job[w]].status = copy'[w].status
         /\ pc'[w] \in {"finish", "endFinish", "post"} => runs'[job[w]].status \in Finals,
         runs'[job[w]].status \in Ended => Open(runs'[job[w]].stages) = {}
  PROVE  LifeInv'
<1> USE DEF OwnWrite
<1>0. /\ job \in [Workers -> RunIds \cup {NoRun}] /\ NoRun \notin RunIds
      /\ \A v \in Workers : pc[v] \in Executing => job[v] \in RunIds
      /\ \A v \in Workers \ {w} : pc[v] \in Executing => job[v] # job[w]
  BY DEF TypeInv, TypeOK, LocalOK, ExecutedInv, RunIds, NoRun
<1>1. Undisturbed' /\ Punctual'
  BY DEF LifeInv, Undisturbed, Punctual
<1>2. InHand'
  <2> SUFFICES ASSUME NEW v \in Workers \ {w}
               PROVE  /\ pc[v] \in {"begin", "save", "stages"} => runs'[job[v]].status = "running"
                      /\ pc[v] \in {"save", "stages"} => copy[v].stages = runs'[job[v]].stages
                      /\ pc[v] \in {"finish", "endFinish"} => runs'[job[v]].status = copy[v].status
                      /\ pc[v] \in {"finish", "endFinish", "post"} => runs'[job[v]].status \in Finals
    BY DEF InHand
  <2>1. pc[v] \in Executing => runs'[job[v]] = runs[job[v]]
    BY <1>0
  <2> QED BY <2>1 DEF LifeInv, InHand, Executing
<1>3. \A r \in RunIds : Held(r)' <=> Held(r)
  BY DEF Held
<1>4. \A r \in RunIds : Abandoned(r) => runs'[r] = runs[r] /\ Abandoned(r)'
  BY <1>0, <1>3 DEF Abandoned, Held
<1>5. Reaped'
  <2> SUFFICES ASSUME NEW v \in Workers \ {w}
               PROVE  /\ pc[v] \in Reaping => \A r \in DOMAIN rows[v] : Abandoned(r)'
                      /\ pc[v] \in {"reapEnd", "reapFinish"} => Abandoned(job[v])' /\ runs'[job[v]].status = "error"
    BY DEF Reaped, Abandoned, Held, Executing, Reaping
  <2>1. rows[v] \in Rows /\ (pc[v] \in {"reapEnd", "reapFinish"} => job[v] \in RunIds)
    BY DEF TypeInv, TypeOK, LocalOK
  <2>2. DOMAIN rows[v] \subseteq RunIds
    BY <2>1, RowsElim
  <2>3. pc[v] \in Reaping => \A r \in DOMAIN rows[v] : Abandoned(r)'
    BY <1>4, <2>2 DEF LifeInv, Reaped
  <2>4. pc[v] \in {"reapEnd", "reapFinish"} => Abandoned(job[v])' /\ runs'[job[v]].status = "error"
    BY <1>4, <2>1 DEF LifeInv, Reaped
  <2> QED BY <2>3, <2>4
<1>6. Lost'
  <2> SUFFICES ASSUME NEW r \in RunIds, runs'[r].status = "running" PROVE Held(r)' \/ faults > 0
    BY DEF Lost
  <2>1. CASE r = job[w]
    BY <2>1 DEF Held
  <2>2. CASE r # job[w]
    BY <1>3, <2>2 DEF LifeInv, Lost
  <2> QED BY <2>1, <2>2
<1>7. EndedIsClosed'
  <2> SUFFICES ASSUME NEW r \in RunIds, runs'[r].status \in Ended, Open(runs'[r].stages) # {}
               PROVE  \/ \E v \in Workers : pc'[v] = "reapEnd" /\ job[v] = r
                      \/ runs'[r].status = "error" /\ faults > 1
    BY DEF EndedIsClosed
  <2>1. runs'[r] = runs[r]
    OBVIOUS
  <2> QED BY <2>1 DEF LifeInv, EndedIsClosed, Executing
<1> QED BY <1>1, <1>2, <1>5, <1>6, <1>7 DEF LifeInv

\* The status and the stages Store.update leaves in a run that is there.
LEMMA Written ==
  ASSUME runs \in [RunIds -> Docs], NEW r \in RunIds, Exists(r), NEW doc, Update(r, doc)
  PROVE  runs'[r] = doc /\ \A q \in RunIds \ {r} : runs'[q] = runs[q]
BY DEF Update

LEMMA ExecuteLife ==
  ASSUME TypeInv, ExecutedInv, LifeInv, NEW w \in Workers, Execute(w)
  PROVE  LifeInv'
<1> USE DEF store, api
<1>0. /\ pc \in [Workers -> PCs] /\ job \in [Workers -> RunIds \cup {NoRun}]
      /\ rows \in [Workers -> Rows] /\ copy \in [Workers -> [status: Statuses, stages: Stages]]
      /\ faults \in Nat /\ runs \in [RunIds -> Docs] /\ project = "live"
      /\ pc[w] \in Executing => job[w] \in RunIds
  BY PipelineRunsAssumption DEF TypeInv, TypeOK, LocalOK, LifeInv, Undisturbed
<1>h. /\ pc[w] \in {"begin", "save", "stages"} => runs[job[w]].status = "running" /\ Exists(job[w])
      /\ pc[w] \in {"save", "stages"} => copy[w].stages = runs[job[w]].stages
      /\ pc[w] \in {"finish", "endFinish"} => runs[job[w]].status = copy[w].status
      /\ pc[w] \in {"finish", "endFinish", "post"} => runs[job[w]].status \in Finals
  BY DEF LifeInv, InHand, Exists
<1>d. pc[w] \in Executing => runs[job[w]] \in Docs /\ copy[w] \in [status: Statuses, stages: Stages]
  BY <1>0
<1>1. CASE ExecuteRead(w)
  <2>1. /\ pc[w] = "begin" /\ pc' = [pc EXCEPT ![w] = "save"]
        /\ copy' = [copy EXCEPT ![w] = [status |-> runs[job[w]].status, stages |-> runs[job[w]].stages]]
        /\ UNCHANGED <<job, rows, runs, age, project, cancel, doomed, faults>>
    BY <1>1, <1>h DEF ExecuteRead, Exists
  <2>2. LocalStep(w) /\ pc'[w] = "save" /\ copy'[w].stages = runs[job[w]].stages
    BY <1>0, <2>1 DEF LocalStep, Executing
  <2> QED BY <1>h, <2>1, <2>2, LocalKeepsLife DEF Executing, Reaping
<1>2. CASE ExecuteOrphan(w)
  BY <1>0, <1>2 DEF ExecuteOrphan
<1>3. CASE ExecuteBegin(w)
  <2>1. /\ pc[w] = "save" /\ pc' = [pc EXCEPT ![w] = "stages"] /\ copy' = [copy EXCEPT ![w].status = "running"]
        /\ UNCHANGED <<job, rows, age, project, cancel, doomed, faults>>
        /\ Update(job[w], [runs[job[w]] EXCEPT !.status = "running"])
    BY <1>3 DEF ExecuteBegin
  <2>2. job[w] \in RunIds
    BY <1>0, <2>1 DEF Executing
  <2>3. runs'[job[w]] = [runs[job[w]] EXCEPT !.status = "running"] /\ \A q \in RunIds \ {job[w]} : runs'[q] = runs[q]
    BY <1>0, <1>h, <2>1, <2>2, Written
  <2>4. runs'[job[w]].status = "running" /\ runs'[job[w]].stages = runs[job[w]].stages
    BY <1>0, <2>2, <2>3 DEF Docs
  <2>5. OwnWrite(w) /\ pc'[w] = "stages" /\ copy'[w].stages = copy[w].stages
    BY <1>0, <2>1, <2>3 DEF OwnWrite, Executing
  <2> QED BY <1>h, <2>1, <2>4, <2>5, OwnWriteKeepsLife DEF Ended
<1>4. CASE StageSave(w)
  <2>1. PICK s \in Open(copy[w].stages), to \in {"running", "closed"} :
          copy' = [copy EXCEPT ![w].stages = [@ EXCEPT ![s] = to]]
    BY <1>4 DEF StageSave
  <2>2. /\ pc[w] = "stages" /\ Update(job[w], [runs[job[w]] EXCEPT !.stages = copy'[w].stages])
        /\ UNCHANGED <<pc, job, rows, age, project, cancel, doomed, faults>>
    BY <1>4 DEF StageSave
  <2>3. job[w] \in RunIds
    BY <1>0, <2>2 DEF Executing
  <2>4. runs'[job[w]] = [runs[job[w]] EXCEPT !.stages = copy'[w].stages] /\ \A q \in RunIds \ {job[w]} : runs'[q] = runs[q]
    BY <1>0, <1>h, <2>2, <2>3, Written
  <2>5. runs'[job[w]].status = "running" /\ runs'[job[w]].stages = copy'[w].stages
    BY <1>0, <1>h, <2>2, <2>3, <2>4 DEF Docs
  <2>6. OwnWrite(w)
    BY <1>0, <2>1, <2>2, <2>4 DEF OwnWrite, Executing
  <2> QED BY <2>2, <2>5, <2>6, OwnWriteKeepsLife DEF Ended
<1>5. CASE Report(w)
  <2>1. PICK status \in {"passed", "failed", "error"}, at \in {"finish", "post"} :
          /\ Update(job[w], [runs[job[w]] EXCEPT !.status = status])
          /\ copy' = [copy EXCEPT ![w].status = status]
          /\ pc' = [pc EXCEPT ![w] = at]
    BY <1>5 DEF Report
  <2>2. /\ pc[w] = "stages" /\ Open(copy[w].stages) = {}
        /\ UNCHANGED <<job, rows, age, project, cancel, doomed, faults>>
    BY <1>5 DEF Report
  <2>3. job[w] \in RunIds
    BY <1>0, <2>2 DEF Executing
  <2>4. runs'[job[w]] = [runs[job[w]] EXCEPT !.status = status] /\ \A q \in RunIds \ {job[w]} : runs'[q] = runs[q]
    BY <1>0, <1>h, <2>1, <2>2, <2>3, Written
  <2>5. runs'[job[w]].status = status /\ runs'[job[w]].stages = runs[job[w]].stages
    BY <1>0, <2>3, <2>4 DEF Docs
  <2>6. OwnWrite(w) /\ pc'[w] = at /\ copy'[w].status = status
    BY <1>0, <2>1, <2>2, <2>4 DEF OwnWrite, Executing
  <2>7. Open(runs'[job[w]].stages) = {} /\ status \in Finals
    BY <1>h, <2>2, <2>5 DEF Finals
  <2> QED BY <2>5, <2>6, <2>7, OwnWriteKeepsLife
<1>6. CASE EndError(w)
  <2>1. /\ pc[w] = "stages" /\ pc' = [pc EXCEPT ![w] = "endFinish"]
        /\ copy' = [copy EXCEPT ![w] = [status |-> "error", stages |-> CloseAll(copy[w].stages)]]
        /\ Update(job[w], [runs[job[w]] EXCEPT !.status = "error", !.stages = copy'[w].stages])
        /\ UNCHANGED <<job, rows, age, project, cancel, doomed, faults>>
    BY <1>6 DEF EndError
  <2>2. job[w] \in RunIds
    BY <1>0, <2>1 DEF Executing
  <2>3. /\ runs'[job[w]] = [runs[job[w]] EXCEPT !.status = "error", !.stages = copy'[w].stages]
        /\ \A q \in RunIds \ {job[w]} : runs'[q] = runs[q]
    BY <1>0, <1>h, <2>1, <2>2, Written
  <2>4. copy'[w].status = "error" /\ copy'[w].stages = CloseAll(copy[w].stages)
    BY <1>0, <2>1
  <2>5. runs'[job[w]].status = "error" /\ runs'[job[w]].stages = CloseAll(copy[w].stages)
    BY <1>0, <2>2, <2>3, <2>4 DEF Docs
  <2>6. Open(runs'[job[w]].stages) = {}
    BY <2>5 DEF Open, CloseAll
  <2>7. OwnWrite(w) /\ pc'[w] = "endFinish"
    BY <1>0, <2>1, <2>3 DEF OwnWrite, Executing
  <2> QED BY <2>4, <2>5, <2>6, <2>7, OwnWriteKeepsLife DEF Finals
<1>7. CASE ExecuteFinish(w)
  <2>1. /\ pc[w] \in {"finish", "endFinish"} /\ pc' = [pc EXCEPT ![w] = "post"]
        /\ UNCHANGED <<job, rows, runs, copy, age, project, cancel, doomed, faults>>
    BY <1>7 DEF ExecuteFinish
  <2>2. LocalStep(w) /\ pc'[w] = "post"
    BY <1>0, <2>1 DEF LocalStep, Executing
  <2> QED BY <1>h, <2>1, <2>2, LocalKeepsLife DEF Executing, Reaping
<1>8. CASE ExecuteReturn(w)
  <2>1. /\ pc[w] = "post" /\ pc' = [pc EXCEPT ![w] = "loop"] /\ job' = [job EXCEPT ![w] = NoRun]
        /\ rows' = [rows EXCEPT ![w] = NoRows] /\ copy' = [copy EXCEPT ![w] = NoCopy]
        /\ UNCHANGED <<runs, age, project, cancel, doomed, faults>>
    BY <1>8 DEF ExecuteReturn, Release
  <2>2. LocalStep(w) /\ pc'[w] = "loop"
    BY <1>0, <2>1 DEF LocalStep, Executing
  <2> QED BY <1>h, <2>1, <2>2, LocalKeepsLife DEF Executing, Reaping, Finals
<1> QED BY <1>1, <1>2, <1>3, <1>4, <1>5, <1>6, <1>7, <1>8 DEF Execute

\* The writes of the others: a submitted run, a claim, a reaper, a heartbeat.
LEMMA CreateLife ==
  ASSUME TypeInv, ExecutedInv, LifeInv, NEW r \in RunIds, CreateRun(r)
  PROVE  LifeInv'
<1>1. /\ r \in inserting /\ runs' = [runs EXCEPT ![r] = [NoDoc EXCEPT !.status = "queued"]]
      /\ UNCHANGED <<age, pc, job, rows, copy, cancel, doomed, project, faults>>
  BY DEF CreateRun, api
<1>2. /\ runs[r].status = "absent" /\ runs'[r].status = "queued"
      /\ \A q \in RunIds \ {r} : runs'[q] = runs[q]
  BY <1>1 DEF ExecutedInv, NoDoc, TypeInv, TypeOK
<1>3. \A q : Held(q)' <=> Held(q)
  BY <1>1 DEF Held
<1>4. ~Held(r) /\ \A w \in Workers : pc[w] \in Executing => job[w] \in RunIds \ {r}
  BY <1>2 DEF ExecutedInv, Held, TypeInv, LocalOK
<1>5. \A q \in RunIds : Abandoned(q) => runs'[q] = runs[q] /\ Abandoned(q)'
  BY <1>1, <1>2, <1>3 DEF Abandoned
<1>6. Undisturbed' /\ Punctual'
  BY <1>1 DEF LifeInv, Undisturbed, Punctual
<1>7. InHand'
  BY <1>1, <1>2, <1>4 DEF LifeInv, InHand, Executing
<1>8. Reaped'
  <2>1. \A v \in Workers : DOMAIN rows[v] \subseteq RunIds
    BY RowsElim DEF TypeInv, TypeOK
  <2>2. \A v \in Workers : pc[v] \in {"reapEnd", "reapFinish"} => job[v] \in RunIds
    BY DEF TypeInv, LocalOK
  <2>3. \A v \in Workers, q \in RunIds : pc[v] \in Reaping /\ q \in DOMAIN rows[v] => Abandoned(q)'
    BY <1>5 DEF LifeInv, Reaped
  <2>4. \A v \in Workers, q \in RunIds :
          pc[v] \in {"reapEnd", "reapFinish"} /\ q = job[v] => Abandoned(q)' /\ runs'[q].status = "error"
    BY <1>5 DEF LifeInv, Reaped
  <2> QED BY <1>1, <2>1, <2>2, <2>3, <2>4 DEF Reaped, Abandoned, Held
<1>9. Lost'
  BY <1>1, <1>2, <1>3 DEF LifeInv, Lost
<1>10. EndedIsClosed'
  BY <1>1, <1>2 DEF LifeInv, EndedIsClosed, Ended
<1> QED BY <1>6, <1>7, <1>8, <1>9, <1>10 DEF LifeInv

LEMMA ClaimLife ==
  ASSUME TypeInv, ExecutedInv, LifeInv, NEW w \in Workers, NEW r \in RunIds, Claim(w, r)
  PROVE  LifeInv'
<1>0. /\ pc \in [Workers -> PCs] /\ job \in [Workers -> RunIds \cup {NoRun}]
      /\ rows \in [Workers -> Rows] /\ runs \in [RunIds -> Docs] /\ age \in [RunIds -> 0..Stale]
      /\ faults \in Nat /\ HeartbeatEvery \in Nat
  BY PipelineRunsAssumption DEF TypeInv, TypeOK
<1>1. CASE ~StillQueued(r)
  <2>1. /\ pc[w] = "claim" /\ rows' = [rows EXCEPT ![w] = RowsWithout(w, r)]
        /\ UNCHANGED <<runs, age, job, pc, copy, project, cancel, doomed, faults>>
    BY <1>1 DEF Claim, api
  <2>2. LocalStep(w)
    BY <1>0, <2>1 DEF LocalStep
  <2> QED BY <2>1, <2>2, LocalKeepsLife DEF Executing, Reaping
<1>2. CASE StillQueued(r)
  <2>1. /\ runs' = [runs EXCEPT ![r].status = "running", ![r].worker = w, ![r].heartbeat_at = 1]
        /\ age' = [age EXCEPT ![r] = 0] /\ job' = [job EXCEPT ![w] = r]
        /\ rows' = [rows EXCEPT ![w] = NoRows] /\ pc' = [pc EXCEPT ![w] = "begin"]
        /\ UNCHANGED <<copy, project, cancel, doomed, faults>> /\ pc[w] = "claim"
    BY <1>2 DEF Claim, api
  <2>2. /\ runs[r].status = "queued" /\ runs'[r].status = "running" /\ \A q \in RunIds \ {r} : runs'[q] = runs[q]
    BY <1>0, <1>2, <2>1 DEF StillQueued, Docs
  <2>3. \A v \in Workers : pc[v] \in Executing => job[v] \in RunIds \ {r}
    BY <2>2 DEF ExecutedInv, TypeInv, LocalOK
  <2>4. /\ pc'[w] = "begin" /\ job'[w] = r /\ age'[r] = 0
        /\ \A v \in Workers \ {w} : pc'[v] = pc[v] /\ job'[v] = job[v] /\ rows'[v] = rows[v] /\ copy'[v] = copy[v]
        /\ \A q \in RunIds \ {r} : age'[q] = age[q]
    BY <1>0, <2>1
  <2>5. \A q \in RunIds \ {r} : Held(q)' <=> Held(q)
    BY <2>1, <2>4 DEF Held, Executing
  <2>6. \A q \in RunIds : Abandoned(q) => runs'[q] = runs[q] /\ Abandoned(q)'
    BY <2>1, <2>2, <2>5 DEF Abandoned
  <2>7. Undisturbed'
    BY <2>1 DEF LifeInv, Undisturbed
  <2>8. Punctual'
    BY <1>0, <2>3, <2>4 DEF LifeInv, Punctual
  <2>9. InHand'
    BY <2>2, <2>3, <2>4 DEF LifeInv, InHand, Executing
  <2>10. Reaped'
    <3>1. \A v \in Workers : DOMAIN rows[v] \subseteq RunIds
      BY RowsElim DEF TypeInv, TypeOK
    <3>2. \A v \in Workers : pc[v] \in {"reapEnd", "reapFinish"} => job[v] \in RunIds
      BY DEF TypeInv, LocalOK
    <3>3. \A v \in Workers \ {w}, q \in RunIds : pc'[v] \in Reaping /\ q \in DOMAIN rows'[v] => Abandoned(q)'
      BY <2>4, <2>6 DEF LifeInv, Reaped
    <3>4. \A v \in Workers \ {w}, q \in RunIds :
            pc'[v] \in {"reapEnd", "reapFinish"} /\ q = job'[v] => Abandoned(q)' /\ runs'[q].status = "error"
      BY <2>4, <2>6 DEF LifeInv, Reaped
    <3>5. \A v \in Workers \ {w} : pc'[v] \in Reaping => \A q \in DOMAIN rows'[v] : Abandoned(q)'
      BY <2>4, <3>1, <3>3
    <3>6. pc'[w] \notin Reaping
      BY <2>4 DEF Reaping
    <3> QED BY <2>4, <3>2, <3>4, <3>5, <3>6 DEF Reaped, Abandoned, Held, Reaping
  <2>11. Lost'
    <3>1. Held(r)'
      BY <2>4 DEF Held, Executing
    <3> QED BY <2>1, <2>2, <2>5, <3>1 DEF LifeInv, Lost
  <2>12. EndedIsClosed'
    <3> SUFFICES ASSUME NEW q \in RunIds, runs'[q].status \in Ended, Open(runs'[q].stages) # {}
                 PROVE  \/ \E v \in Workers : pc'[v] = "reapEnd" /\ job'[v] = q
                        \/ runs'[q].status = "error" /\ faults > 1
      BY <2>1 DEF EndedIsClosed
    <3>1. runs'[q] = runs[q]
      BY <2>2 DEF Ended
    <3>2. ASSUME NEW v \in Workers, pc[v] = "reapEnd", job[v] = q PROVE pc'[v] = "reapEnd" /\ job'[v] = q
      BY <2>1, <2>4, <3>2
    <3> QED BY <3>1, <3>2 DEF LifeInv, EndedIsClosed
  <2> QED BY <2>7, <2>8, <2>9, <2>10, <2>11, <2>12 DEF LifeInv
<1> QED BY <1>1, <1>2

\* A reaper w writes the run r that has no worker.
ReapWrite(w, r) ==
  /\ UNCHANGED <<age, project, cancel, doomed, copy, faults, rows>>
  /\ \A v \in Workers \ {w} : pc'[v] = pc[v] /\ job'[v] = job[v]
  /\ pc[w] \in Reaping /\ pc'[w] \in {"reapEnd", "reapFinish"} /\ job'[w] = r
  /\ runs'[r].status = "error" /\ \A q \in RunIds \ {r} : runs'[q] = runs[q]

LEMMA ReapWriteKeepsLife ==
  ASSUME TypeInv, LifeInv, NEW w \in Workers, NEW r \in RunIds, Abandoned(r), ReapWrite(w, r),
         pc'[w] = "reapFinish" => pc[w] = "reapEnd" /\ job[w] = r /\ Open(runs'[r].stages) = {},
         pc[w] = "reapEnd" => pc'[w] = "reapFinish"
  PROVE  LifeInv'
<1> USE DEF ReapWrite
<1>1. \A q : Held(q)' <=> Held(q)
  BY DEF Held, Executing, Reaping
<1>2. \A q \in RunIds : Abandoned(q) => Abandoned(q)' /\ (runs[q].status = "error" => runs'[q].status = "error")
  BY <1>1 DEF Abandoned
<1>3. \A v \in Workers : pc'[v] \in Executing => v # w /\ job[v] \in RunIds \ {r}
  BY DEF Abandoned, Held, Executing, TypeInv, LocalOK
<1>4. Undisturbed'
  BY DEF LifeInv, Undisturbed
<1>5. Punctual'
  BY <1>3 DEF LifeInv, Punctual
<1>6. InHand'
  <2> SUFFICES ASSUME NEW v \in Workers, pc'[v] \in Executing
               PROVE  /\ pc[v] \in {"begin", "save", "stages"} => runs'[job[v]].status = "running"
                      /\ pc[v] \in {"save", "stages"} => copy[v].stages = runs'[job[v]].stages
                      /\ pc[v] \in {"finish", "endFinish"} => runs'[job[v]].status = copy[v].status
                      /\ pc[v] \in {"finish", "endFinish", "post"} => runs'[job[v]].status \in Finals
    BY <1>3 DEF InHand, Executing
  <2>1. v # w /\ runs'[job[v]] = runs[job[v]]
    BY <1>3
  <2> QED BY <2>1 DEF LifeInv, InHand
<1>7. Reaped'
  <2>1. \A v \in Workers : DOMAIN rows[v] \subseteq RunIds
    BY RowsElim DEF TypeInv, TypeOK
  <2>2. \A v \in Workers : pc'[v] \in {"reapEnd", "reapFinish"} => job'[v] \in RunIds
    BY DEF TypeInv, LocalOK
  <2>3. \A v \in Workers, q \in RunIds : pc'[v] \in Reaping /\ q \in DOMAIN rows'[v] => Abandoned(q)'
    BY <1>2 DEF LifeInv, Reaped
  <2>4. \A v \in Workers \ {w}, q \in RunIds :
          pc'[v] \in {"reapEnd", "reapFinish"} /\ q = job'[v] => Abandoned(q)' /\ runs'[q].status = "error"
    BY <1>2 DEF LifeInv, Reaped
  <2>5. Abandoned(r)' /\ runs'[r].status = "error" /\ job'[w] = r
    BY <1>2
  <2>6. \A v \in Workers : pc'[v] \in Reaping => \A q \in DOMAIN rows'[v] : Abandoned(q)'
    BY <2>1, <2>3
  <2>7. \A v \in Workers, q \in RunIds :
          pc'[v] \in {"reapEnd", "reapFinish"} /\ q = job'[v] => Abandoned(q)' /\ runs'[q].status = "error"
    BY <2>4, <2>5
  <2> QED BY <2>2, <2>6, <2>7 DEF Reaped, Abandoned, Held
<1>8. Lost'
  BY <1>1 DEF LifeInv, Lost, Abandoned
<1>9. EndedIsClosed'
  <2> SUFFICES ASSUME NEW q \in RunIds, runs'[q].status \in Ended, Open(runs'[q].stages) # {}
               PROVE  \/ \E v \in Workers : pc'[v] = "reapEnd" /\ job'[v] = q
                      \/ runs'[q].status = "error" /\ faults > 1
    BY DEF EndedIsClosed
  <2>1. CASE q = r
    BY <2>1
  <2>2. CASE q # r
    <3>1. runs'[q] = runs[q]
      BY <2>2
    <3>2. ASSUME NEW v \in Workers, pc[v] = "reapEnd", job[v] = q PROVE pc'[v] = "reapEnd" /\ job'[v] = q
      BY <2>2, <3>2
    <3> QED BY <3>1, <3>2 DEF LifeInv, EndedIsClosed
  <2> QED BY <2>1, <2>2
<1> QED BY <1>4, <1>5, <1>6, <1>7, <1>8, <1>9 DEF LifeInv

LEMMA ReapLife ==
  ASSUME TypeInv, LifeInv, NEW w \in Workers, ReapEnd(w) \/ \E r \in RunIds : ReapMark(w, r)
  PROVE  LifeInv'
<1> USE DEF api, Reaping
<1>0. /\ pc \in [Workers -> PCs] /\ job \in [Workers -> RunIds \cup {NoRun}]
      /\ rows \in [Workers -> Rows] /\ runs \in [RunIds -> Docs] /\ faults \in Nat
  BY PipelineRunsAssumption DEF TypeInv, TypeOK
<1>1. CASE ReapEnd(w)
  <2> DEFINE r == job[w]
             doc == [runs[r] EXCEPT !.status = "error", !.stages = CloseAll(rows[w][r].stages)]
  <2>1. /\ pc[w] = "reapEnd" /\ pc' = [pc EXCEPT ![w] = "reapFinish"] /\ Update(r, doc)
        /\ UNCHANGED <<age, project, cancel, doomed, job, rows, copy, faults>>
    BY <1>1 DEF ReapEnd
  <2>2. r \in RunIds /\ Abandoned(r) /\ runs[r].status = "error"
    BY <2>1 DEF TypeInv, LocalOK, LifeInv, Reaped
  <2>3. runs'[r] = doc /\ \A q \in RunIds \ {r} : runs'[q] = runs[q]
    BY <1>0, <2>1, <2>2, Written DEF Exists
  <2>4. runs'[r].status = "error" /\ runs'[r].stages = CloseAll(rows[w][r].stages)
    BY <1>0, <2>2, <2>3 DEF Docs
  <2>5. Open(runs'[r].stages) = {}
    BY <2>4 DEF Open, CloseAll
  <2>6. ReapWrite(w, r) /\ pc'[w] = "reapFinish"
    BY <1>0, <2>1, <2>3, <2>4 DEF ReapWrite
  <2> QED BY <2>1, <2>2, <2>5, <2>6, ReapWriteKeepsLife
<1>2. ASSUME NEW r \in RunIds, ReapMark(w, r) PROVE LifeInv'
  <2>0. pc[w] = "reap" /\ r \in DOMAIN rows[w] /\ Abandoned(r)
    BY <1>2 DEF ReapMark, IsOldest, LifeInv, Reaped
  <2>1. CASE StillSilent(w, r)
    <3>1. /\ runs' = [runs EXCEPT ![r].status = "error"] /\ job' = [job EXCEPT ![w] = r]
          /\ pc' = [pc EXCEPT ![w] = "reapEnd"]
          /\ UNCHANGED <<age, project, cancel, doomed, rows, copy, faults>>
      BY <1>2, <2>1 DEF ReapMark
    <3>2. runs'[r].status = "error" /\ \A q \in RunIds \ {r} : runs'[q] = runs[q]
      BY <1>0, <3>1 DEF Docs
    <3>3. ReapWrite(w, r) /\ pc'[w] = "reapEnd"
      BY <1>0, <2>0, <3>1, <3>2 DEF ReapWrite
    <3> QED BY <2>0, <3>3, ReapWriteKeepsLife
  <2>2. CASE ~StillSilent(w, r)
    <3>1. /\ rows' = [rows EXCEPT ![w] = RowsWithout(w, r)]
          /\ UNCHANGED <<runs, job, pc, age, project, cancel, doomed, copy, faults>>
      BY <1>2, <2>2 DEF ReapMark
    <3>2. \A q \in DOMAIN rows'[w] : Abandoned(q)
      BY <1>0, <2>0, <3>1 DEF RowsWithout, LifeInv, Reaped
    <3>3. LocalStep(w) /\ pc'[w] = "reap"
      BY <1>0, <2>0, <3>1 DEF LocalStep
    <3> QED BY <2>0, <3>2, <3>3, LocalKeepsLife DEF Executing
  <2> QED BY <2>1, <2>2
<1> QED BY <1>1, <1>2

LEMMA HeartbeatLife ==
  ASSUME TypeInv, LifeInv, NEW w \in Workers, Heartbeat(w)
  PROVE  LifeInv'
<1>1. /\ runs' = [runs EXCEPT ![job[w]].heartbeat_at = @ + 1] /\ age' = [age EXCEPT ![job[w]] = 0]
      /\ UNCHANGED <<pc, job, rows, copy, project, cancel, doomed, faults>>
  BY DEF Heartbeat, api
<1>2. \A r \in RunIds : runs'[r].status = runs[r].status /\ runs'[r].stages = runs[r].stages
  BY <1>1 DEF TypeInv, TypeOK, Docs
<1>3. \A v \in Workers : pc[v] \in Executing \cup {"reapEnd", "reapFinish"} => job[v] \in RunIds
  BY DEF TypeInv, LocalOK
<1>4. \A v \in Workers : DOMAIN rows[v] \subseteq RunIds
  BY RowsElim DEF TypeInv, TypeOK
<1>5. Undisturbed'
  BY <1>1 DEF LifeInv, Undisturbed
<1>6. Punctual'
  BY <1>1, <1>3, PipelineRunsAssumption DEF LifeInv, Punctual, TypeInv, TypeOK
<1>7. InHand'
  BY <1>1, <1>2, <1>3 DEF LifeInv, InHand, Executing
<1>8. Reaped'
  BY <1>1, <1>2, <1>3, <1>4 DEF LifeInv, Reaped, Abandoned, Held
<1>9. Lost' /\ EndedIsClosed'
  BY <1>1, <1>2 DEF LifeInv, Lost, Held, EndedIsClosed
<1> QED BY <1>5, <1>6, <1>7, <1>8, <1>9 DEF LifeInv

LEMMA NextLife ==
  ASSUME OnlyDeaths, TypeInv, ExecutedInv, LifeInv, [Next]_vars
  PROVE  LifeInv'
<1>1. /\ "cancel" \notin Faults /\ "delete" \notin Faults /\ "outage" \notin Faults
      /\ project = "live" /\ cancel.pc = "idle" /\ doomed = {}
  BY DEF OnlyDeaths, LifeInv, Undisturbed
<1>2. CASE Api
  <2>1. AllocateId \/ \E r \in RunIds : CreateRun(r)
    BY <1>1, <1>2 DEF Api, CancelEnd, CancelFinish, CancelMark, DeleteFind, DeleteProject, CancelRead, DeleteRun
  <2> QED BY <2>1, AllocateLife, CreateLife
<1>3. CASE Tick
  BY <1>3, TickLife
<1>4. ASSUME NEW w \in Workers, Loop(w) PROVE LifeInv'
  BY <1>4, LoopLife, ReapLife, ClaimLife DEF Loop
<1>5. ASSUME NEW w \in Workers, Execute(w) PROVE LifeInv'
  BY <1>5, ExecuteLife
<1>6. ASSUME NEW w \in Workers, Heartbeat(w) \/ Kill(w) \/ Restart(w) PROVE LifeInv'
  BY <1>6, HeartbeatLife, KillLife, LoopLife
<1>7. \A w \in Workers : ~Outage(w)
  BY <1>1 DEF Outage
<1>8. CASE UNCHANGED vars
  BY <1>8 DEF vars, LifeInv, Undisturbed, Punctual, InHand, Reaped, Abandoned, Held, Lost, EndedIsClosed
<1> QED BY <1>2, <1>3, <1>4, <1>5, <1>6, <1>7, <1>8 DEF Next, Worker

\* The three invariants together, of every reachable state.
LEMMA LifeInvariant ==
  ASSUME OnlyDeaths
  PROVE  Spec => [](TypeInv /\ ExecutedInv /\ LifeInv)
<1>1. Init => TypeInv /\ ExecutedInv /\ LifeInv
  <2> SUFFICES ASSUME Init PROVE TypeInv /\ ExecutedInv /\ LifeInv
    OBVIOUS
  <2>1. ExecutedInv
    BY DEF Init, ExecutedInv, ExecutedOnce, NoDoc, Executing, RunIds
  <2> QED BY <2>1, InitTypeInv, InitLifeInv
<1>2. TypeInv /\ ExecutedInv /\ LifeInv /\ [Next]_vars => TypeInv' /\ ExecutedInv' /\ LifeInv'
  <2> SUFFICES ASSUME TypeInv, ExecutedInv, LifeInv, [Next]_vars PROVE TypeInv' /\ ExecutedInv' /\ LifeInv'
    OBVIOUS
  <2>1. TypeInv' /\ ExecutedInv'
    BY ApiTypeInv, LoopTypeInv, ExecuteTypeInv, FaultTypeInv, StutterTypeInv,
       ApiExecutedInv, LoopExecutedInv, ExecuteExecutedInv, FaultExecutedInv, StutterExecutedInv
       DEF Next, Worker
  <2> QED BY <2>1, NextLife
<1> QED BY <1>1, <1>2, PTL DEF Spec

\* "no stage is left running or pending" (runner.py, _RunState.end): however many workers
\* there are and whichever of them die, a run that ended has all its stages closed, but
\* for a reaper caught between its two writes; needs that nothing is cancelled or deleted
\* and that heartbeats are punctual (a zombie's stages overwrite a reaper's).
THEOREM EndedAreClosed ==
  ASSUME OnlyDeaths
  PROVE  Spec => []EndedIsClosed
<1>1. LifeInv => EndedIsClosed
  BY DEF LifeInv
<1> QED BY <1>1, LifeInvariant, PTL

----------------------------------------------------------------------------
(* The life cycle a user sees, step by step. *)

\* Nothing a user sees has changed.
LEMMA Unseen ==
  ASSUME \A r \in RunIds : runs'[r].status = runs[r].status, lastRun' = lastRun
  PROVE  UNCHANGED Lifecycle!vars
BY DEF Lifecycle!vars

\* One run has moved on.
LEMMA Moved ==
  ASSUME NEW r \in RunIds, NEW from, NEW to, runs[r].status \in from, runs'[r].status = to,
         \A q \in RunIds \ {r} : runs'[q].status = runs[q].status, lastRun' = lastRun
  PROVE  Lifecycle!Moves(r, from, to)
BY DEF Lifecycle!Moves

\* The project shows a run that has ended.
LEMMA Showed ==
  ASSUME NEW r \in RunIds, runs[r].status \in Finals, UNCHANGED runs,
         lastRun' = [id |-> r, status |-> runs[r].status]
  PROVE  Lifecycle!Show(r)
BY DEF Lifecycle!Show, Lifecycle!Outcomes, Finals

LEMMA ApiFollows ==
  ASSUME OnlyDeaths, TypeInv, ExecutedInv, LifeInv, Api \/ Tick
  PROVE  Lifecycle!Next \/ UNCHANGED Lifecycle!vars
<1>1. CASE AllocateId \/ Tick
  <2>1. UNCHANGED <<runs, lastRun>>
    BY <1>1 DEF AllocateId, Tick
  <2> QED BY <2>1, Unseen
<1>2. ASSUME NEW r \in RunIds, CreateRun(r) PROVE Lifecycle!Next
  <2>1. r \in inserting /\ runs' = [runs EXCEPT ![r] = [NoDoc EXCEPT !.status = "queued"]] /\ lastRun' = lastRun
    BY <1>2 DEF CreateRun
  <2>2. /\ runs[r].status \in {"absent"} /\ runs'[r].status = "queued"
        /\ \A q \in RunIds \ {r} : runs'[q].status = runs[q].status
    BY <2>1 DEF ExecutedInv, NoDoc, TypeInv, TypeOK
  <2>3. Lifecycle!Moves(r, {"absent"}, "queued")
    BY <2>1, <2>2, Moved
  <2> QED BY <2>3 DEF Lifecycle!Next, Lifecycle!Submit
<1>3. AllocateId \/ Tick \/ \E r \in RunIds : CreateRun(r)
  BY DEF Api, CancelEnd, CancelFinish, CancelMark, DeleteFind, DeleteProject, CancelRead, DeleteRun,
         OnlyDeaths, LifeInv, Undisturbed
<1> QED BY <1>1, <1>2, <1>3

LEMMA LoopFollows ==
  ASSUME TypeInv, LifeInv, NEW w \in Workers, Loop(w)
  PROVE  Lifecycle!Next \/ UNCHANGED Lifecycle!vars
<1>0. runs \in [RunIds -> Docs] /\ project = "live"
  BY DEF TypeInv, TypeOK, LifeInv, Undisturbed
<1>1. CASE ReapFind(w) \/ ReapDone(w) \/ ClaimFind(w) \/ ClaimNone(w)
  <2>1. UNCHANGED <<runs, lastRun>>
    BY <1>1 DEF ReapFind, ReapDone, ClaimFind, ClaimNone, store
  <2> QED BY <2>1, Unseen
<1>2. CASE ReapFinish(w)
  <2>1. pc[w] = "reapFinish" /\ UNCHANGED runs /\ lastRun' = [id |-> job[w], status |-> "error"]
    BY <1>0, <1>2 DEF ReapFinish, FinishProject
  <2>2. job[w] \in RunIds /\ runs[job[w]].status = "error"
    BY <2>1 DEF TypeInv, LocalOK, LifeInv, Reaped
  <2>3. Lifecycle!Show(job[w])
    BY <2>1, <2>2, Showed DEF Finals
  <2> QED BY <2>2, <2>3 DEF Lifecycle!Next
<1>3. CASE ReapEnd(w)
  <2> DEFINE r == job[w]
             doc == [runs[r] EXCEPT !.status = "error", !.stages = CloseAll(rows[w][r].stages)]
  <2>1. pc[w] = "reapEnd" /\ Update(r, doc) /\ lastRun' = lastRun
    BY <1>3 DEF ReapEnd
  <2>2. r \in RunIds /\ runs[r].status = "error" /\ Exists(r)
    BY <2>1 DEF TypeInv, LocalOK, LifeInv, Reaped, Exists
  <2>3. runs'[r] = doc /\ \A q \in RunIds \ {r} : runs'[q] = runs[q]
    BY <1>0, <2>1, <2>2, Written
  <2>4. runs'[r].status = "error"
    BY <1>0, <2>2, <2>3 DEF Docs
  <2> QED BY <2>1, <2>2, <2>3, <2>4, Unseen
<1>4. ASSUME NEW r \in RunIds, ReapMark(w, r) PROVE Lifecycle!Next \/ UNCHANGED Lifecycle!vars
  <2>1. runs[r].status \in {"running", "error"} /\ lastRun' = lastRun
    BY <1>4 DEF ReapMark, IsOldest, LifeInv, Reaped, Abandoned, Reaping
  <2>2. CASE UNCHANGED runs
    BY <2>1, <2>2, Unseen
  <2>3. CASE runs' = [runs EXCEPT ![r].status = "error"]
    <3>1. runs'[r].status = "error" /\ \A q \in RunIds \ {r} : runs'[q].status = runs[q].status
      BY <1>0, <2>3 DEF Docs
    <3>2. CASE runs[r].status = "error"
      BY <2>1, <3>1, <3>2, Unseen
    <3>3. CASE runs[r].status = "running"
      <4>1. Lifecycle!Moves(r, {"running"}, "error")
        BY <2>1, <3>1, <3>3, Moved
      <4> QED BY <4>1 DEF Lifecycle!Next, Lifecycle!End, Lifecycle!Outcomes
    <3> QED BY <2>1, <3>2, <3>3
  <2> QED BY <1>4, <2>2, <2>3 DEF ReapMark
<1>5. ASSUME NEW r \in RunIds, Claim(w, r) PROVE Lifecycle!Next \/ UNCHANGED Lifecycle!vars
  <2>1. lastRun' = lastRun
    BY <1>5 DEF Claim
  <2>2. CASE ~StillQueued(r)
    BY <1>5, <2>1, <2>2, Unseen DEF Claim
  <2>3. CASE StillQueued(r)
    <3>1. runs' = [runs EXCEPT ![r].status = "running", ![r].worker = w, ![r].heartbeat_at = 1]
      BY <1>5, <2>3 DEF Claim
    <3>2. runs'[r].status = "running" /\ \A q \in RunIds \ {r} : runs'[q].status = runs[q].status
      BY <1>0, <3>1 DEF Docs
    <3>3. Lifecycle!Moves(r, {"queued"}, "running")
      BY <2>1, <2>3, <3>2, Moved DEF StillQueued
    <3> QED BY <3>3 DEF Lifecycle!Next, Lifecycle!Take
  <2> QED BY <2>2, <2>3
<1> QED BY <1>1, <1>2, <1>3, <1>4, <1>5 DEF Loop

LEMMA ExecuteFollows ==
  ASSUME TypeInv, LifeInv, NEW w \in Workers, Execute(w)
  PROVE  Lifecycle!Next \/ UNCHANGED Lifecycle!vars
<1>0. runs \in [RunIds -> Docs] /\ project = "live" /\ (pc[w] \in Executing => job[w] \in RunIds)
  BY DEF TypeInv, TypeOK, LocalOK, LifeInv, Undisturbed
<1>h. /\ pc[w] \in {"begin", "save", "stages"} => runs[job[w]].status = "running" /\ Exists(job[w])
      /\ pc[w] \in {"finish", "endFinish"} => runs[job[w]].status = copy[w].status /\ runs[job[w]].status \in Finals
  BY DEF LifeInv, InHand, Exists
<1>1. CASE ExecuteRead(w) \/ ExecuteReturn(w)
  <2>1. UNCHANGED <<runs, lastRun>>
    BY <1>1 DEF ExecuteRead, ExecuteReturn, store
  <2> QED BY <2>1, Unseen
<1>2. CASE ExecuteOrphan(w)
  BY <1>0, <1>2 DEF ExecuteOrphan
<1>3. CASE ExecuteBegin(w)
  <2>1. /\ pc[w] = "save" /\ lastRun' = lastRun
        /\ Update(job[w], [runs[job[w]] EXCEPT !.status = "running"])
    BY <1>3 DEF ExecuteBegin
  <2>2. job[w] \in RunIds
    BY <1>0, <2>1 DEF Executing
  <2>3. runs'[job[w]] = [runs[job[w]] EXCEPT !.status = "running"] /\ \A q \in RunIds \ {job[w]} : runs'[q] = runs[q]
    BY <1>0, <1>h, <2>1, <2>2, Written
  <2>4. runs'[job[w]].status = "running"
    BY <1>0, <2>2, <2>3 DEF Docs
  <2> QED BY <1>h, <2>1, <2>2, <2>3, <2>4, Unseen
<1>4. CASE StageSave(w)
  <2>1. /\ pc[w] = "stages" /\ lastRun' = lastRun
        /\ Update(job[w], [runs[job[w]] EXCEPT !.stages = copy'[w].stages])
    BY <1>4 DEF StageSave
  <2>2. job[w] \in RunIds
    BY <1>0, <2>1 DEF Executing
  <2>3. runs'[job[w]] = [runs[job[w]] EXCEPT !.stages = copy'[w].stages] /\ \A q \in RunIds \ {job[w]} : runs'[q] = runs[q]
    BY <1>0, <1>h, <2>1, <2>2, Written
  <2>4. runs'[job[w]].status = runs[job[w]].status
    BY <1>0, <2>2, <2>3 DEF Docs
  <2> QED BY <2>1, <2>2, <2>3, <2>4, Unseen
<1>5. CASE Report(w) \/ EndError(w)
  <2>0. \E status \in Finals : \E stages :
          Update(job[w], [runs[job[w]] EXCEPT !.status = status, !.stages = stages])
    <3>1. CASE EndError(w)
      BY <3>1 DEF EndError, Finals
    <3>2. CASE Report(w)
      <4>1. PICK status \in {"passed", "failed", "error"} : Update(job[w], [runs[job[w]] EXCEPT !.status = status])
        BY <3>2 DEF Report
      <4>2. job[w] \in RunIds
        BY <1>0, <3>2 DEF Report, Executing
      <4>3. [runs[job[w]] EXCEPT !.status = status] = [runs[job[w]] EXCEPT !.status = status, !.stages = runs[job[w]].stages]
        BY <1>0, <4>2 DEF Docs
      <4> QED BY <4>1, <4>3 DEF Finals
    <3> QED BY <1>5, <3>1, <3>2
  <2>a. PICK status \in Finals :
          \E stages : Update(job[w], [runs[job[w]] EXCEPT !.status = status, !.stages = stages])
    BY <2>0
  <2>1. PICK stages : Update(job[w], [runs[job[w]] EXCEPT !.status = status, !.stages = stages])
    BY <2>a
  <2>2. pc[w] = "stages" /\ lastRun' = lastRun
    BY <1>5 DEF Report, EndError
  <2>3. job[w] \in RunIds
    BY <1>0, <2>2 DEF Executing
  <2>4. /\ runs'[job[w]] = [runs[job[w]] EXCEPT !.status = status, !.stages = stages]
        /\ \A q \in RunIds \ {job[w]} : runs'[q] = runs[q]
    BY <1>0, <1>h, <2>1, <2>2, <2>3, Written
  <2>5. runs'[job[w]].status = status
    BY <1>0, <2>3, <2>4 DEF Docs
  <2>6. PICK r \in RunIds : r = job[w]
    BY <2>3
  <2>7. /\ runs[r].status \in {"running"} /\ runs'[r].status = status
        /\ \A q \in RunIds \ {r} : runs'[q].status = runs[q].status
    BY <1>h, <2>2, <2>4, <2>5, <2>6
  <2>8. Lifecycle!Moves(r, {"running"}, status)
    BY <2>2, <2>7, Moved
  <2> QED BY <2>8 DEF Lifecycle!Next, Lifecycle!End, Lifecycle!Outcomes, Finals
<1>6. CASE ExecuteFinish(w)
  <2>1. pc[w] \in {"finish", "endFinish"} /\ UNCHANGED runs /\ lastRun' = [id |-> job[w], status |-> copy[w].status]
    BY <1>0, <1>6 DEF ExecuteFinish, FinishProject
  <2>2. job[w] \in RunIds
    BY <1>0, <2>1 DEF Executing
  <2>3. Lifecycle!Show(job[w])
    BY <1>h, <2>1, <2>2, Showed
  <2> QED BY <2>2, <2>3 DEF Lifecycle!Next
<1> QED BY <1>1, <1>2, <1>3, <1>4, <1>5, <1>6 DEF Execute

LEMMA NextFollows ==
  ASSUME OnlyDeaths, TypeInv, ExecutedInv, LifeInv, [Next]_vars
  PROVE  [Lifecycle!Next]_(Lifecycle!vars)
<1>1. ASSUME NEW w \in Workers, Kill(w) \/ Restart(w) PROVE UNCHANGED Lifecycle!vars
  BY <1>1, Unseen DEF Kill, Restart, store
<1>2. ASSUME NEW w \in Workers, Heartbeat(w) PROVE UNCHANGED Lifecycle!vars
  <2>1. runs' = [runs EXCEPT ![job[w]].heartbeat_at = @ + 1] /\ lastRun' = lastRun
    BY <1>2 DEF Heartbeat
  <2>2. \A r \in RunIds : runs'[r].status = runs[r].status
    BY <2>1 DEF TypeInv, TypeOK, Docs
  <2> QED BY <2>1, <2>2, Unseen
<1>3. \A w \in Workers : ~Outage(w)
  BY DEF Outage, OnlyDeaths
<1>4. CASE UNCHANGED vars
  BY <1>4, Unseen DEF vars
<1> QED BY <1>1, <1>2, <1>3, <1>4, ApiFollows, LoopFollows, ExecuteFollows DEF Next, Worker

\* The workers, whichever of them die, and their reapers implement the life cycle a user
\* sees: a run is submitted, taken once and ended once, by one of them, and its project
\* shows nothing but the final status of a run (worker.py, runner.py), for every number
\* of workers, runs and deaths.
THEOREM WorkersFollowLifecycle ==
  ASSUME OnlyDeaths
  PROVE  Spec => FollowsLifecycle
<1>1. Init => Lifecycle!Init
  BY DEF Init, Lifecycle!Init, NoDoc
<1>2. TypeInv /\ ExecutedInv /\ LifeInv /\ [Next]_vars => [Lifecycle!Next]_(Lifecycle!vars)
  BY NextFollows
<1> QED BY <1>1, <1>2, LifeInvariant, PTL DEF Spec, FollowsLifecycle, Lifecycle!Safety
=============================================================================
