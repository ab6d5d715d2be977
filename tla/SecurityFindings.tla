--------------------------- MODULE SecurityFindings --------------------------
(***************************************************************************)
(* Security findings of one site and its repository, from a scan to a pull *)
(* request (backend/api/security.py, backend/services/security_service.py, *)
(* backend/api/patches.py, backend/api/ingest.py, backend/github.py,       *)
(* backend/gitforges.py).                                                  *)
(*                                                                         *)
(* Requests overlap: a request is served by a slot and gives up the event  *)
(* loop while it waits for the site, a clone or the Git host; what it does *)
(* between two waits is one step.  The site changes by deployments at any  *)
(* time, and the process may be restarted, which loses every request.      *)
(***************************************************************************)
EXTENDS FixPatcher, TLC

CONSTANTS
  Slots,        \* requests that may be served at the same time
  Pages,        \* what the site may answer with
  Repos,        \* repositories that may be linked to it, each with its host as "forge"
  ActiveScans,  \* SECURITY_ACTIVE_SCAN, and the account is listed
  BRANCH_NAMES, \* branch names tried for a pull request
  MaxRequests, MaxDeploys   \* bounds

ASSUME FindingsAssumption ==
  /\ Pages \subseteq PageRecords
  /\ ActiveScans \in BOOLEAN
  /\ \A r \in Repos : r.forge \in {"github", "gitlab", "bitbucket"}
  /\ BRANCH_NAMES \in Nat /\ MaxRequests \in Nat /\ MaxDeploys \in Nat

VARIABLES
  site,       \* the page the site answers with now
  repo,       \* the repository linked to it
  rows,       \* security_findings: key -> row
  patches,    \* fix_patches, by id
  branches,   \* branches on the Git host: patch id -> how many were made
  pulls,      \* pull requests on the Git host: [patch, branch]
  slots,      \* the requests being served
  requests, deploys,   \* how often each happened
  agreed,     \* history: keys of which the last check to be saved saw what the site still is
  answered    \* history: patches whose pull request was returned to a user

vars == <<site, repo, rows, patches, branches, pulls, slots, requests, deploys,
          agreed, answered>>

Target(key) == IF IsDependency(key) THEN "repository" ELSE "site"

Keys == UNION {Issues(p) : p \in Pages}

Idle == [pc |-> "idle"]

Init ==
  /\ site \in Pages /\ repo \in Repos
  /\ rows = << >> /\ patches = << >> /\ branches = << >> /\ pulls = {}
  /\ slots = [s \in Slots |-> Idle]
  /\ requests = 0 /\ deploys = 0
  /\ agreed = {} /\ answered = {}

Unchanged == UNCHANGED <<site, repo, deploys>>

\* Slot s takes up a request and waits with what it read.
Begins(s, request) ==
  /\ slots[s] = Idle /\ requests < MaxRequests
  /\ requests' = requests + 1
  /\ slots' = [slots EXCEPT ![s] = request]
  /\ Unchanged

\* Slot s goes on after a wait.
Continues(s, request) ==
  /\ slots' = [slots EXCEPT ![s] = request]
  /\ UNCHANGED requests /\ Unchanged

Open(key) == key \in DOMAIN rows /\ rows[key].status = "open"

OpenKeys == {k \in DOMAIN rows : Open(k)}

-----------------------------------------------------------------------------
\* mutant: a resolved finding that shows up again is updated and stays resolved
NeverReopened(key, page) == [rows[key] EXCEPT !.leaks = page.leaks]

\* A finding of this scan that has a row.
Updated(key, page) ==
  IF rows[key].status = "resolved"
  THEN [status |-> "open", retest_result |-> "none", approved |-> FALSE, leaks |-> page.leaks]
  ELSE [rows[key] EXCEPT !.leaks = page.leaks]

Inserted(page) == [status |-> "open", retest_result |-> "none", approved |-> FALSE, leaks |-> page.leaks]

\* An open finding of the target that the scan did not see.
Missed(key) == [rows[key] EXCEPT !.status = "resolved", !.retest_result = "pass"]

save_scan(target, seen, page) ==
  rows' = [k \in DOMAIN rows \cup seen |->
             IF k \in seen THEN IF k \in DOMAIN rows THEN Updated(k, page) ELSE Inserted(page)
             ELSE IF Target(k) = target /\ Open(k) THEN Missed(k) ELSE rows[k]]

\* The check saw "seen" of the keys it looks at: agreed are those on which the site still is so.
Observes(looked, seen) ==
  agreed' = (agreed \ looked) \cup {k \in looked : (k \in seen) = (k \in Issues(site))}

Passive == {k \in Keys : ~IsActive(k) /\ ~IsDependency(k)}

Active == {k \in Keys : IsActive(k)}

Dependencies == {k \in Keys : IsDependency(k)}

-----------------------------------------------------------------------------
\* POST /security/scan and the security stage of a run: the page is fetched ...
ScanFetches(s) ==
  /\ \E active \in BOOLEAN :
       /\ active => ActiveScans
       /\ Begins(s, [pc |-> IF active THEN "probe" ELSE "save", page |-> site, seen |-> analyze(site),
                     looked |-> Passive])
  /\ UNCHANGED <<rows, patches, branches, pulls, agreed, answered>>

\* ... probed when the scan is an active one, request by request ...
ScanProbes(s) ==
  /\ slots[s].pc = "probe"
  /\ \E found \in Probed(site) :
       Continues(s, [slots[s] EXCEPT !.pc = "save", !.seen = @ \cup found, !.looked = @ \cup Active])
  /\ UNCHANGED <<rows, patches, branches, pulls, agreed, answered>>

\* ... and its findings are saved.
scan_result(s) ==
  /\ slots[s].pc = "save"
  /\ save_scan("site", slots[s].seen, slots[s].page)
  /\ Observes(slots[s].looked, slots[s].seen)
  /\ Continues(s, Idle)
  /\ UNCHANGED <<patches, branches, pulls, answered>>

\* POST /ingest: the repository is cloned and its pinned packages are looked up ...
ingest_source(s) ==
  /\ Begins(s, [pc |-> "advisories", seen |-> as_findings(site)])
  /\ UNCHANGED <<rows, patches, branches, pulls, agreed, answered>>

\* ... and saved; an advisory service that gave no answer changes nothing.
record_dependency_findings(s) ==
  /\ slots[s].pc = "advisories"
  /\ save_scan("repository", slots[s].seen, [site EXCEPT !.leaks = {}])
  /\ Observes(Dependencies, slots[s].seen)
  /\ Continues(s, Idle)
  /\ UNCHANGED <<patches, branches, pulls, answered>>

\* Only the approval changes.
approve_finding(key) ==
  /\ requests < MaxRequests /\ key \in DOMAIN rows
  /\ rows' = [rows EXCEPT ![key].approved = TRUE]
  /\ requests' = requests + 1 /\ Unchanged
  /\ UNCHANGED <<slots, patches, branches, pulls, agreed, answered>>

\* A dependency is not retested, and an active finding only where active scans are allowed.
Retestable(key) == ~IsDependency(key) /\ (IsActive(key) => ActiveScans)

\* Whether the retest sees the finding again.
StillThere(key) ==
  IF IsActive(key) THEN {(key \in found) : found \in Probed(site)} ELSE {key \in analyze(site)}

\* POST /security/findings/{key}/retest: the check runs ...
RetestFetches(s) ==
  /\ \E key \in {k \in DOMAIN rows : Retestable(k)} : \E still \in StillThere(key) :
       Begins(s, [pc |-> "retested", key |-> key, still |-> still])
  /\ UNCHANGED <<rows, patches, branches, pulls, agreed, answered>>

\* ... and its result goes to the row that was read when it began.
save_retest(s) ==
  /\ slots[s].pc = "retested"
  /\ LET key == slots[s].key
     IN  /\ rows' = [rows EXCEPT ![key].status = IF slots[s].still THEN "open" ELSE "resolved",
                                 ![key].retest_result = IF slots[s].still THEN "fail" ELSE "pass"]
         /\ Observes({key}, IF slots[s].still THEN {key} ELSE {})
  /\ Continues(s, Idle)
  /\ UNCHANGED <<patches, branches, pulls, answered>>

-----------------------------------------------------------------------------
\* POST /security/patches: the open findings are read, all or the ones asked for ...
PatchBegins(s) ==
  /\ \E wanted \in {OpenKeys} \cup {{k} : k \in OpenKeys} :
       LET findings == {k \in wanted : Target(k) = "site"}
           leaks    == UNION {rows[k].leaks : k \in {k \in findings : k.check = "SEC-DISCLOSURE"}}
       IN  /\ findings # {}
           /\ Begins(s, [pc |-> "clone", findings |-> findings, leaks |-> leaks])
  /\ UNCHANGED <<rows, patches, branches, pulls, agreed, answered>>

\* The row of a patch: no pull request yet.
Row(patch) ==
  [findings |-> patch.findings, files |-> patch.files, applied |-> patch.applied, manual |-> patch.manual,
   pull_request |-> 0]

\* ... the repository is cloned and the patch built and stored, with the commit it is for.
create_patch(s) ==
  /\ slots[s].pc = "clone"
  /\ patches' = Append(patches, Row(build_patch(slots[s].findings, slots[s].leaks, repo)))
  /\ branches' = Append(branches, 0)
  /\ Continues(s, Idle)
  /\ UNCHANGED <<rows, pulls, agreed, answered>>

\* mutant: a patch that has its pull request gets another one
AsksAgain(id) == patches[id].files # {}

\* A pull request is opened for a patch that changes files and has none yet.
MayOpen(id) == patches[id].pull_request = 0 /\ patches[id].files # {}

\* POST /security/patches/{id}/pull-request: the stored one is returned ...
PullRequestIsThere(id) ==
  /\ requests < MaxRequests /\ patches[id].pull_request # 0
  /\ requests' = requests + 1 /\ Unchanged
  /\ answered' = answered \cup {id}
  /\ UNCHANGED <<slots, rows, patches, branches, pulls, agreed>>

\* ... or the Git host is asked; asked after "answered" means someone has the link of one.
PullRequestBegins(s, id) ==
  /\ MayOpen(id)
  /\ Begins(s, [pc |-> "branch", patch |-> id, late |-> id \in answered, name |-> 0])
  /\ UNCHANGED <<rows, patches, branches, pulls, agreed, answered>>

\* The name of a new branch.  GitHub refuses a name that is taken, and the next one
\* is tried, BRANCH_NAMES in all; GitLab and Bitbucket are asked for a free name first.
_branch(s) ==
  /\ slots[s].pc = "branch"
  /\ LET id == slots[s].patch
         free == branches[id] + 1
     IN  \/ /\ repo.forge = "github" /\ free <= BRANCH_NAMES
            /\ branches' = [branches EXCEPT ![id] = free]
            /\ Continues(s, [slots[s] EXCEPT !.pc = "pull", !.name = free])
         \/ /\ repo.forge = "github" /\ free > BRANCH_NAMES
            /\ Continues(s, Idle) /\ UNCHANGED branches
         \/ /\ repo.forge = "gitlab" /\ free > BRANCH_NAMES
            /\ Continues(s, Idle) /\ UNCHANGED branches
         \/ /\ \/ repo.forge = "gitlab" /\ free <= BRANCH_NAMES
               \/ repo.forge = "bitbucket"
            /\ Continues(s, [slots[s] EXCEPT !.pc = "commit",
                                             !.name = IF free <= BRANCH_NAMES + 1 THEN free ELSE BRANCH_NAMES + 1])
            /\ UNCHANGED branches
  /\ UNCHANGED <<rows, patches, pulls, agreed, answered>>

\* GitLab and Bitbucket make the branch with its commit, and refuse one that exists by now.
_commit(s) ==
  /\ slots[s].pc = "commit"
  /\ LET id == slots[s].patch
     IN  IF slots[s].name > branches[id]
         THEN /\ branches' = [branches EXCEPT ![id] = slots[s].name]
              /\ Continues(s, [slots[s] EXCEPT !.pc = "pull"])
         ELSE Continues(s, Idle) /\ UNCHANGED branches
  /\ UNCHANGED <<rows, patches, pulls, agreed, answered>>

\* The pull request is opened from that branch ...
open_fix_pr(s) ==
  /\ slots[s].pc = "pull"
  /\ pulls' = pulls \cup {[patch |-> slots[s].patch, branch |-> slots[s].name, late |-> slots[s].late]}
  /\ Continues(s, [slots[s] EXCEPT !.pc = "record"])
  /\ UNCHANGED <<rows, patches, branches, agreed, answered>>

\* ... and stored with the patch before it is returned.
open_pull_request(s) ==
  /\ slots[s].pc = "record"
  /\ patches' = [patches EXCEPT ![slots[s].patch].pull_request = slots[s].name]
  /\ answered' = answered \cup {slots[s].patch}
  /\ Continues(s, Idle)
  /\ UNCHANGED <<rows, branches, pulls, agreed>>

-----------------------------------------------------------------------------
\* The site, the repository or the Git host gives no answer, or refuses: the request
\* ends with an error and what it did so far stays.
Fails(s) ==
  /\ slots[s].pc \in {"probe", "advisories", "clone", "branch", "commit", "pull", "record"}
  /\ Continues(s, Idle)
  /\ UNCHANGED <<rows, patches, branches, pulls, agreed, answered>>

Restart ==
  /\ \E s \in Slots : slots[s] # Idle
  /\ slots' = [s \in Slots |-> Idle]
  /\ UNCHANGED <<site, repo, rows, patches, branches, pulls, requests, deploys, agreed, answered>>

\* Environment: a new version of the site is deployed, with or without the fixes.
Deploy(page) ==
  /\ deploys < MaxDeploys /\ page # site
  /\ site' = page /\ deploys' = deploys + 1
  /\ agreed' = {k \in agreed : (k \in Issues(site)) = (k \in Issues(page))}
  /\ UNCHANGED <<repo, rows, patches, branches, pulls, slots, requests, answered>>

Next ==
  \/ \E s \in Slots :
       \/ ScanFetches(s) \/ ScanProbes(s) \/ scan_result(s)
       \/ RetestFetches(s) \/ save_retest(s) \/ ingest_source(s) \/ record_dependency_findings(s)
       \/ PatchBegins(s) \/ create_patch(s)
       \/ \E id \in DOMAIN patches : PullRequestBegins(s, id)
       \/ _branch(s) \/ _commit(s) \/ open_fix_pr(s) \/ open_pull_request(s)
       \/ Fails(s)
  \/ \E key \in DOMAIN rows : approve_finding(key)
  \/ \E id \in DOMAIN patches : PullRequestIsThere(id)
  \/ \E page \in Pages : Deploy(page)
  \/ Restart

Spec == Init /\ [][Next]_vars

-----------------------------------------------------------------------------
\* What the variables hold.
Rows == [status : {"open", "resolved"}, retest_result : {"none", "pass", "fail"}, approved : BOOLEAN,
         leaks : SUBSET STRING]

Patches == [findings : SUBSET Keys, files : SUBSET EDITED_FILES,
            applied : SUBSET [check : CHECK_IDS, file : EDITED_FILES], manual : SUBSET CHECK_IDS, pull_request : Nat]

Asking == [pc : {"branch", "commit", "pull", "record"}, patch : Nat, late : BOOLEAN, name : Nat]

SlotStates ==
       [pc : {"idle"}]
  \cup [pc : {"probe", "save"}, page : Pages, seen : SUBSET Keys, looked : SUBSET Keys]
  \cup [pc : {"advisories"}, seen : SUBSET Keys]
  \cup [pc : {"retested"}, key : Keys, still : BOOLEAN]
  \cup [pc : {"clone"}, findings : SUBSET Keys, leaks : SUBSET STRING]
  \cup Asking

\* Types, and what the fields have to do with one another: a finding is resolved
\* exactly when its last retest passed (save_scan, save_retest).
TypeOK ==
  /\ site \in Pages /\ repo \in Repos
  /\ DOMAIN rows \subseteq Keys /\ rows \in [DOMAIN rows -> Rows] /\ agreed \subseteq Keys
  /\ \A k \in DOMAIN rows : rows[k].status = "resolved" <=> rows[k].retest_result = "pass"
  /\ patches \in Seq(Patches) /\ branches \in Seq(Nat) /\ Len(branches) = Len(patches)
  /\ pulls \subseteq [patch : Nat, branch : Nat, late : BOOLEAN]
  /\ answered \subseteq DOMAIN patches
  /\ slots \in [Slots -> SlotStates]
  /\ requests \in 0..MaxRequests /\ deploys \in 0..MaxDeploys

\* Whatever overlapped and whatever was approved, reopened or restarted in between, a
\* passive finding or dependency whose last saved check saw the site as it still is shows
\* the site's state (save_scan, save_retest).
SettledIsTrue == \A k \in (Passive \cup Dependencies) \cap agreed : Open(k) <=> k \in Issues(site)

\* A patch answers for each check it was asked to fix: as applied, or as needing a
\* change by hand (build_patch).
NoCheckDropped ==
  \A id \in DOMAIN patches : \A f \in patches[id].findings :
    f.check \in {a.check : a \in patches[id].applied} \cup patches[id].manual

\* Once someone was given the pull request of a patch, no request that comes later opens
\* another one, whatever failed or was lost before (open_pull_request).
NoSecondAfterAnswer == \A p \in pulls : ~p.late
=============================================================================
