------------------------------ MODULE Sandbox ------------------------------
(***************************************************************************)
(* One sandbox execution (backend/app/api/sandbox.py): its row, its git    *)
(* worktree and branch, and the requests of its owner.                     *)
(*                                                                         *)
(* A request reads the row without a lock, commits a first status, works   *)
(* on the worktree, which takes up to minutes, and commits the outcome     *)
(* from the object it still holds: the session neither expires nor reads   *)
(* it again.  So a request is a sequence of steps here, and the requests   *)
(* of two browser tabs interleave.  A request that is refused before its   *)
(* first commit has no effect and is not modelled; last_error_code and the *)
(* events that only announce a step are left out.                          *)
(***************************************************************************)
CONSTANT Requests  \* requests that may be under way at the same time

VARIABLES
    proposal,  \* "approved"; checkpointed again after that, at the same
               \* checkpoint_ref ("reopened") or at another one ("moved")
    row,       \* the row of the execution
    events,    \* its sandbox_execution_events that report a success
    worktree,  \* what is at sandbox_root/<execution id>
    branch,    \* the branch inspector/<execution id>
    request,   \* where each request is, and what it has read
    mishaps    \* history: what a property has to make allowance for

vars == <<proposal, row, events, worktree, branch, request, mishaps>>

Idle == [op |-> "none", stage |-> "idle", target |-> FALSE, matches |-> FALSE]

Init ==
    /\ proposal = "approved"
    /\ row = [status |-> "none", target |-> FALSE, validation |-> "none", test |-> "none"]
    /\ events = {}
    /\ worktree = "absent"
    /\ branch = "absent"
    /\ request = [r \in Requests |-> Idle]
    /\ mishaps = {}

-----------------------------------------------------------------------------
Operations == {"prepare", "apply", "validate", "test", "rollback"}

AllowedTransitions ==
    [created |-> {"preparing"},
     preparing |-> {"prepared", "failed"},
     prepared |-> {"applying"},
     applying |-> {"validating", "rollback_required"},
     validating |-> {"testing", "rollback_required"},
     testing |-> {"awaiting_acceptance", "rollback_required"},
     awaiting_acceptance |-> {"rollback_required"},
     rollback_required |-> {"rolling_back"},
     rolling_back |-> {"rolled_back", "rollback_required"}]

\* transition_sandbox_status does not raise.
MayBecome(status) ==
    /\ row.status \in DOMAIN AllowedTransitions
    /\ status \in AllowedTransitions[row.status]

\* Variant: a wrong name for the status of a rollback under way.
WorkingMisnamed == [prepare |-> "preparing", apply |-> "applying", rollback |-> "rollback"]

\* Variant: every failure requires a rollback.
FailedRequiresRollback == [op \in Operations |-> "rollback_required"]

\* The status a request commits before it works, and those it commits after.
\* Validation and test start from a status that is already theirs.
Working == [prepare |-> "preparing", apply |-> "applying", rollback |-> "rolling_back"]
Succeeded == [prepare |-> "prepared", apply |-> "validating", validate |-> "testing",
              test |-> "awaiting_acceptance", rollback |-> "rolled_back"]
Failed == [prepare |-> "failed", apply |-> "rollback_required",
           validate |-> "rollback_required", test |-> "rollback_required",
           rollback |-> "rollback_required"]

\* Variant: the test does not wait for the validation.
StartableUngated(op) ==
    CASE op \in {"prepare", "apply"} -> MayBecome(Working[op])
      [] op = "validate" -> row.status = "validating" /\ row.target
      [] op = "test"     -> row.status \in {"validating", "testing"} /\ row.target
      [] op = "rollback" -> row.status = "awaiting_acceptance" \/ MayBecome("rolling_back")

\* Variant: an interrupted apply goes on with the validation.
StartableResumed(op) ==
    CASE op \in {"prepare", "apply"} -> MayBecome(Working[op])
      [] op = "validate" -> row.status \in {"applying", "validating"} /\ row.target
      [] op = "test"     -> row.status = "testing" /\ row.target
      [] op = "rollback" -> row.status = "awaiting_acceptance" \/ MayBecome("rolling_back")

\* The operation is not refused at once.
Startable(op) ==
    CASE op \in {"prepare", "apply"} -> MayBecome(Working[op])
      [] op = "validate" -> row.status = "validating" /\ row.target
      [] op = "test"     -> row.status = "testing" /\ row.target
      [] op = "rollback" -> row.status = "awaiting_acceptance" \/ MayBecome("rolling_back")

At(r, op, stage) == request[r].op = op /\ request[r].stage = stage
GoesTo(r, stage) == request' = [request EXCEPT ![r].stage = stage]

-----------------------------------------------------------------------------
\* A checkpoint request that read the proposal before its approval reopens
\* it (finding patch_final).
Reopen ==
    /\ proposal # "moved"
    /\ proposal' \in {"reopened", "moved"}
    /\ UNCHANGED <<row, events, worktree, branch, request, mishaps>>

\* validate_execution_request
Executable == proposal = "approved"

Create ==
    /\ row.status = "none"
    /\ Executable
    /\ row' = [row EXCEPT !.status = "created"]
    /\ UNCHANGED <<proposal, events, worktree, branch, request, mishaps>>

Load(r, op) ==
    /\ request[r] = Idle
    /\ Startable(op)
    /\ request' = [request EXCEPT ![r] =
                      [op |-> op, stage |-> "loaded", target |-> row.target,
                       matches |-> proposal # "moved"]]
    /\ mishaps' = IF \E q \in Requests \ {r} : request[q] # Idle
                  THEN mishaps \cup {"overlap"}
                  ELSE mishaps
    /\ UNCHANGED <<proposal, row, events, worktree, branch>>

\* The first commit.
Begin(r) ==
    /\ request[r].stage = "loaded"
    /\ GoesTo(r, "checking")
    /\ row' = IF request[r].op \in DOMAIN Working
              THEN [row EXCEPT !.status = Working[request[r].op]]
              ELSE row
    /\ UNCHANGED <<proposal, events, worktree, branch, mishaps>>

\* A check before the first change of the disk fails: a directory is not
\* there, git does not answer, the package does not match.
Refuse(r) ==
    /\ request[r].stage = "checking"
    /\ GoesTo(r, "refused")
    /\ UNCHANGED <<proposal, row, events, worktree, branch, mishaps>>

-----------------------------------------------------------------------------
\* prepare_sandbox_worktree
CheckPrepare(r) ==
    /\ At(r, "prepare", "checking")
    /\ worktree = "absent" /\ branch = "absent"
    /\ GoesTo(r, "adding")
    /\ UNCHANGED <<proposal, row, events, worktree, branch, mishaps>>

AddWorktree(r) ==
    /\ At(r, "prepare", "adding")
    /\ worktree = "absent" /\ branch = "absent"
    /\ worktree' = "clean"
    /\ branch' = "present"
    /\ GoesTo(r, "added")
    /\ UNCHANGED <<proposal, row, events, mishaps>>

\* git worktree add refuses; or it is killed by its timeout and leaves the
\* branch, with nothing, with a worktree it still has locked (debris), or with
\* all of it.
AddFails(r) ==
    /\ At(r, "prepare", "adding")
    /\ \/ UNCHANGED <<worktree, branch>>
       \/ /\ worktree = "absent" /\ branch = "absent"
          /\ worktree' \in {"absent", "debris", "clean"}
          /\ branch' = "present"
    /\ GoesTo(r, "cleaning")
    /\ UNCHANGED <<proposal, row, events, mishaps>>

VerifyWorktree(r) ==
    /\ At(r, "prepare", "added")
    /\ \/ worktree = "clean" /\ branch = "present" /\ GoesTo(r, "passed")
       \/ GoesTo(r, "cleaning")
    /\ UNCHANGED <<proposal, row, events, worktree, branch, mishaps>>

\* Variant: the branch is left.
CleanupKeepsBranch(r) ==
    /\ At(r, "prepare", "cleaning")
    /\ worktree' \in IF worktree = "debris" THEN {"debris"} ELSE {"absent", worktree}
    /\ GoesTo(r, "refused")
    /\ mishaps' = IF worktree' # "absent" THEN mishaps \cup {"cleanup"} ELSE mishaps
    /\ UNCHANGED <<proposal, row, events, branch>>

\* _cleanup_partial_worktree: whatever is there, whoever made it; that git
\* fails is ignored.  A branch that is checked out cannot be deleted.
Cleanup(r) ==
    /\ At(r, "prepare", "cleaning")
    /\ worktree' \in IF worktree = "debris" THEN {"debris"} ELSE {"absent", worktree}
    /\ branch' \in IF worktree' = "absent" THEN {"absent", branch} ELSE {branch}
    /\ GoesTo(r, "refused")
    /\ mishaps' = IF worktree' # "absent" \/ branch' # "absent"
                  THEN mishaps \cup {"cleanup"}
                  ELSE mishaps
    /\ UNCHANGED <<proposal, row, events>>

-----------------------------------------------------------------------------
\* apply_verified_package compares the checkpoint of the package with that of
\* the proposal as it was read, whatever the proposal's status is.
CheckApply(r) ==
    /\ At(r, "apply", "checking")
    /\ request[r].matches
    /\ request[r].target
    /\ worktree = "clean"
    /\ GoesTo(r, "patching")
    /\ UNCHANGED <<proposal, row, events, worktree, branch, mishaps>>

\* git apply changes all files or none, unless its timeout kills it.
Patch(r) ==
    /\ At(r, "apply", "patching")
    /\ \/ worktree = "clean" /\ worktree' = "patched" /\ GoesTo(r, "patched")
       \/ worktree' \in {worktree} \cup (IF worktree = "clean" THEN {"dirty"} ELSE {})
          /\ GoesTo(r, "refused")
    /\ UNCHANGED <<proposal, row, events, branch, mishaps>>

\* The changed paths and hashes are compared with the manifest.
VerifyPatch(r) ==
    /\ At(r, "apply", "patched")
    /\ \/ worktree = "patched" /\ GoesTo(r, "passed")
       \/ GoesTo(r, "refused")
    /\ UNCHANGED <<proposal, row, events, worktree, branch, mishaps>>

-----------------------------------------------------------------------------
\* run_operator_command
StartCommand(r) ==
    /\ request[r].op \in {"validate", "test"} /\ request[r].stage = "checking"
    /\ worktree # "absent"
    /\ GoesTo(r, "running")
    /\ UNCHANGED <<proposal, row, events, worktree, branch, mishaps>>

\* What a command may make of the files it finds.
Touched == [clean |-> "dirty", patched |-> "altered"]

\* The command runs in the worktree, its HOME, and may change files there
\* whether or not it succeeds.  Nothing looks at the files again.
CommandEnds(r) ==
    /\ request[r].stage = "running"
    /\ GoesTo(r, "passed") \/ GoesTo(r, "failed")
    /\ \/ worktree' = worktree
       \/ worktree \in DOMAIN Touched /\ worktree' = Touched[worktree]
    /\ UNCHANGED <<proposal, row, events, branch, mishaps>>

-----------------------------------------------------------------------------
\* remove_sandbox_worktree: git refuses a locked worktree, and one that is
\* killed leaves some of the files.
RemoveWorktree(r) ==
    /\ At(r, "rollback", "checking")
    /\ request[r].target
    /\ worktree # "debris"
    /\ \/ worktree' = "absent" /\ GoesTo(r, "removing")
       \/ worktree # "absent" /\ worktree' \in {"absent", "dirty"} /\ GoesTo(r, "refused")
    /\ UNCHANGED <<proposal, row, events, branch, mishaps>>

\* Variant: a failure of git branch -D is ignored, as in the cleanup.
RemoveBranchUnchecked(r) ==
    /\ At(r, "rollback", "removing")
    /\ branch' \in {branch, "absent"} /\ GoesTo(r, "passed")
    /\ UNCHANGED <<proposal, row, events, worktree, mishaps>>

RemoveBranch(r) ==
    /\ At(r, "rollback", "removing")
    /\ \/ worktree = "absent" /\ branch' = "absent" /\ GoesTo(r, "passed")
       \/ branch' \in {branch, "absent"} /\ GoesTo(r, "refused")
    /\ UNCHANGED <<proposal, row, events, worktree, mishaps>>

-----------------------------------------------------------------------------
Outcomes == {"passed", "failed", "refused"}

\* Variant: the status of a failure is not committed.
SettleSuccess(r) ==
    LET op == request[r].op
        passed == request[r].stage = "passed"
    IN  /\ request[r].stage \in Outcomes
        /\ row' = IF passed THEN [row EXCEPT !.status = Succeeded[op], !.target = TRUE] ELSE row
        /\ events' = IF passed THEN events \cup {op} ELSE events
        /\ request' = [request EXCEPT ![r] = Idle]
        /\ UNCHANGED <<proposal, worktree, branch, mishaps>>

\* The second commit: it writes the columns this request changed.
Settle(r) ==
    LET op == request[r].op
        outcome == request[r].stage
        Result(command, old) == IF op = command /\ outcome # "refused" THEN outcome ELSE old
    IN  /\ outcome \in Outcomes
        /\ row' = [status |-> IF outcome = "passed" THEN Succeeded[op] ELSE Failed[op],
                   target |-> row.target \/ (op = "prepare" /\ outcome = "passed"),
                   validation |-> Result("validate", row.validation),
                   test |-> Result("test", row.test)]
        /\ events' = IF outcome = "passed" THEN events \cup {op} ELSE events
        /\ request' = [request EXCEPT ![r] = Idle]
        /\ UNCHANGED <<proposal, worktree, branch, mishaps>>

\* The process stops, or an exception that nobody catches ends the request:
\* a timeout of show-ref or of the cleanup, a command that does not exist.
Lose(r) ==
    /\ request[r] # Idle
    /\ request' = [request EXCEPT ![r] = Idle]
    /\ mishaps' = IF request[r].stage = "loaded" THEN mishaps ELSE mishaps \cup {"lost"}
    /\ UNCHANGED <<proposal, row, events, worktree, branch>>

Proceed(r) ==
    \/ Begin(r) \/ Refuse(r)
    \/ CheckPrepare(r) \/ AddWorktree(r) \/ AddFails(r) \/ VerifyWorktree(r) \/ Cleanup(r)
    \/ CheckApply(r) \/ Patch(r) \/ VerifyPatch(r)
    \/ StartCommand(r) \/ CommandEnds(r)
    \/ RemoveWorktree(r) \/ RemoveBranch(r)
    \/ Settle(r)

Next ==
    \/ Reopen
    \/ Create
    \/ \E r \in Requests :
           \/ \E op \in Operations : Load(r, op)
           \/ Proceed(r)
           \/ Lose(r)

Spec == Init /\ [][Next]_vars

\* A request under way is served to its end: every git command and every
\* operator command has a timeout.
FairSpec == Spec /\ \A r \in Requests : WF_vars(Proceed(r))

-----------------------------------------------------------------------------
Statuses == {"none", "rolled_back", "failed"} \cup DOMAIN AllowedTransitions
Stages == {"idle", "loaded", "checking", "adding", "added", "cleaning", "patching",
           "patched", "running", "removing"} \cup Outcomes

TypeOK ==
    /\ proposal \in {"approved", "reopened", "moved"}
    /\ row \in [status : Statuses, target : BOOLEAN,
                validation : {"none", "passed", "failed"},
                test : {"none", "passed", "failed"}]
    /\ events \subseteq Operations
    /\ worktree \in {"absent", "debris", "clean", "dirty", "patched", "altered"}
    /\ branch \in {"absent", "present"}
    /\ request \in [Requests -> [op : Operations \cup {"none"}, stage : Stages,
                                 target : BOOLEAN, matches : BOOLEAN]]
    /\ mishaps \subseteq {"overlap", "cleanup", "lost"}

\* However the requests interleave, an execution comes before its owner for
\* acceptance only after an apply, a validation and a test that each
\* succeeded and left their event.
AcceptanceIsEarned ==
    row.status = "awaiting_acceptance" => {"prepare", "apply", "validate", "test"} \subseteq events

\* If requests never overlap, what awaits acceptance is a worktree that got
\* the whole patch, on its branch, and its last validation and test passed.
\* Whether its files are still those of the patch is up to the operator's
\* commands ("altered"): a partial patch, or none, is what is excluded.
AcceptedAsTested ==
    row.status = "awaiting_acceptance" /\ "overlap" \notin mishaps =>
        /\ worktree \in {"patched", "altered"} /\ branch = "present"
        /\ row.validation = "passed" /\ row.test = "passed"

\* If requests never overlap, an execution that is rolled back has left
\* neither a worktree nor a branch, whatever failed before.
RolledBackIsGone ==
    row.status = "rolled_back" /\ "overlap" \notin mishaps => worktree = "absent" /\ branch = "absent"

\* If requests never overlap and git could clean up, an execution failed
\* only without a sandbox: failed is the one status that cannot be rolled back.
FailedIsGone ==
    row.status = "failed" /\ mishaps \cap {"overlap", "cleanup"} = {} =>
        worktree = "absent" /\ branch = "absent"

\* Whatever overlaps or is lost, an execution that must be rolled back knows
\* its branch and worktree, without which remove_sandbox_worktree refuses.
RollbackHasTarget == row.status \in {"rollback_required", "rolling_back"} => row.target

\* An execution stays in a status of work only when the request that works
\* on it was lost; otherwise it reaches one that the owner can act on.
WorkSettles ==
    /\ row.status \in {"preparing", "applying", "rolling_back"}
    /\ "lost" \notin mishaps
    ~> row.status \notin {"preparing", "applying", "rolling_back"} \/ "lost" \in mishaps
=============================================================================
