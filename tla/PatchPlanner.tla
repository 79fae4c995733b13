---------------------------- MODULE PatchPlanner ----------------------------
(***************************************************************************)
(* One patch proposal and the HTTP requests that work on it                *)
(* (backend/app/api/patches.py).                                           *)
(*                                                                         *)
(* A request reads the row of the proposal, checks and computes, and       *)
(* commits an UPDATE of the columns whose value it changed.  The decisions *)
(* and the packages read it FOR UPDATE (_locked_proposal); everything else *)
(* reads it without a lock, and its UPDATE waits for the lock only then.   *)
(* So each request takes two steps here: Load checks and computes on the   *)
(* row as it is, Commit writes what was computed to the row as it has      *)
(* become.  A request that is refused has no effect and is not modelled.   *)
(*                                                                         *)
(* Signatures and hashes are intact: a stored package is taken to be what  *)
(* was built.  The diff never changes, so a checkpoint reference is its    *)
(* kind.                                                                   *)
(***************************************************************************)
EXTENDS Naturals, Sequences

CONSTANTS Requests,       \* requests that may be under way at the same time
          Proposals,      \* what is fixed when the proposal is created
          AppEnvironment  \* app_environment of the backend

Environments == {"sandbox", "test", "production"}

ASSUME ConstantsOK ==
    \* sound: the diff passes the static gates; commit: the revision names a
    \* commit of the repository with these sources; linked: made from a finding
    /\ Proposals \subseteq [environment : Environments, sound : BOOLEAN,
                            commit : BOOLEAN, linked : BOOLEAN]
    /\ AppEnvironment \in Environments

VARIABLES
    proposal,  \* the columns that never change
    row,       \* the columns that do
    packages,  \* patch_package_versions, in order of insertion
    decisions, \* patch_events of the types approved and rejected, in order
    handoffs,  \* patch_events manual_handoff_created: versions handed off
    request    \* what each request has computed and is about to commit

vars == <<proposal, row, packages, decisions, handoffs, request>>

Final == {"approved", "rejected"}
Roles == {"reviewer", "maintainer", "owner"}

\* Variant: the decisions and packages read the row like everything else.
NoLocking == {}

\* The operations that read the row FOR UPDATE.
Locking == {"approve", "reject", "package", "handoff"}

Idle == [op |-> "none", update |-> <<>>, package |-> <<>>]

Init ==
    /\ proposal \in Proposals
    /\ row = [status |-> "proposed", source |-> "unverified", validation |-> "unvalidated",
              checkpoint |-> "none", impact |-> "none", role |-> "none"]
    /\ packages = <<>>
    /\ decisions = <<>>
    /\ handoffs = {}
    /\ request = [r \in Requests |-> Idle]

-----------------------------------------------------------------------------
\* The columns an UPDATE carries: those whose new value differs from the one
\* that was loaded.
Changed(columns) ==
    [f \in {g \in DOMAIN columns : columns[g] # row[g]} |-> columns[f]]

\* The row after that UPDATE: what it does not carry stays as it has become.
Written(update) ==
    [f \in DOMAIN row |-> IF f \in DOMAIN update THEN update[f] ELSE row[f]]

\* Variant: the gates of the approval are checked without the validations.
ApprovableUnvalidated(role) ==
    /\ role \in {"maintainer", "owner"}
    /\ row.status \in {"checkpointed", "awaiting_approval"}

\* authorize_environment
AllowedIn(environment, role, impact) ==
    /\ environment = AppEnvironment
    /\ environment \in {"sandbox", "test"}
    /\ environment = "test" => role = "owner"
    /\ impact = "candidate" => role = "owner"

Approvable(role) ==
    /\ row.source = "valid" /\ row.validation = "valid"
    /\ role \in {"maintainer", "owner"}
    /\ AllowedIn(proposal.environment, role, row.impact)
    /\ row.status \in {"checkpointed", "awaiting_approval"}

Checkpointable ==
    row.status \in {"proposed", "checkpointed"} /\ row.source = "valid"

\* _package_matches_proposal, of the last version
PackageUpToDate ==
    /\ packages # <<>>
    /\ LET last == packages[Len(packages)]
       IN  last.status = row.status /\ last.checkpoint = row.checkpoint

\* The row is free for r: nobody else holds its lock.
Free(r) == \A q \in Requests \ {r} : request[q].op \notin Locking

\* r has read the row and computed what it will write.
Loaded(r, op, columns, package) ==
    /\ request[r] = Idle
    /\ op \in Locking => Free(r)
    /\ request' = [request EXCEPT ![r] =
                      [op |-> op, update |-> Changed(columns), package |-> package]]
    /\ UNCHANGED <<proposal, row, packages, decisions, handoffs>>

\* analyze_proposal_impact, and analyze_mcp_impact, which awaits the MCP
\* server between the two steps.
AnalyzeImpact(r, impact) == Loaded(r, "impact", [impact |-> impact], <<>>)

\* The current source is the caller's to send.
Revalidate(r, result) == Loaded(r, "revalidate", [source |-> result], <<>>)

\* The source of the task is the one the proposal was made from.
RevalidateFromTask(r) ==
    proposal.linked /\ Loaded(r, "revalidate", [source |-> "valid"], <<>>)

Validate(r) ==
    LET result == IF row.source = "valid" /\ proposal.sound THEN "valid" ELSE "invalid"
    IN  Loaded(r, "validate", [validation |-> result], <<>>)

\* checkpoint, and checkpoint/git, which runs git between the two steps
Checkpoint(r, kind) ==
    /\ Checkpointable
    /\ kind = "git" => proposal.commit
    /\ Loaded(r, "checkpoint", [checkpoint |-> kind, status |-> "checkpointed"], <<>>)

Approve(r, role) ==
    /\ Approvable(role)
    /\ Loaded(r, "approve", [status |-> "approved", role |-> role], <<>>)

Reject(r, role) ==
    /\ row.status \notin Final
    /\ Loaded(r, "reject", [status |-> "rejected", role |-> role], <<>>)

\* Variant: versions counted from 0.
NextVersionFromZero == Len(packages)

NextVersion == Len(packages) + 1

\* Export of the latest package.  A new version is stored when there is none
\* that matches the proposal; otherwise only the export is recorded.
Export(r) ==
    /\ row.status = "approved"
    /\ ~PackageUpToDate
    /\ Loaded(r, "package", <<>>,
              [version |-> NextVersion, status |-> row.status,
               checkpoint |-> row.checkpoint])

\* validate_manual_handoff, for an operator with the right hash and
\* environment.
Handoff(r, n) ==
    /\ row.status = "approved"
    /\ packages[n].status = "approved"
    /\ packages[n].checkpoint = row.checkpoint
    /\ Loaded(r, "handoff", <<>>, packages[n])

-----------------------------------------------------------------------------
Commit(r) ==
    LET q == request[r]
    IN  /\ q.op # "none"
        /\ Free(r)
        /\ row' = Written(q.update)
        /\ packages' = IF q.op = "package" THEN Append(packages, q.package) ELSE packages
        /\ decisions' = CASE q.op = "approve" -> Append(decisions, "approved")
                          [] q.op = "reject"  -> Append(decisions, "rejected")
                          [] OTHER            -> decisions
        /\ handoffs' = IF q.op = "handoff" THEN handoffs \cup {q.package.version} ELSE handoffs
        /\ request' = [request EXCEPT ![r] = Idle]
        /\ UNCHANGED proposal

\* The transaction is rolled back: the MCP server or git does not answer, the
\* process stops.
Rollback(r) ==
    /\ request[r] # Idle
    /\ request' = [request EXCEPT ![r] = Idle]
    /\ UNCHANGED <<proposal, row, packages, decisions, handoffs>>

Load(r) ==
    \/ \E i \in {"candidate", "evidenced"} : AnalyzeImpact(r, i)
    \/ \E s \in {"valid", "stale"} : Revalidate(r, s)
    \/ RevalidateFromTask(r)
    \/ Validate(r)
    \/ \E k \in {"proposal", "git"} : Checkpoint(r, k)
    \/ \E role \in Roles : Approve(r, role) \/ Reject(r, role)
    \/ Export(r)
    \/ \E n \in 1..Len(packages) : Handoff(r, n)

Next == \E r \in Requests : Load(r) \/ Commit(r) \/ Rollback(r)

Spec == Init /\ [][Next]_vars

-----------------------------------------------------------------------------
Row == [status : {"proposed", "checkpointed"} \cup Final,
        source : {"unverified", "valid", "stale"},
        validation : {"unvalidated", "valid", "invalid"},
        checkpoint : {"none", "proposal", "git"},
        impact : {"none", "candidate", "evidenced"},
        role : Roles \cup {"none"}]

TypeOK ==
    /\ proposal \in Proposals
    /\ row \in Row
    /\ \A n \in DOMAIN packages :
           packages[n] \in [version : Nat, status : Final, checkpoint : {"proposal", "git"}]
    /\ \A n \in DOMAIN decisions : decisions[n] \in Final
    /\ handoffs \subseteq DOMAIN packages
    /\ \A r \in Requests : DOMAIN request[r].update \subseteq DOMAIN row
                            /\ Written(request[r].update) \in Row

\* The version numbers of the packages have neither gaps nor duplicates,
\* although each export derives its own from the last version it read.
VersionsInOrder == \A n \in DOMAIN packages : packages[n].version = n

\* Two decisions never both become final: a decision commits over a proposal
\* that is still open.
DecisionsExclude ==
    [][decisions' # decisions => row.status \notin Final]_vars

\* An approval holds of the proposal as it is when the approval commits: its
\* source and its validation are valid, it has a checkpoint, and the decider
\* may approve that impact there.
ApprovalIsCurrent ==
    [][Len(decisions') > Len(decisions) /\ row'.status = "approved" =>
        /\ row.source = "valid" /\ row.validation = "valid" /\ row.checkpoint # "none"
        /\ AllowedIn(proposal.environment, row'.role, row.impact)]_vars

\* What is handed off is the package of the proposal as approved, with the
\* checkpoint it has when the handoff is recorded.
HandoffIsCurrent ==
    [][\A n \in handoffs' \ handoffs :
        row.status = "approved" /\ packages[n].checkpoint = row.checkpoint]_vars

\* A final decision stays.
DecisionIsFinal ==
    [][row.status \in Final => row'.status = row.status]_vars
=============================================================================
