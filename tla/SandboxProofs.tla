--------------------------- MODULE SandboxProofs ---------------------------
(***************************************************************************)
(* What holds of a sandbox execution however many requests there are.      *)
(*                                                                         *)
(* The history part of the invariant needs no assumption on how requests   *)
(* interleave: the events grow, and both a status and an operation that    *)
(* was allowed to start stand for the successes that led to it.  The other *)
(* part says what a request that is alone knows: the status is the one it  *)
(* committed, and the disk is what the status stands for.                  *)
(***************************************************************************)
EXTENDS Sandbox, TLAPS

Gone == worktree = "absent" /\ branch = "absent"

\* The successes a status stands for, and those an operation starts from.
Needs == [s \in Statuses |->
    CASE s \in {"none", "created", "preparing", "failed"} -> {}
      [] s \in {"prepared", "applying", "rollback_required", "rolling_back", "rolled_back"} ->
             {"prepare"}
      [] s = "validating" -> {"prepare", "apply"}
      [] s = "testing" -> {"prepare", "apply", "validate"}
      [] s = "awaiting_acceptance" -> {"prepare", "apply", "validate", "test"}]

NeedsOp == [op \in Operations |->
    CASE op = "prepare" -> {}
      [] op \in {"apply", "rollback"} -> {"prepare"}
      [] op = "validate" -> {"prepare", "apply"}
      [] op = "test" -> {"prepare", "apply", "validate"}]

Earned(q) ==
    q # Idle => /\ q.op \in Operations /\ q.stage # "idle"
                /\ NeedsOp[q.op] \subseteq events

HistoryInv ==
    /\ Needs[row.status] \subseteq events
    /\ row.target <=> "prepare" \in events
    /\ \A r \in Requests : Earned(request[r])

\* The statuses an operation starts from, and the one it works in.
From == [prepare |-> {"created"}, apply |-> {"prepared"}, validate |-> {"validating"},
         test |-> {"testing"}, rollback |-> {"awaiting_acceptance", "rollback_required"}]
Under == [prepare |-> "preparing", apply |-> "applying", validate |-> "validating",
          test |-> "testing", rollback |-> "rolling_back"]

RowFits ==
    /\ row.status \in {"none", "created", "rolled_back"} => Gone
    /\ row.status = "failed" => Gone \/ "cleanup" \in mishaps
    /\ row.status = "prepared" => worktree = "clean" /\ branch = "present"
    /\ row.status \in {"validating", "testing", "awaiting_acceptance"} =>
           worktree \in {"patched", "altered"} /\ branch = "present"
    /\ row.status \in {"testing", "awaiting_acceptance"} => row.validation = "passed"
    /\ row.status = "awaiting_acceptance" => row.test = "passed"

StatusFits(q) ==
    /\ q.stage = "loaded" => row.status \in From[q.op]
    /\ q.stage # "loaded" => row.status = Under[q.op]
    /\ q.stage \in {"running", "failed"} => q.op \in {"validate", "test"}

DiskFits(q) ==
    /\ q.op = "prepare" => /\ q.stage \in {"checking", "adding"} => Gone
                           /\ q.stage = "refused" => Gone \/ "cleanup" \in mishaps
                           /\ q.stage = "passed" => worktree = "clean" /\ branch = "present"
    /\ q.op = "apply" => /\ q.stage # "loaded" => branch = "present"
                         /\ q.stage = "passed" => worktree = "patched"
    /\ q.op = "rollback" => /\ q.stage = "removing" => worktree = "absent"
                            /\ q.stage = "passed" => Gone

Alone == \A q, r \in Requests : request[q] # Idle /\ request[r] # Idle => q = r

AloneInv ==
    "overlap" \notin mishaps =>
        /\ Alone
        /\ RowFits
        /\ \A r \in Requests : request[r] # Idle => StatusFits(request[r]) /\ DiskFits(request[r])

Inv == TypeOK /\ HistoryInv /\ AloneInv

-----------------------------------------------------------------------------
\* The statuses and the stages, one by one.
LEMMA StatusSet ==
    Statuses = {"none", "created", "preparing", "prepared", "applying", "validating", "testing",
                "awaiting_acceptance", "rollback_required", "rolling_back", "rolled_back", "failed"}
<1>1. DOMAIN AllowedTransitions =
          {"created", "preparing", "prepared", "applying", "validating", "testing",
           "awaiting_acceptance", "rollback_required", "rolling_back"}
    BY DEF AllowedTransitions
<1> QED
    BY <1>1 DEF Statuses

LEMMA StageSet ==
    Stages = {"idle", "loaded", "checking", "adding", "added", "cleaning", "patching", "patched",
              "running", "removing", "passed", "failed", "refused"}
BY DEF Stages, Outcomes

\* The variables stay in their types.
LEMMA TypeInit == Init => TypeOK
BY StatusSet, StageSet DEF Init, TypeOK, Idle

LEMMA TypeNext == TypeOK /\ HistoryInv /\ [Next]_vars => TypeOK'
<1> SUFFICES ASSUME TypeOK, HistoryInv, [Next]_vars PROVE TypeOK'
    OBVIOUS
<1> USE StatusSet, StageSet DEF TypeOK, Operations, GoesTo, At
<1>1. CASE Reopen
    BY <1>1 DEF Reopen
<1>2. CASE Create
    BY <1>2 DEF Create
<1>3. ASSUME NEW r \in Requests, NEW op \in Operations, Load(r, op) PROVE TypeOK'
    BY <1>3 DEF Load
<1>4. ASSUME NEW r \in Requests, Proceed(r) PROVE TypeOK'
    <2>1. CASE Begin(r)
        BY <2>1 DEF Begin, Working
    <2>2. CASE Refuse(r)
        BY <2>2 DEF Refuse
    <2>3. CASE CheckPrepare(r) \/ AddWorktree(r)
        BY <2>3 DEF CheckPrepare, AddWorktree
    <2>4. CASE AddFails(r)
        BY <2>4 DEF AddFails
    <2>5. CASE VerifyWorktree(r)
        BY <2>5 DEF VerifyWorktree
    <2>6. CASE Cleanup(r)
        BY <2>6 DEF Cleanup
    <2>7. CASE CheckApply(r) \/ VerifyPatch(r)
        BY <2>7 DEF CheckApply, VerifyPatch
    <2>8. CASE Patch(r)
        BY <2>8 DEF Patch
    <2>9. CASE StartCommand(r) \/ CommandEnds(r)
        BY <2>9 DEF StartCommand, CommandEnds, Touched
    <2>10. CASE RemoveWorktree(r)
        BY <2>10 DEF RemoveWorktree
    <2>11. CASE RemoveBranch(r)
        BY <2>11 DEF RemoveBranch
    <2>12. CASE Settle(r)
        <3>1. request[r].op \in Operations
            BY <2>12 DEF Settle, Outcomes, HistoryInv, Earned, Idle
        <3>2. row'.status \in Statuses
            BY <2>12, <3>1 DEF Settle, Succeeded, Failed
        <3>3. /\ row' = [status |-> row'.status, target |-> row'.target,
                         validation |-> row'.validation, test |-> row'.test]
              /\ row'.target \in BOOLEAN
              /\ row'.validation \in {"none", "passed", "failed"}
              /\ row'.test \in {"none", "passed", "failed"}
            BY <2>12 DEF Settle, Outcomes
        <3>4. row' \in [status : Statuses, target : BOOLEAN,
                        validation : {"none", "passed", "failed"},
                        test : {"none", "passed", "failed"}]
            BY <3>2, <3>3
        <3> QED
            BY <2>12, <3>1, <3>4 DEF Settle, Idle
    <2> QED
        BY <1>4, <2>1, <2>2, <2>3, <2>4, <2>5, <2>6, <2>7, <2>8, <2>9, <2>10, <2>11, <2>12
        DEF Proceed
<1>5. ASSUME NEW r \in Requests, Lose(r) PROVE TypeOK'
    BY <1>5 DEF Lose, Idle
<1>6. CASE UNCHANGED vars
    BY <1>6 DEF vars
<1> QED
    BY <1>1, <1>2, <1>3, <1>4, <1>5, <1>6 DEF Next

-----------------------------------------------------------------------------
\* An operation starts from the statuses the gates of the handlers name.
LEMMA StartableFrom ==
    ASSUME NEW op \in Operations, Startable(op)
    PROVE  row.status \in From[op]
<1>1. CASE op = "prepare"
    <2>1. row.status \in DOMAIN AllowedTransitions /\ "preparing" \in AllowedTransitions[row.status]
        BY <1>1 DEF Startable, MayBecome, Working
    <2> QED
        BY <1>1, <2>1 DEF AllowedTransitions, From
<1>2. CASE op = "apply"
    <2>1. row.status \in DOMAIN AllowedTransitions /\ "applying" \in AllowedTransitions[row.status]
        BY <1>2 DEF Startable, MayBecome, Working
    <2> QED
        BY <1>2, <2>1 DEF AllowedTransitions, From
<1>3. CASE op = "rollback"
    <2>1. \/ row.status = "awaiting_acceptance"
          \/ row.status \in DOMAIN AllowedTransitions /\ "rolling_back" \in AllowedTransitions[row.status]
        BY <1>3 DEF Startable, MayBecome
    <2> QED
        BY <1>3, <2>1 DEF AllowedTransitions, From
<1>4. CASE op = "validate"
    BY <1>4 DEF Startable, From
<1>5. CASE op = "test"
    BY <1>5 DEF Startable, From
<1> QED
    BY <1>1, <1>2, <1>3, <1>4, <1>5 DEF Operations

\* Events are never taken back, and a step that leaves the row and the events
\* alone, and starts no operation, keeps the history.
LEMMA HistoryFrame ==
    ASSUME TypeOK, HistoryInv, NEW r \in Requests, request[r] # Idle,
           row' = row, events' = events,
           \E stage \in Stages \ {"idle"} : request' = [request EXCEPT ![r].stage = stage]
    PROVE  HistoryInv'
<1>1. PICK stage \in Stages \ {"idle"} : request' = [request EXCEPT ![r].stage = stage]
    OBVIOUS
<1>2. ASSUME NEW q \in Requests PROVE Earned(request[q])'
    BY <1>1, <1>2 DEF HistoryInv, Earned, TypeOK
<1> QED
    BY <1>2 DEF HistoryInv

LEMMA HistoryInit == Init => HistoryInv
BY DEF Init, HistoryInv, Earned, Needs, Statuses

LEMMA HistoryNext == TypeOK /\ HistoryInv /\ [Next]_vars => HistoryInv'
<1> SUFFICES ASSUME TypeOK, HistoryInv, [Next]_vars PROVE HistoryInv'
    OBVIOUS
<1>1. CASE Reopen
    BY <1>1 DEF Reopen, HistoryInv, Earned
<1>2. CASE Create
    <2>1. row'.status = "created" /\ row'.target = row.target
        BY <1>2 DEF Create, TypeOK
    <2> QED
        BY <1>2, <2>1 DEF Create, HistoryInv, Earned, Needs, Statuses, AllowedTransitions
<1>3. ASSUME NEW r \in Requests, NEW op \in Operations, Load(r, op) PROVE HistoryInv'
    <2>1. row.status \in From[op]
        BY <1>3, StartableFrom DEF Load
    <2>2. NeedsOp[op] \subseteq Needs[row.status]
        BY <2>1, StatusSet DEF From, NeedsOp, Needs, Operations
    <2>3. ASSUME NEW q \in Requests PROVE Earned(request[q])'
        BY <1>3, <2>2 DEF Load, HistoryInv, Earned, TypeOK
    <2> QED
        BY <1>3, <2>3 DEF Load, HistoryInv
<1>4. ASSUME NEW r \in Requests, Proceed(r) PROVE HistoryInv'
    <2>1. CASE Begin(r)
        <3>1. request[r].op \in Operations /\ NeedsOp[request[r].op] \subseteq events
            BY <2>1 DEF Begin, HistoryInv, Earned, Idle
        <3>2. Needs[row'.status] \subseteq events /\ row'.target = row.target
            <4>1. CASE request[r].op \in {"validate", "test"}
                BY <2>1, <4>1 DEF Begin, Working, HistoryInv
            <4>2. CASE request[r].op \in {"prepare", "apply", "rollback"}
                <5>1. row' = [row EXCEPT !.status = Under[request[r].op]]
                    BY <2>1, <4>2 DEF Begin, Working, Under
                <5>2. row'.status = Under[request[r].op] /\ row'.target = row.target
                    BY <5>1 DEF TypeOK
                <5>3. Needs[Under[request[r].op]] \subseteq NeedsOp[request[r].op]
                    BY <4>2, StatusSet DEF Under, Needs, NeedsOp, Operations
                <5> QED
                    BY <3>1, <5>2, <5>3
            <4> QED
                BY <3>1, <4>1, <4>2 DEF Operations
        <3>3. ASSUME NEW q \in Requests PROVE Earned(request[q])'
            <4>1. request' = [request EXCEPT ![r].stage = "checking"] /\ events' = events
                BY <2>1 DEF Begin, GoesTo
            <4>2. request'[q].op = request[q].op /\ (q # r => request'[q] = request[q])
                BY <4>1 DEF TypeOK
            <4>3. request'[r].stage = "checking"
                BY <4>1 DEF TypeOK
            <4> QED
                BY <3>1, <4>1, <4>2, <4>3 DEF HistoryInv, Earned
        <3> QED
            BY <2>1, <3>2, <3>3 DEF Begin, HistoryInv
    <2>2. CASE Settle(r)
        <3> DEFINE op == request[r].op
        <3>1. op \in Operations /\ NeedsOp[op] \subseteq events
            BY <2>2 DEF Settle, Outcomes, HistoryInv, Earned, Idle
        <3>2. Needs[row'.status] \subseteq events'
            <4>1. CASE request[r].stage = "passed"
                <5>1. Needs[Succeeded[op]] \subseteq NeedsOp[op] \cup {op}
                    BY <3>1, StatusSet DEF Succeeded, NeedsOp, Needs, Operations
                <5>2. row'.status = Succeeded[op] /\ events' = events \cup {op}
                    BY <2>2, <4>1 DEF Settle
                <5> QED
                    BY <3>1, <5>1, <5>2
            <4>2. CASE request[r].stage # "passed"
                <5>1. Needs[Failed[op]] \subseteq NeedsOp[op]
                    BY <3>1, StatusSet DEF Failed, NeedsOp, Needs, Operations
                <5>2. row'.status = Failed[op] /\ events' = events
                    BY <2>2, <4>2 DEF Settle
                <5> QED
                    BY <3>1, <5>1, <5>2
            <4> QED
                BY <4>1, <4>2
        <3>3. row'.target <=> "prepare" \in events'
            <4>1. row'.target = (row.target \/ (op = "prepare" /\ request[r].stage = "passed"))
                BY <2>2 DEF Settle
            <4>2. events' = IF request[r].stage = "passed" THEN events \cup {op} ELSE events
                BY <2>2 DEF Settle
            <4> QED
                BY <4>1, <4>2 DEF HistoryInv
        <3>4. ASSUME NEW q \in Requests PROVE Earned(request[q])'
            BY <2>2 DEF Settle, HistoryInv, Earned, TypeOK
        <3> QED
            BY <3>2, <3>3, <3>4 DEF HistoryInv
    <2>3. ASSUME NEW stage \in Stages \ {"idle"}, request[r].stage # "idle",
                 row' = row, events' = events, GoesTo(r, stage)
          PROVE  HistoryInv'
        <3>1. request[r] # Idle
            BY <2>3 DEF Idle
        <3>2. request' = [request EXCEPT ![r].stage = stage]
            BY <2>3 DEF GoesTo
        <3> QED
            BY <2>3, <3>1, <3>2, HistoryFrame
    <2>4. CASE Refuse(r) \/ CheckPrepare(r) \/ AddWorktree(r) \/ AddFails(r) \/ Cleanup(r)
        BY <2>4, <2>3 DEF Refuse, CheckPrepare, AddWorktree, AddFails, Cleanup, At, Stages, Outcomes
    <2>5. CASE VerifyWorktree(r) \/ CheckApply(r) \/ Patch(r) \/ VerifyPatch(r)
        BY <2>5, <2>3 DEF VerifyWorktree, CheckApply, Patch, VerifyPatch, At, Stages, Outcomes
    <2>6. CASE StartCommand(r) \/ CommandEnds(r) \/ RemoveWorktree(r) \/ RemoveBranch(r)
        BY <2>6, <2>3 DEF StartCommand, CommandEnds, RemoveWorktree, RemoveBranch, At, Stages, Outcomes
    <2> QED
        BY <1>4, <2>1, <2>2, <2>4, <2>5, <2>6 DEF Proceed
<1>5. ASSUME NEW r \in Requests, Lose(r) PROVE HistoryInv'
    <2>1. ASSUME NEW q \in Requests PROVE Earned(request[q])'
        BY <1>5 DEF Lose, HistoryInv, Earned, TypeOK
    <2> QED
        BY <1>5, <2>1 DEF Lose, HistoryInv
<1>6. CASE UNCHANGED vars
    BY <1>6 DEF vars, HistoryInv, Earned
<1> QED
    BY <1>1, <1>2, <1>3, <1>4, <1>5, <1>6 DEF Next
-----------------------------------------------------------------------------
\* A request that is alone keeps the status and the disk in step.
LEMMA AloneInit == Init => AloneInv
BY DEF Init, AloneInv, Alone, RowFits, Gone

\* What is left to show of a step of a request that stays under way.
LEMMA AloneStep ==
    ASSUME TypeOK, HistoryInv, AloneInv, NEW r \in Requests, request[r] # Idle,
           \A p \in Requests \ {r} : request'[p] = request[p],
           "overlap" \notin mishaps' => "overlap" \notin mishaps,
           Alone /\ RowFits /\ StatusFits(request[r]) /\ DiskFits(request[r]) =>
               /\ RowFits'
               /\ request'[r] # Idle => StatusFits(request[r])' /\ DiskFits(request[r])'
    PROVE  AloneInv'
<1> SUFFICES ASSUME "overlap" \notin mishaps'
             PROVE  /\ Alone' /\ RowFits'
                    /\ \A p \in Requests : request'[p] # Idle =>
                           StatusFits(request[p])' /\ DiskFits(request[p])'
    BY DEF AloneInv
<1>1. /\ Alone /\ RowFits
      /\ StatusFits(request[r]) /\ DiskFits(request[r])
    BY DEF AloneInv
<1>2. \A p \in Requests : p # r => request'[p] = Idle
    BY <1>1 DEF Alone
<1>3. Alone'
    BY <1>2 DEF Alone, Idle
<1> QED
    BY <1>1, <1>2, <1>3

LEMMA AloneNext == TypeOK /\ TypeOK' /\ HistoryInv /\ AloneInv /\ [Next]_vars => AloneInv'
<1> SUFFICES ASSUME TypeOK, TypeOK', HistoryInv, AloneInv, [Next]_vars PROVE AloneInv'
    OBVIOUS
<1>1. CASE Reopen
    BY <1>1 DEF Reopen, AloneInv, Alone, RowFits, StatusFits, DiskFits, Gone
<1>2. CASE Create
    <2> SUFFICES ASSUME "overlap" \notin mishaps'
                 PROVE  /\ Alone' /\ RowFits'
                        /\ \A r \in Requests : request'[r] # Idle =>
                               StatusFits(request[r])' /\ DiskFits(request[r])'
        BY DEF AloneInv
    <2>1. Alone /\ Gone /\ "overlap" \notin mishaps
        BY <1>2 DEF Create, AloneInv, RowFits
    <2>2. row'.status = "created" /\ row.status = "none"
        BY <1>2 DEF Create, TypeOK
    <2>3. ASSUME NEW r \in Requests PROVE request[r] = Idle
        <3>1. request[r] # Idle => StatusFits(request[r]) /\ request[r].op \in Operations
            BY <2>1 DEF AloneInv, HistoryInv, Earned
        <3> QED
            BY <3>1, <2>2 DEF StatusFits, From, Under, Operations
    <2> QED
        BY <1>2, <2>1, <2>2, <2>3 DEF Create, Alone, RowFits, Gone
<1>3. ASSUME NEW r \in Requests, NEW op \in Operations, Load(r, op) PROVE AloneInv'
    <2> SUFFICES ASSUME "overlap" \notin mishaps'
                 PROVE  /\ Alone' /\ RowFits'
                        /\ \A q \in Requests : request'[q] # Idle =>
                               StatusFits(request[q])' /\ DiskFits(request[q])'
        BY DEF AloneInv
    <2>1. /\ \A q \in Requests : request[q] = Idle
          /\ mishaps' = mishaps
        BY <1>3 DEF Load
    <2>2. RowFits /\ row' = row
        BY <1>3, <2>1 DEF Load, AloneInv
    <2>3. \A q \in Requests : q # r => request'[q] = Idle
        BY <1>3, <2>1 DEF Load, TypeOK
    <2>4. request'[r].op = op /\ request'[r].stage = "loaded"
        BY <1>3 DEF Load, TypeOK
    <2>5. StatusFits(request[r])'
        BY <1>3, <2>2, <2>4, StartableFrom DEF Load, StatusFits
    <2>6. DiskFits(request[r])'
        BY <2>4 DEF DiskFits
    <2> QED
        BY <1>3, <2>1, <2>2, <2>3, <2>5, <2>6 DEF Load, Alone, RowFits, Gone
<1>4. ASSUME NEW r \in Requests, Proceed(r) PROVE AloneInv'
    <2>1. request[r] # Idle /\ request[r].op \in Operations
        <3>1. request[r].stage # "idle"
            BY <1>4 DEF Proceed, Begin, Refuse, CheckPrepare, AddWorktree, AddFails, VerifyWorktree,
               Cleanup, CheckApply, Patch, VerifyPatch, StartCommand, CommandEnds, RemoveWorktree,
               RemoveBranch, Settle, At, Outcomes
        <3> QED
            BY <3>1 DEF HistoryInv, Earned, Idle
    <2>2. \A p \in Requests \ {r} : request'[p] = request[p]
        BY <1>4 DEF Proceed, Begin, Refuse, CheckPrepare, AddWorktree, AddFails, VerifyWorktree,
           Cleanup, CheckApply, Patch, VerifyPatch, StartCommand, CommandEnds, RemoveWorktree,
           RemoveBranch, Settle, GoesTo, TypeOK
    <2>3. "overlap" \notin mishaps' => "overlap" \notin mishaps
        BY <1>4 DEF Proceed, Begin, Refuse, CheckPrepare, AddWorktree, AddFails, VerifyWorktree,
           Cleanup, CheckApply, Patch, VerifyPatch, StartCommand, CommandEnds, RemoveWorktree,
           RemoveBranch, Settle
    <2> SUFFICES ASSUME RowFits, StatusFits(request[r]), DiskFits(request[r])
                 PROVE  /\ RowFits'
                        /\ request'[r] # Idle => StatusFits(request[r])' /\ DiskFits(request[r])'
        BY <2>1, <2>2, <2>3, AloneStep
    <2> DEFINE s == request'[r].stage
    <2>4. ASSUME NEW stage, GoesTo(r, stage)
          PROVE  request'[r].op = request[r].op /\ s = stage
        BY <2>4 DEF GoesTo, TypeOK
    <2>5. CASE Begin(r)
        <3>1. /\ request'[r].op = request[r].op /\ s = "checking"
              /\ row.status \in From[request[r].op]
              /\ worktree' = worktree /\ branch' = branch /\ mishaps' = mishaps
            BY <2>5, <2>4 DEF Begin, StatusFits
        <3>2. /\ row'.status = Under[request[r].op]
              /\ row'.validation = row.validation /\ row'.test = row.test
            <4>1. CASE request[r].op \in {"validate", "test"}
                BY <2>5, <3>1, <4>1 DEF Begin, Working, From, Under
            <4>2. CASE request[r].op \in {"prepare", "apply", "rollback"}
                <5>1. row' = [row EXCEPT !.status = Under[request[r].op]]
                    BY <2>5, <4>2 DEF Begin, Working, Under
                <5> QED
                    BY <5>1 DEF TypeOK
            <4> QED
                BY <2>1, <4>1, <4>2 DEF Operations
        <3>3. CASE request[r].op = "prepare"
            BY <3>1, <3>2, <3>3 DEF RowFits, StatusFits, DiskFits, Gone, From, Under
        <3>4. CASE request[r].op = "apply"
            BY <3>1, <3>2, <3>4 DEF RowFits, StatusFits, DiskFits, Gone, From, Under
        <3>5. CASE request[r].op \in {"validate", "test"}
            BY <3>1, <3>2, <3>5 DEF RowFits, StatusFits, DiskFits, Gone, From, Under
        <3>6. CASE request[r].op = "rollback"
            BY <3>1, <3>2, <3>6 DEF RowFits, StatusFits, DiskFits, Gone, From, Under
        <3> QED
            BY <2>1, <3>3, <3>4, <3>5, <3>6 DEF Operations
    <2>6. CASE Refuse(r)
        BY <2>6, <2>4 DEF Refuse, RowFits, StatusFits, DiskFits, Gone
    <2>7. CASE CheckPrepare(r) \/ VerifyWorktree(r)
        BY <2>7, <2>4 DEF CheckPrepare, VerifyWorktree, At, RowFits, StatusFits, DiskFits, Gone
    <2>8. CASE AddWorktree(r)
        BY <2>8, <2>4 DEF AddWorktree, At, RowFits, StatusFits, DiskFits, Gone, Under
    <2>9. CASE AddFails(r)
        BY <2>9, <2>4 DEF AddFails, At, RowFits, StatusFits, DiskFits, Gone, Under
    <2>10. CASE Cleanup(r)
        BY <2>10, <2>4 DEF Cleanup, At, RowFits, StatusFits, DiskFits, Gone, Under
    <2>11. CASE CheckApply(r) \/ VerifyPatch(r)
        BY <2>11, <2>4 DEF CheckApply, VerifyPatch, At, RowFits, StatusFits, DiskFits, Gone
    <2>12. CASE Patch(r)
        BY <2>12, <2>4 DEF Patch, At, RowFits, StatusFits, DiskFits, Gone, Under
    <2>13. CASE StartCommand(r)
        BY <2>13, <2>4 DEF StartCommand, RowFits, StatusFits, DiskFits, Gone
    <2>14. CASE CommandEnds(r)
        <3>1. /\ request'[r].op = request[r].op /\ s \in {"passed", "failed"}
              /\ row' = row /\ branch' = branch /\ mishaps' = mishaps
              /\ request[r].op \in {"validate", "test"} /\ row.status = Under[request[r].op]
            BY <2>14, <2>4 DEF CommandEnds, StatusFits
        <3>2. row.status \in {"validating", "testing"}
            BY <3>1 DEF Under
        <3>3. worktree \in {"patched", "altered"}
            BY <3>2 DEF RowFits
        <3>4. worktree' \in {"patched", "altered"}
            BY <2>14, <3>3 DEF CommandEnds, Touched
        <3>5. RowFits'
            BY <3>1, <3>2, <3>4 DEF RowFits
        <3>6. StatusFits(request[r])' /\ DiskFits(request[r])'
            BY <3>1 DEF StatusFits, DiskFits
        <3> QED
            BY <3>5, <3>6
    <2>15. CASE RemoveWorktree(r)
        BY <2>15, <2>4 DEF RemoveWorktree, At, RowFits, StatusFits, DiskFits, Gone, Under
    <2>16. CASE RemoveBranch(r)
        BY <2>16, <2>4 DEF RemoveBranch, At, RowFits, StatusFits, DiskFits, Gone, Under
    <2>17. CASE Settle(r)
        <3> DEFINE op == request[r].op
        <3>1. /\ request'[r] = Idle
              /\ request[r].stage \in {"passed", "failed", "refused"}
              /\ row.status = Under[op]
              /\ worktree' = worktree /\ branch' = branch /\ mishaps' = mishaps
            BY <2>17 DEF Settle, StatusFits, TypeOK, Outcomes
        <3>2. CASE request[r].stage = "passed"
            <4>1. /\ row'.status = Succeeded[op]
                  /\ row'.validation = IF op = "validate" THEN "passed" ELSE row.validation
                  /\ row'.test = IF op = "test" THEN "passed" ELSE row.test
                BY <2>17, <3>2 DEF Settle
            <4>2. CASE op = "prepare"
                BY <3>1, <3>2, <4>1, <4>2 DEF Succeeded, Under, RowFits, DiskFits, Gone
            <4>3. CASE op = "apply"
                BY <3>1, <3>2, <4>1, <4>3 DEF Succeeded, Under, RowFits, DiskFits, Gone
            <4>4. CASE op = "validate"
                BY <3>1, <3>2, <4>1, <4>4 DEF Succeeded, Under, RowFits, DiskFits, Gone
            <4>5. CASE op = "test"
                BY <3>1, <3>2, <4>1, <4>5 DEF Succeeded, Under, RowFits, DiskFits, Gone
            <4>6. CASE op = "rollback"
                BY <3>1, <3>2, <4>1, <4>6 DEF Succeeded, Under, RowFits, DiskFits, Gone
            <4> QED
                BY <2>1, <4>2, <4>3, <4>4, <4>5, <4>6 DEF Operations
        <3>3. CASE request[r].stage # "passed"
            <4>1. row'.status = Failed[op]
                BY <2>17, <3>3 DEF Settle
            <4>2. CASE op = "prepare"
                BY <3>1, <3>3, <4>1, <4>2 DEF Failed, RowFits, StatusFits, DiskFits, Gone
            <4>3. CASE op # "prepare"
                BY <2>1, <3>1, <4>1, <4>3 DEF Failed, RowFits, Operations
            <4> QED
                BY <4>2, <4>3
        <3> QED
            BY <3>2, <3>3
    <2> QED
        BY <1>4, <2>5, <2>6, <2>7, <2>8, <2>9, <2>10, <2>11, <2>12, <2>13, <2>14, <2>15, <2>16, <2>17
        DEF Proceed
<1>5. ASSUME NEW r \in Requests, Lose(r) PROVE AloneInv'
    <2>1. /\ request[r] # Idle /\ request'[r] = Idle
          /\ \A p \in Requests \ {r} : request'[p] = request[p]
        BY <1>5 DEF Lose, TypeOK
    <2>2. "overlap" \notin mishaps' => "overlap" \notin mishaps
        BY <1>5 DEF Lose
    <2>3. RowFits => RowFits'
        BY <1>5 DEF Lose, RowFits, Gone
    <2> QED
        BY <2>1, <2>2, <2>3, AloneStep
<1>6. CASE UNCHANGED vars
    BY <1>6 DEF vars, AloneInv, Alone, RowFits, StatusFits, DiskFits, Gone
<1> QED
    BY <1>1, <1>2, <1>3, <1>4, <1>5, <1>6 DEF Next
-----------------------------------------------------------------------------
\* The invariant holds of every behaviour.
THEOREM Invariance == Spec => []Inv
<1>1. Init => Inv
    BY TypeInit, HistoryInit, AloneInit DEF Inv
<1>2. Inv /\ [Next]_vars => Inv'
    BY TypeNext, HistoryNext, AloneNext DEF Inv
<1> QED
    BY <1>1, <1>2, PTL DEF Spec

\* Every variable keeps its type: no handler commits a status the table of
\* transitions does not have.
THEOREM TypeCorrect == Spec => []TypeOK
<1>1. Inv => TypeOK
    BY DEF Inv
<1> QED
    BY <1>1, Invariance, PTL

\* With any number of overlapping requests, acceptance comes only after an
\* apply, a validation and a test that each succeeded.
THEOREM AcceptanceEarned == Spec => []AcceptanceIsEarned
<1>1. Inv => AcceptanceIsEarned
    BY StatusSet DEF Inv, HistoryInv, Needs, AcceptanceIsEarned
<1> QED
    BY <1>1, Invariance, PTL

\* What must be rolled back knows its branch and worktree, whatever overlaps.
THEOREM RollbackTargets == Spec => []RollbackHasTarget
<1>1. Inv => RollbackHasTarget
    BY StatusSet DEF Inv, HistoryInv, Needs, RollbackHasTarget
<1> QED
    BY <1>1, Invariance, PTL

\* Without overlap, what awaits acceptance got the whole patch, whatever the
\* operator's commands made of it since, and its validation and test passed.
THEOREM AcceptedTested == Spec => []AcceptedAsTested
<1>1. Inv => AcceptedAsTested
    BY DEF Inv, AloneInv, RowFits, AcceptedAsTested
<1> QED
    BY <1>1, Invariance, PTL

\* Without overlap, a rolled back execution has left nothing.
THEOREM RolledBackGone == Spec => []RolledBackIsGone
<1>1. Inv => RolledBackIsGone
    BY DEF Inv, AloneInv, RowFits, Gone, RolledBackIsGone
<1> QED
    BY <1>1, Invariance, PTL

\* Without overlap, a failed execution has left nothing, unless git could not
\* clean up.
THEOREM FailedGone == Spec => []FailedIsGone
<1>1. Inv => FailedIsGone
    BY DEF Inv, AloneInv, RowFits, Gone, FailedIsGone
<1> QED
    BY <1>1, Invariance, PTL
=============================================================================
