------------------------------- MODULE Worker -------------------------------
(***************************************************************************)
(* The life of a task: rows of the tasks table, the worker processes that  *)
(* claim and execute them (backend/app/worker.py), the heartbeat thread    *)
(* each worker keeps beside its main session, lease recovery, and the      *)
(* cancel endpoint of the API (backend/app/api/tasks.py).                  *)
(*                                                                         *)
(* One action is one committed transaction (or the read that opens one),   *)
(* because those are the points at which PostgreSQL, in READ COMMITTED,    *)
(* lets the processes see each other.                                      *)
(*                                                                         *)
(* The main session of a worker is created with expire_on_commit=False     *)
(* (db/session.py) and keeps the task in its identity map.  Once loaded,   *)
(* session.get and SELECT ... FOR UPDATE return the cached attributes, and *)
(* a flush writes only the columns changed since they were loaded.  The    *)
(* cache is view[w]; only a rollback expires it.                           *)
(***************************************************************************)
EXTENDS Naturals, FiniteSets

CONSTANTS Workers,         \* worker processes
          Clients,         \* callers of the cancel endpoint
          NumTasks,        \* tasks 1..NumTasks, in created_at order
          NumSteps,        \* explicit retrieval calls of a task
          LeaseMayExpireUnderOwner, \* a live attempt may outlast the lease
          MaxFaults        \* bound on crashes, unexpected errors, overruns

ASSUME ConstantsOK ==
    /\ NumTasks \in Nat \ {0}
    /\ NumSteps \in Nat
    /\ LeaseMayExpireUnderOwner \in BOOLEAN
    /\ MaxFaults \in Nat

Tasks == 1..NumTasks
Steps == 1..NumSteps

VARIABLES
    row,        \* the tasks table
    audit,      \* target of the last task_status_changed event of a task
    published,  \* attempts that persisted the findings of their report
    toolRows,   \* completed tool_calls rows per task and step
    pc,         \* where the main thread of a worker is
    task,       \* task_id of the run
    lease,      \* lease_owner of the run
    view,       \* the Task object in the identity map of the main session
    expired,    \* a rollback expired that object
    done,       \* completed_calls: steps the run will not send again
    beat,       \* heartbeat thread of the run
    api,        \* cancel requests between their read and their commit
    faults      \* faults so far

wvars == <<pc, task, lease, view, expired, done, beat>>
vars == <<row, audit, published, toolRows, wvars, api, faults>>

-----------------------------------------------------------------------------
\* Statuses (services/task_state.py).  "absent" is a row not yet inserted;
\* the legacy statuses queued and running are never written by this code.

Active == {"discovering", "analyzing", "reporting"}
Claimable == {"created"}
Terminal == {"completed", "failed", "cancelled"}
Statuses == {"absent"} \cup Claimable \cup Active \cup Terminal

AllowedTransitions ==
    [s \in Statuses |->
        CASE s = "created"     -> {"discovering", "cancelled"}
          [] s = "discovering" -> {"analyzing", "failed", "cancelled"}
          [] s = "analyzing"   -> {"reporting", "failed", "cancelled"}
          [] s = "reporting"   -> {"completed", "failed", "cancelled"}
          [] OTHER             -> {}]

\* locked_by is a fresh uuid per claim, as attempt is a fresh number: the
\* owner is written as the attempt that claimed the row, 0 for NULL.  A
\* heartbeat is stale once heartbeat_at is older than the lease timeout.
Row == [status : Statuses, cancel : BOOLEAN, owner : Nat,
        hb : {"none", "fresh", "stale"}, attempt : Nat,
        result : {"none", "report", "failure"}]

NewRow(status, result) ==
    [status |-> status, cancel |-> FALSE, owner |-> 0, hb |-> "none",
     attempt |-> 0, result |-> result]

NoRow == NewRow("absent", "none")

\* Variant: an UPDATE that writes every column of the object.
ColumnAsHeld(stored, loaded, changed) == changed

\* A flush writes a column only if the object changed it since it was loaded.
Column(stored, loaded, changed) == IF changed = loaded THEN stored ELSE changed

Flush(stored, loaded, changed) ==
    [status  |-> Column(stored.status, loaded.status, changed.status),
     cancel  |-> Column(stored.cancel, loaded.cancel, changed.cancel),
     owner   |-> Column(stored.owner, loaded.owner, changed.owner),
     hb      |-> Column(stored.hb, loaded.hb, changed.hb),
     attempt |-> Column(stored.attempt, loaded.attempt, changed.attempt),
     result  |-> Column(stored.result, loaded.result, changed.result)]

ReleaseLease(r) == [r EXCEPT !.owner = 0, !.hb = "none"]

\* finalize_task_cancellation: nothing happens to a row seen as cancelled.
FinalizeCancellation(r) ==
    IF r.status = "cancelled" THEN r
    ELSE [ReleaseLease(r) EXCEPT !.status = "cancelled", !.cancel = TRUE]

\* The event a write leaves: transition_task records the new status.
AuditOf(t, loaded, changed) ==
    IF changed.status = loaded.status THEN audit[t] ELSE changed.status

-----------------------------------------------------------------------------
WorkerStates == {"idle", "starting", "retrieving", "calling", "analyzing",
                 "thinking", "reporting", "failing", "settling",
                 "unexpected", "checking", "closing"}

\* The run w is between its claim and the commit that ends it.
Executing(w) == pc[w] \notin {"idle", "closing"}

\* The run is inside the try block, before any of its exception handlers.
Working(w) == pc[w] \in {"starting", "retrieving", "calling", "analyzing",
                         "thinking", "reporting"}

ApiIdle == [task |-> 0, view |-> NoRow]

Init ==
    /\ row = [t \in Tasks |-> NoRow]
    /\ audit = [t \in Tasks |-> "absent"]
    /\ published = [t \in Tasks |-> {}]
    /\ toolRows = [t \in Tasks |-> [s \in Steps |-> 0]]
    /\ pc = [w \in Workers |-> "idle"]
    /\ task = [w \in Workers |-> 0]
    /\ lease = [w \in Workers |-> 0]
    /\ view = [w \in Workers |-> NoRow]
    /\ expired = [w \in Workers |-> FALSE]
    /\ done = [w \in Workers |-> {}]
    /\ beat = [w \in Workers |-> "off"]
    /\ api = [c \in Clients |-> ApiIdle]
    /\ faults = 0

-----------------------------------------------------------------------------
\* The API process.

\* POST /tasks: a created row, or a blocked one that is terminal at once.
Create(t) ==
    /\ row[t].status = "absent"
    /\ \E r \in {NewRow("created", "none"), NewRow("failed", "failure")} :
          /\ row' = [row EXCEPT ![t] = r]
          /\ audit' = [audit EXCEPT ![t] = r.status]
    /\ UNCHANGED <<published, toolRows, wvars, api, faults>>

\* POST /tasks/{id}/cancel reads the row without a lock.  A terminal row is
\* answered at once and changes nothing.
ReadForCancel(c, t) ==
    /\ api[c] = ApiIdle
    /\ row[t].status \in Claimable \cup Active
    /\ api' = [api EXCEPT ![c] = [task |-> t, view |-> row[t]]]
    /\ UNCHANGED <<row, audit, published, toolRows, wvars, faults>>

\* request_task_cancellation on the row as it was read.
RequestCancellation(r) ==
    IF r.status \in Claimable
    THEN [r EXCEPT !.status = "cancelled", !.cancel = TRUE]
    ELSE [r EXCEPT !.cancel = TRUE]

CommitCancel(c) ==
    /\ api[c] # ApiIdle
    /\ LET t == api[c].task
           loaded == api[c].view
           changed == RequestCancellation(loaded)
       IN /\ row' = [row EXCEPT ![t] = Flush(row[t], loaded, changed)]
          /\ audit' = [audit EXCEPT ![t] = AuditOf(t, loaded, changed)]
    /\ api' = [api EXCEPT ![c] = ApiIdle]
    /\ UNCHANGED <<published, toolRows, wvars, faults>>

-----------------------------------------------------------------------------
\* claim_next_task.  Recovery runs first in the same transaction; the rows
\* it resets are not flushed before the claiming query, so they are not
\* candidates of this claim.

\* Variants: recovery without the heartbeat cutoff; an active status that
\* recovery does not know.
StaleAtOnce(t) == row[t].status \in Active

Stale(t) == row[t].status \in Active /\ row[t].hb = "stale"

Recovered ==
    [t \in Tasks |-> IF Stale(t)
                     THEN [ReleaseLease(row[t]) EXCEPT !.status = "created"]
                     ELSE row[t]]

\* Variant: recovery without its task_status_changed event.
UnrecordedRecovery == audit

RecoveryAudit == [t \in Tasks |-> IF Stale(t) THEN "created" ELSE audit[t]]

\* Variants: the claim takes running rows, or retries failed ones.
CandidatesOrRunning == {t \in Tasks : row[t].status \in Claimable \cup Active}
CandidatesOrFailed == {t \in Tasks : row[t].status \in Claimable \cup {"failed"}}

Candidates == {t \in Tasks : row[t].status \in Claimable}

Oldest(t) == t \in Candidates /\ \A u \in Candidates : t <= u

\* No candidate: only the recovery is committed.
RecoverOnly(w) ==
    /\ pc[w] = "idle"
    /\ Candidates = {}
    /\ \E t \in Tasks : Stale(t)
    /\ row' = Recovered
    /\ audit' = RecoveryAudit
    /\ UNCHANGED <<published, toolRows, wvars, api, faults>>

\* The oldest candidate carries a cancel request: it is finalized, not run.
ClaimCancelled(w, t) ==
    /\ pc[w] = "idle"
    /\ Oldest(t)
    /\ row[t].cancel
    /\ row' = [Recovered EXCEPT ![t] = FinalizeCancellation(row[t])]
    /\ audit' = [RecoveryAudit EXCEPT ![t] = "cancelled"]
    /\ UNCHANGED <<published, toolRows, wvars, api, faults>>

\* Variants: attempt counts down; the claim does not stamp heartbeat_at.
ClaimedCountingDown(r) ==
    [r EXCEPT !.status = "discovering", !.owner = r.attempt + 1, !.hb = "fresh",
              !.attempt = r.attempt - 1]
ClaimedUnstamped(r) ==
    [r EXCEPT !.status = "discovering", !.owner = r.attempt + 1, !.attempt = r.attempt + 1]

Claimed(r) ==
    [r EXCEPT !.status = "discovering", !.owner = r.attempt + 1, !.hb = "fresh",
              !.attempt = r.attempt + 1]

Claim(w, t) ==
    /\ pc[w] = "idle"
    /\ Oldest(t)
    /\ ~row[t].cancel
    /\ row' = [Recovered EXCEPT ![t] = Claimed(row[t])]
    /\ audit' = [RecoveryAudit EXCEPT ![t] = "discovering"]
    /\ lease' = [lease EXCEPT ![w] = Claimed(row[t]).owner]
    /\ view' = [view EXCEPT ![w] = Claimed(row[t])]
    /\ pc' = [pc EXCEPT ![w] = "starting"]
    /\ task' = [task EXCEPT ![w] = t]
    /\ UNCHANGED <<published, toolRows, expired, done, beat, api, faults>>

-----------------------------------------------------------------------------
\* The run.  Look(w) is what the next read of the task returns.

Look(w) == IF expired[w] THEN row[task[w]] ELSE view[w]

CancelSeen(w) == Look(w).cancel

\* assert_task_lease raises no WorkerLeaseLostError.
HoldsLease(w) == Look(w).status \in Active /\ Look(w).owner = lease[w]

\* Commit the object changed, loaded as Look(w).
Commit(w, changed) ==
    LET t == task[w]
    IN /\ row' = [row EXCEPT ![t] = Flush(row[t], Look(w), changed)]
       /\ audit' = [audit EXCEPT ![t] = AuditOf(t, Look(w), changed)]
       /\ view' = [view EXCEPT ![w] = changed]

Goto(w, state) == pc' = [pc EXCEPT ![w] = state]

\* Variant: the run starts without the calls of earlier attempts.
NoCompletedCalls(t) == {}

\* load_completed_tool_calls
CompletedCalls(t) == {s \in Steps : toolRows[t][s] > 0}

\* The second transaction: it loads the agent and the completed calls, then
\* the heartbeat thread starts.
Load(w) ==
    /\ pc[w] = "starting"
    /\ ~CancelSeen(w)
    /\ Goto(w, "retrieving")
    /\ view' = [view EXCEPT ![w] = Look(w)]
    /\ done' = [done EXCEPT ![w] = CompletedCalls(task[w])]
    /\ beat' = [beat EXCEPT ![w] = "on"]
    /\ UNCHANGED <<row, audit, published, toolRows, task, lease, expired, api, faults>>

\* task_allows_next_tool before a step that has no completed call.
AllowTool(w) ==
    /\ pc[w] = "retrieving"
    /\ done[w] # Steps
    /\ HoldsLease(w)
    /\ ~CancelSeen(w)
    /\ row' = [row EXCEPT ![task[w]].hb = "fresh"]
    /\ view' = [view EXCEPT ![w] = [Look(w) EXCEPT !.hb = "fresh"]]
    /\ Goto(w, "calling")
    /\ UNCHANGED <<audit, published, toolRows, task, lease, expired, done, beat, api, faults>>

NextStep(w, s) ==
    s \in Steps \ done[w] /\ \A u \in Steps \ done[w] : s <= u

\* The MCP answer to the next step arrives; persist_tool_call commits it.
PersistTool(w, s) ==
    /\ pc[w] = "calling"
    /\ NextStep(w, s)
    /\ HoldsLease(w)
    /\ toolRows' = [toolRows EXCEPT ![task[w]][s] = @ + 1]
    /\ done' = [done EXCEPT ![w] = @ \cup {s}]
    /\ view' = [view EXCEPT ![w] = Look(w)]
    /\ Goto(w, "retrieving")
    /\ UNCHANGED <<row, audit, published, task, lease, expired, beat, api, faults>>

\* Every step answered: record the calls and move to analyzing.
StartAnalysis(w) ==
    /\ pc[w] = "retrieving"
    /\ done[w] = Steps
    /\ HoldsLease(w)
    /\ ~CancelSeen(w)
    /\ "analyzing" \in AllowedTransitions[Look(w).status]
    /\ Commit(w, [Look(w) EXCEPT !.status = "analyzing"])
    /\ Goto(w, "analyzing")
    /\ UNCHANGED <<published, toolRows, task, lease, expired, done, beat, api, faults>>

\* The third transaction opens; the model call runs inside it.
CallModel(w) ==
    /\ pc[w] = "analyzing"
    /\ HoldsLease(w)
    /\ ~CancelSeen(w)
    /\ view' = [view EXCEPT ![w] = Look(w)]
    /\ Goto(w, "thinking")
    /\ UNCHANGED <<row, audit, published, toolRows, task, lease, expired, done, beat, api, faults>>

\* The report came back in time.  Nothing is read again in the transaction.
ModelAnswered(w) ==
    /\ pc[w] = "thinking"
    /\ "reporting" \in AllowedTransitions[view[w].status]
    /\ LET t == task[w]
           changed == [view[w] EXCEPT !.status = "reporting"]
       IN /\ row' = [row EXCEPT ![t] = Flush(row[t], view[w], changed)]
          /\ audit' = [audit EXCEPT ![t] = "reporting"]
          /\ view' = [view EXCEPT ![w] = changed]
    /\ Goto(w, "reporting")
    /\ UNCHANGED <<published, toolRows, task, lease, expired, done, beat, api, faults>>

\* The last transaction: terminal status of the report, lease released,
\* result and findings persisted.
Finish(w, outcome) ==
    /\ pc[w] = "reporting"
    /\ HoldsLease(w)
    /\ ~CancelSeen(w)
    /\ outcome \in AllowedTransitions[Look(w).status]
    /\ Commit(w, [ReleaseLease(Look(w)) EXCEPT !.status = outcome,
                                               !.result = "report"])
    /\ published' = [published EXCEPT ![task[w]] = @ \cup {lease[w]}]
    /\ Goto(w, "closing")
    /\ UNCHANGED <<toolRows, task, lease, expired, done, beat, api, faults>>

\* assert_task_lease raises at the head of a stage.
LeaseLost(w) ==
    pc[w] \in {"retrieving", "calling", "analyzing", "reporting"} /\ ~HoldsLease(w)

\* A check of cancel_requested succeeds at the head of a stage.
CancelDue(w) ==
    /\ \/ pc[w] = "starting"
       \/ pc[w] \in {"retrieving", "analyzing", "reporting"} /\ HoldsLease(w)
    /\ CancelSeen(w)

SeeCancel(w) ==
    /\ CancelDue(w)
    /\ Commit(w, FinalizeCancellation(Look(w)))
    /\ Goto(w, "closing")
    /\ UNCHANGED <<published, toolRows, task, lease, expired, done, beat, api, faults>>

\* The handler of WorkerLeaseLostError rolls back and gives the run up.
LoseLease(w) ==
    /\ LeaseLost(w)
    /\ Goto(w, "closing")
    /\ UNCHANGED <<row, audit, published, toolRows, task, lease, view, expired, done, beat, api, faults>>

\* A stage, if no check at its head refuses it.  The checks look at the object
\* that the run has held since its claim, so in this code they never do.
Run(w) ==
    IF LeaseLost(w) THEN LoseLease(w)
    ELSE IF CancelDue(w) THEN SeeCancel(w)
    ELSE \/ Load(w)
         \/ AllowTool(w)
         \/ \E s \in Steps : PersistTool(w, s)
         \/ StartAnalysis(w)
         \/ CallModel(w)
         \/ ModelAnswered(w)
         \/ \E outcome \in Terminal : Finish(w, outcome)

-----------------------------------------------------------------------------
\* Failures of the run.

\* AgentExecutionError.  Raised inside a transaction it rolls back and
\* expires the object; raised from the retrieval it leaves it cached.  Before
\* the settings are read, its handler fails itself (settings.model_name), and
\* the task stays as it is: RunBreaks and Crash.
RunFails(w) ==
    /\ pc[w] \in {"retrieving", "calling", "thinking"}
    /\ Goto(w, "failing")
    /\ expired' = [expired EXCEPT ![w] = pc[w] = "thinking"]
    /\ UNCHANGED <<row, audit, published, toolRows, task, lease, view, done, beat, api, faults>>

\* Any other exception: rolled back, the task stays as it is.
RunBreaks(w) ==
    /\ Working(w)
    /\ faults < MaxFaults
    /\ faults' = faults + 1
    /\ Goto(w, "unexpected")
    /\ expired' = [expired EXCEPT ![w] = TRUE]
    /\ UNCHANGED <<row, audit, published, toolRows, task, lease, view, done, beat, api>>

\* The handler reads the task, without a lock and without checking the owner.
HandlerReads(w) ==
    /\ pc[w] \in {"failing", "unexpected"}
    /\ view' = [view EXCEPT ![w] = Look(w)]
    /\ expired' = [expired EXCEPT ![w] = FALSE]
    /\ Goto(w, IF pc[w] = "failing" THEN "settling" ELSE "checking")
    /\ UNCHANGED <<row, audit, published, toolRows, task, lease, done, beat, api, faults>>

\* Commit the object changed, loaded as view[w], and leave the handler.
HandlerCommits(w, changed, event) ==
    LET t == task[w]
    IN /\ row' = [row EXCEPT ![t] = Flush(row[t], view[w], changed)]
       /\ audit' = [audit EXCEPT ![t] = event]
       /\ view' = [view EXCEPT ![w] = changed]
       /\ Goto(w, "closing")
       /\ UNCHANGED <<published, toolRows, task, lease, expired, done, beat, api, faults>>

Failed(r) == [ReleaseLease(r) EXCEPT !.status = "failed", !.result = "failure"]

\* A failed run whose task is seen active: failed, with its event.
SettleFailed(w) ==
    /\ pc[w] = "settling"
    /\ ~view[w].cancel
    /\ view[w].status \in Active
    /\ HandlerCommits(w, Failed(view[w]), "failed")

\* Seen not active: the status is assigned directly, without an event.
SettleOverwritten(w) ==
    /\ pc[w] = "settling"
    /\ ~view[w].cancel
    /\ view[w].status \notin Active
    /\ HandlerCommits(w, Failed(view[w]), audit[task[w]])

\* Seen with a cancel request, from which cancellation is allowed.
SettleCancelled(w) ==
    /\ pc[w] = "settling"
    /\ view[w].cancel
    /\ view[w].status \notin {"completed", "failed"}
    /\ HandlerCommits(w, FinalizeCancellation(view[w]),
                      AuditOf(task[w], view[w], FinalizeCancellation(view[w])))

\* transition_task raises InvalidTaskTransition out of the handler: the
\* process ends and is started again.
SettleRaises(w) ==
    /\ pc[w] = "settling"
    /\ view[w].cancel
    /\ view[w].status \in {"completed", "failed"}
    /\ Goto(w, "closing")
    /\ UNCHANGED <<row, audit, published, toolRows, task, lease, view, expired, done, beat, api, faults>>

\* The handler of any other exception finalizes a pending cancellation and
\* leaves every other task active, for recovery.
CheckUnexpected(w) ==
    /\ pc[w] = "checking"
    /\ IF view[w].cancel /\ view[w].status \in Active
       THEN HandlerCommits(w, FinalizeCancellation(view[w]), "cancelled")
       ELSE HandlerCommits(w, view[w], audit[task[w]])

\* finally: stop and join the heartbeat thread, close the session.
Reset(w) ==
    /\ pc' = [pc EXCEPT ![w] = "idle"]
    /\ task' = [task EXCEPT ![w] = 0]
    /\ lease' = [lease EXCEPT ![w] = 0]
    /\ view' = [view EXCEPT ![w] = NoRow]
    /\ expired' = [expired EXCEPT ![w] = FALSE]
    /\ done' = [done EXCEPT ![w] = {}]
    /\ beat' = [beat EXCEPT ![w] = "off"]

Close(w) ==
    /\ pc[w] = "closing"
    /\ beat[w] # "writing"
    /\ Reset(w)
    /\ UNCHANGED <<row, audit, published, toolRows, api, faults>>

\* The process is killed and restarted; its memory is gone.
Crash(w) ==
    /\ pc[w] # "idle"
    /\ faults < MaxFaults
    /\ faults' = faults + 1
    /\ Reset(w)
    /\ UNCHANGED <<row, audit, published, toolRows, api>>

-----------------------------------------------------------------------------
\* The heartbeat thread, on a session of its own that reads the row.

HeartbeatReads(w) ==
    /\ beat[w] = "on"
    /\ pc[w] # "closing"
    /\ LET r == row[task[w]]
           live == r.status \in Active /\ r.owner = lease[w] /\ ~r.cancel
       IN beat' = [beat EXCEPT ![w] = IF live THEN "writing" ELSE "off"]
    /\ UNCHANGED <<row, audit, published, toolRows, pc, task, lease, view, expired, done, api, faults>>

HeartbeatWrites(w) ==
    /\ beat[w] = "writing"
    /\ row' = [row EXCEPT ![task[w]].hb = "fresh"]
    /\ beat' = [beat EXCEPT ![w] = "on"]
    /\ UNCHANGED <<audit, published, toolRows, pc, task, lease, view, expired, done, api, faults>>

\* heartbeat_at passes the lease timeout: nobody refreshes it any more.
LeaseExpires(t) ==
    /\ row[t].status \in Active
    /\ row[t].hb = "fresh"
    /\ \A w \in Workers : pc[w] # "idle" => task[w] # t
    /\ row' = [row EXCEPT ![t].hb = "stale"]
    /\ UNCHANGED <<audit, published, toolRows, wvars, api, faults>>

\* The same under a live run: a paused process, or a lease timeout below the
\* task timeout once a cancel request has ended the heartbeat thread.
LeaseOverrun(t) ==
    /\ LeaseMayExpireUnderOwner
    /\ faults < MaxFaults
    /\ faults' = faults + 1
    /\ row[t].status \in Active
    /\ row[t].hb = "fresh"
    /\ \E w \in Workers : pc[w] # "idle" /\ task[w] = t
    /\ row' = [row EXCEPT ![t].hb = "stale"]
    /\ UNCHANGED <<audit, published, toolRows, wvars, api>>

-----------------------------------------------------------------------------
\* The steps a worker process takes by itself.
Step(w) ==
    \/ RecoverOnly(w)
    \/ \E t \in Tasks : ClaimCancelled(w, t) \/ Claim(w, t)
    \/ Run(w)
    \/ HandlerReads(w)
    \/ SettleFailed(w)
    \/ SettleOverwritten(w)
    \/ SettleCancelled(w)
    \/ SettleRaises(w)
    \/ CheckUnexpected(w)
    \/ Close(w)

Heartbeat(w) == HeartbeatReads(w) \/ HeartbeatWrites(w)

Next ==
    \/ \E t \in Tasks : Create(t) \/ LeaseExpires(t) \/ LeaseOverrun(t)
    \/ \E c \in Clients : CommitCancel(c) \/ \E t \in Tasks : ReadForCancel(c, t)
    \/ \E w \in Workers : Step(w) \/ RunFails(w) \/ RunBreaks(w) \/ Crash(w)
                          \/ Heartbeat(w)

Spec == Init /\ [][Next]_vars

\* Every worker loops for ever (main), its threads are scheduled, calls end
\* by their deadlines, and time passes.
Fairness ==
    /\ \A w \in Workers : WF_vars(Step(w)) /\ WF_vars(HeartbeatWrites(w))
    /\ \A t \in Tasks : WF_vars(LeaseExpires(t))

FairSpec == Spec /\ Fairness

-----------------------------------------------------------------------------
TypeOK ==
    /\ row \in [Tasks -> Row]
    /\ audit \in [Tasks -> Statuses]
    /\ published \in [Tasks -> SUBSET Nat]
    /\ toolRows \in [Tasks -> [Steps -> Nat]]
    /\ pc \in [Workers -> WorkerStates]
    /\ task \in [Workers -> 0..NumTasks]
    /\ lease \in [Workers -> Nat]
    /\ view \in [Workers -> Row]
    /\ expired \in [Workers -> BOOLEAN]
    /\ done \in [Workers -> SUBSET Steps]
    /\ beat \in [Workers -> {"off", "on", "writing"}]
    /\ api \in [Clients -> [task : 0..NumTasks, view : Row]]
    /\ faults \in 0..MaxFaults

\* The row of a task under execution carries the lease of the run and a
\* heartbeat that recovery leaves alone, whatever the cancel endpoint writes.
ExecutorHoldsLease ==
    \A w \in Workers : Executing(w) =>
        /\ row[task[w]].owner = lease[w]
        /\ row[task[w]].hb = "fresh"

\* Two workers never execute the same task at the same time.
ExclusiveExecution ==
    \A v, w \in Workers :
        Executing(v) /\ Executing(w) /\ task[v] = task[w] => v = w

\* A row in an active status can always be found again by recovery.
ActiveIsRecoverable ==
    \A t \in Tasks : row[t].status \in Active => row[t].hb # "none"

\* At most one attempt persists the findings of a task, and only together
\* with the report.
FindingsOnce ==
    \A t \in Tasks :
        /\ \A a, b \in published[t] : a = b
        /\ published[t] # {} => row[t].result = "report"

\* Recovery reuses completed calls: no step is recorded as completed twice,
\* over all attempts of a task.
CallsNotRepeated == \A t \in Tasks, s \in Steps : toolRows[t][s] <= 1

\* The last task_status_changed event of a task names the status of its row.
AuditFollowsStatus == \A t \in Tasks : audit[t] = row[t].status

\* Findings are persisted only by the attempt that owns the row.
ReportOnlyByOwner ==
    [][\A t \in Tasks : \A a \in published'[t] \ published[t] : row[t].owner = a]_vars

\* No report is published for a task whose cancellation was requested.
NoReportAfterCancel ==
    [][\A t \in Tasks : published'[t] # published[t] => ~row[t].cancel]_vars

\* A cancel request is never lost, and no further attempt starts after it:
\* neither a recovery nor a run that writes an object it read before the
\* request takes the flag back, even when leases run out under live runs.
CancelSticks ==
    [][\A t \in Tasks : row[t].cancel =>
          row'[t].cancel /\ row'[t].attempt = row[t].attempt]_vars

\* A terminal task stays as it ended.
TerminalIsFinal ==
    [][\A t \in Tasks : row[t].status \in Terminal
                         => row'[t].status = row[t].status]_vars

\* What the workers promise together: one holder per task, one report.
Queue == INSTANCE TaskQueue WITH
    holders <- [t \in Tasks |-> {w \in Workers : Executing(w) /\ task[w] = t}],
    reported <- [t \in Tasks |-> published[t] # {}]

ImplementsTaskQueue == Queue!Spec


-----------------------------------------------------------------------------
\* The inductive invariant behind the lease properties, when no lease expires
\* under its owner.

\* The row of a task under execution is neither claimable nor answered.
RowOfExecutor ==
    \A w \in Workers : Executing(w) =>
        /\ row[task[w]].status \notin {"absent", "created"}
        /\ row[task[w]].result = "none"
        /\ published[task[w]] = {}
        /\ view[w].result = "none"

\* Only terminal rows have a result.
OpenHasNoResult ==
    \A t \in Tasks : row[t].status \notin Terminal =>
        row[t].result = "none" /\ published[t] = {}

\* A failure handler that saw a terminal row is right about it.
SettledView ==
    \A w \in Workers :
        pc[w] = "settling" /\ view[w].status \notin Active
            => row[task[w]].status \notin Active

\* The cached object of a retrieval that fails is active.
CachedView ==
    \A w \in Workers :
        \/ pc[w] \in {"starting", "retrieving", "calling"}
        \/ pc[w] = "failing" /\ ~expired[w]
        => view[w].status \in Active

ExpiredInHandler ==
    \A w \in Workers : expired[w] => pc[w] \in {"failing", "unexpected"}

LeaseInv ==
    /\ ExecutorHoldsLease
    /\ ExclusiveExecution
    /\ RowOfExecutor
    /\ OpenHasNoResult
    /\ ActiveIsRecoverable
    /\ FindingsOnce
    /\ SettledView
    /\ CachedView
    /\ ExpiredInHandler
=============================================================================
