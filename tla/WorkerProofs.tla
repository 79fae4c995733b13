---------------------------- MODULE WorkerProofs ----------------------------
(***************************************************************************)
(* Theorems about Worker, for every number of workers, cancel clients,     *)
(* tasks, steps and faults.                                                *)
(***************************************************************************)
EXTENDS Worker, TLAPS

USE DEF Tasks, Steps

-----------------------------------------------------------------------------
\* The operators on rows keep the type of a row.

LEMMA NewRowType ==
    ASSUME NEW s \in Statuses, NEW x \in {"none", "report", "failure"}
    PROVE  NewRow(s, x) \in Row
  BY DEF NewRow, Row

LEMMA NoRowType == NoRow \in Row
  BY DEF NoRow, NewRow, Row, Statuses, Claimable, Active, Terminal

LEMMA FlushType ==
    ASSUME NEW r \in Row, NEW b \in Row, NEW c \in Row
    PROVE  Flush(r, b, c) \in Row
  BY DEF Flush, Column, Row

LEMMA ReleaseLeaseType ==
    ASSUME NEW r \in Row
    PROVE  ReleaseLease(r) \in Row
  BY DEF ReleaseLease, Row

LEMMA FinalizeType ==
    ASSUME NEW r \in Row
    PROVE  FinalizeCancellation(r) \in Row
  BY DEF FinalizeCancellation, ReleaseLease, Row, Statuses, Terminal

LEMMA StatusType ==
    ASSUME NEW r \in Row, NEW s \in Statuses
    PROVE  [r EXCEPT !.status = s] \in Row
  BY DEF Row

LEMMA ReportType ==
    ASSUME NEW r \in Row, NEW s \in Statuses
    PROVE  [r EXCEPT !.status = s, !.result = "report"] \in Row
  BY DEF Row

LEMMA FreshType ==
    ASSUME NEW r \in Row
    PROVE  [r EXCEPT !.hb = "fresh"] \in Row
  BY DEF Row

LEMMA CountOneType ==
    ASSUME NEW f \in [Steps -> Nat], NEW s \in Steps
    PROVE  [f EXCEPT ![s] = @ + 1] \in [Steps -> Nat]
  OBVIOUS

LEMMA RequestType ==
    ASSUME NEW r \in Row
    PROVE  RequestCancellation(r) \in Row
  BY DEF RequestCancellation, Row, Statuses, Terminal

LEMMA ClaimedType ==
    ASSUME NEW r \in Row
    PROVE  Claimed(r) \in Row
<1>1. r.attempt + 1 \in Nat
  BY DEF Row
<1>2. "discovering" \in Statuses
  BY DEF Statuses, Active
<1>3. QED
  BY <1>1, <1>2 DEF Claimed, Row

LEMMA FailedType ==
    ASSUME NEW r \in Row
    PROVE  Failed(r) \in Row
  BY DEF Failed, ReleaseLease, Row, Statuses, Terminal

LEMMA RecoveredType ==
    ASSUME TypeOK
    PROVE  /\ Recovered \in [Tasks -> Row]
           /\ RecoveryAudit \in [Tasks -> Statuses]
  BY ReleaseLeaseType DEF TypeOK, Recovered, RecoveryAudit, Row, Statuses, Claimable, ReleaseLease

\* A run that is not idle has a task.
RunHasTask == \A w \in Workers : pc[w] # "idle" => task[w] \in Tasks

TypeInv == TypeOK /\ RunHasTask

LEMMA LookType ==
    ASSUME TypeInv, NEW w \in Workers, pc[w] # "idle"
    PROVE  Look(w) \in Row
  BY DEF TypeInv, TypeOK, RunHasTask, Look

LEMMA AuditOfType ==
    ASSUME TypeOK, NEW t \in Tasks, NEW b \in Row, NEW c \in Row
    PROVE  AuditOf(t, b, c) \in Statuses
  BY DEF TypeOK, AuditOf, Row

LEMMA CommitType ==
    ASSUME TypeInv, NEW w \in Workers, pc[w] # "idle", NEW c \in Row, Commit(w, c)
    PROVE  /\ row' \in [Tasks -> Row]
           /\ audit' \in [Tasks -> Statuses]
           /\ view' \in [Workers -> Row]
<1>1. Look(w) \in Row /\ task[w] \in Tasks
  BY LookType DEF TypeInv, RunHasTask
<1>2. Flush(row[task[w]], Look(w), c) \in Row
  BY <1>1, FlushType DEF TypeInv, TypeOK
<1>3. AuditOf(task[w], Look(w), c) \in Statuses
  BY <1>1, AuditOfType DEF TypeInv
<1>4. QED
  BY <1>1, <1>2, <1>3 DEF Commit, TypeInv, TypeOK

\* The task and the main state of every run but w are left alone.
LEMMA GotoType ==
    ASSUME TypeInv, NEW w \in Workers, pc[w] # "idle", NEW state \in WorkerStates,
           Goto(w, state), task' = task
    PROVE  pc' \in [Workers -> WorkerStates] /\ RunHasTask'
  BY DEF TypeInv, TypeOK, RunHasTask, Goto

LEMMA ResetType ==
    ASSUME TypeInv, NEW w \in Workers, Reset(w)
    PROVE  /\ pc' \in [Workers -> WorkerStates]
           /\ task' \in [Workers -> 0..NumTasks]
           /\ lease' \in [Workers -> Nat]
           /\ view' \in [Workers -> Row]
           /\ expired' \in [Workers -> BOOLEAN]
           /\ done' \in [Workers -> SUBSET Steps]
           /\ beat' \in [Workers -> {"off", "on", "writing"}]
           /\ RunHasTask'
  BY NoRowType, ConstantsOK DEF TypeInv, TypeOK, RunHasTask, Reset, WorkerStates

LEMMA InitType == Init => TypeInv
<1> SUFFICES ASSUME Init PROVE TypeInv
  OBVIOUS
<1>1. row \in [Tasks -> Row] /\ view \in [Workers -> Row]
  BY NoRowType DEF Init
<1>2. audit \in [Tasks -> Statuses]
  BY DEF Init, Statuses
<1>3. api \in [Clients -> [task : 0..NumTasks, view : Row]]
  BY NoRowType, ConstantsOK DEF Init, ApiIdle
<1>4. /\ pc \in [Workers -> WorkerStates]
      /\ task \in [Workers -> 0..NumTasks]
      /\ lease \in [Workers -> Nat]
      /\ faults \in 0..MaxFaults
  BY ConstantsOK DEF Init, WorkerStates
<1>5. /\ published \in [Tasks -> SUBSET Nat]
      /\ toolRows \in [Tasks -> [Steps -> Nat]]
      /\ expired \in [Workers -> BOOLEAN]
      /\ done \in [Workers -> SUBSET Steps]
      /\ beat \in [Workers -> {"off", "on", "writing"}]
  BY DEF Init
<1>6. RunHasTask
  BY DEF Init, RunHasTask
<1>7. QED
  BY <1>1, <1>2, <1>3, <1>4, <1>5, <1>6 DEF TypeInv, TypeOK

\* Every action of the API keeps the types.
LEMMA ApiStepType ==
    ASSUME TypeInv
    PROVE  /\ \A t \in Tasks : Create(t) => TypeInv'
           /\ \A c \in Clients, t \in Tasks : ReadForCancel(c, t) => TypeInv'
           /\ \A c \in Clients : CommitCancel(c) => TypeInv'
<1> USE DEF TypeInv, TypeOK, RunHasTask, wvars
<1>1. ASSUME NEW t \in Tasks, Create(t) PROVE TypeInv'
  <2>1. PICK r \in {NewRow("created", "none"), NewRow("failed", "failure")} :
          /\ row' = [row EXCEPT ![t] = r]
          /\ audit' = [audit EXCEPT ![t] = r.status]
    BY <1>1 DEF Create
  <2>2. r \in Row
    <3>1. "created" \in Statuses /\ "failed" \in Statuses
      BY DEF Statuses, Claimable, Terminal
    <3>2. NewRow("created", "none") \in Row /\ NewRow("failed", "failure") \in Row
      BY <3>1, NewRowType
    <3>3. QED
      BY <2>1, <3>2
  <2>4. r.status \in Statuses
    BY <2>2 DEF Row
  <2>3. QED
    BY <1>1, <2>1, <2>2, <2>4 DEF Create
<1>2. ASSUME NEW c \in Clients, NEW t \in Tasks, ReadForCancel(c, t) PROVE TypeInv'
  <2>1. [task |-> t, view |-> row[t]] \in [task : 0..NumTasks, view : Row]
    BY ConstantsOK
  <2>2. QED
    BY <1>2, <2>1 DEF ReadForCancel
<1>3. ASSUME NEW c \in Clients, CommitCancel(c) PROVE TypeInv'
  <2> DEFINE t == api[c].task
             loaded == api[c].view
             changed == RequestCancellation(loaded)
  <2>1. loaded \in Row /\ changed \in Row
    BY RequestType
  <2>2. ASSUME t \in Tasks
        PROVE  Flush(row[t], loaded, changed) \in Row /\ AuditOf(t, loaded, changed) \in Statuses
    BY <2>1, <2>2, FlushType, AuditOfType
  <2>3. ApiIdle \in [task : 0..NumTasks, view : Row]
    BY NoRowType, ConstantsOK DEF ApiIdle
  <2>4. row' \in [Tasks -> Row] /\ audit' \in [Tasks -> Statuses]
    BY <1>3, <2>2 DEF CommitCancel
  <2>5. api' \in [Clients -> [task : 0..NumTasks, view : Row]]
    BY <1>3, <2>3 DEF CommitCancel
  <2>6. QED
    BY <1>3, <2>4, <2>5 DEF CommitCancel
<1>4. QED
  BY <1>1, <1>2, <1>3

\* Claiming, with the recovery it runs first.
LEMMA ClaimStepType ==
    ASSUME TypeInv, NEW w \in Workers
    PROVE  /\ RecoverOnly(w) => TypeInv'
           /\ \A t \in Tasks : ClaimCancelled(w, t) => TypeInv'
           /\ \A t \in Tasks : Claim(w, t) => TypeInv'
<1> USE RecoveredType DEF TypeInv, TypeOK, RunHasTask, wvars
<1>1. ASSUME RecoverOnly(w) PROVE TypeInv'
  BY <1>1 DEF RecoverOnly
<1>2. ASSUME NEW t \in Tasks, ClaimCancelled(w, t) PROVE TypeInv'
  <2>1. FinalizeCancellation(row[t]) \in Row /\ "cancelled" \in Statuses
    BY FinalizeType DEF Statuses, Terminal
  <2>2. QED
    BY <1>2, <2>1 DEF ClaimCancelled
<1>3. ASSUME NEW t \in Tasks, Claim(w, t) PROVE TypeInv'
  <2>1. Claimed(row[t]) \in Row /\ "discovering" \in Statuses
    BY ClaimedType DEF Statuses, Active
  <2>2. Claimed(row[t]).owner \in Nat
    BY <2>1 DEF Row
  <2>3. "starting" \in WorkerStates /\ t \in 0..NumTasks
    BY ConstantsOK DEF WorkerStates
  <2>4. QED
    BY <1>3, <2>1, <2>2, <2>3 DEF Claim
<1>4. QED
  BY <1>1, <1>2, <1>3

\* The stages of a run.
LEMMA RunStepType ==
    ASSUME TypeInv, NEW w \in Workers
    PROVE  /\ Load(w) => TypeInv'
           /\ AllowTool(w) => TypeInv'
           /\ \A s \in Steps : PersistTool(w, s) => TypeInv'
           /\ StartAnalysis(w) => TypeInv'
           /\ CallModel(w) => TypeInv'
           /\ ModelAnswered(w) => TypeInv'
           /\ \A outcome \in Terminal : Finish(w, outcome) => TypeInv'
           /\ SeeCancel(w) => TypeInv'
           /\ LoseLease(w) => TypeInv'
<1> USE DEF TypeInv, TypeOK
<1>s. /\ "retrieving" \in WorkerStates /\ "calling" \in WorkerStates
      /\ "analyzing" \in WorkerStates /\ "thinking" \in WorkerStates
      /\ "reporting" \in WorkerStates /\ "closing" \in WorkerStates
      /\ "analyzing" \in Statuses /\ "reporting" \in Statuses
      /\ Terminal \subseteq Statuses
  BY DEF WorkerStates, Statuses, Active, Terminal
<1>1. ASSUME Load(w) PROVE TypeInv'
  <2>1. CompletedCalls(task[w]) \in SUBSET Steps
    BY DEF CompletedCalls
  <2>2. QED
    BY <1>1, <2>1, <1>s, LookType, GotoType DEF Load
<1>2. ASSUME AllowTool(w) PROVE TypeInv'
  <2>1. Look(w) \in Row /\ task[w] \in Tasks
    BY <1>2, LookType DEF AllowTool, RunHasTask
  <2>2. /\ [Look(w) EXCEPT !.hb = "fresh"] \in Row
        /\ [row[task[w]] EXCEPT !.hb = "fresh"] \in Row
    BY <2>1, FreshType
  <2>3. QED
    BY <1>2, <2>1, <2>2, <1>s, GotoType DEF AllowTool
<1>3. ASSUME NEW s \in Steps, PersistTool(w, s) PROVE TypeInv'
  <2>1. task[w] \in Tasks
    BY <1>3 DEF PersistTool, RunHasTask
  <2>0. [toolRows[task[w]] EXCEPT ![s] = @ + 1] \in [Steps -> Nat]
    BY <2>1, CountOneType
  <2>2. toolRows' \in [Tasks -> [Steps -> Nat]]
    BY <1>3, <2>0, <2>1 DEF PersistTool
  <2>3. done' \in [Workers -> SUBSET Steps]
    BY <1>3 DEF PersistTool
  <2>4. QED
    BY <1>3, <2>2, <2>3, <1>s, LookType, GotoType DEF PersistTool
<1>4. ASSUME StartAnalysis(w) PROVE TypeInv'
  <2>1. [Look(w) EXCEPT !.status = "analyzing"] \in Row
    BY <1>4, <1>s, LookType, StatusType DEF StartAnalysis
  <2>2. QED
    BY <1>4, <2>1, <1>s, CommitType, GotoType DEF StartAnalysis
<1>5. ASSUME CallModel(w) PROVE TypeInv'
  BY <1>5, <1>s, LookType, GotoType DEF CallModel
<1>6. ASSUME ModelAnswered(w) PROVE TypeInv'
  <2> DEFINE changed == [view[w] EXCEPT !.status = "reporting"]
  <2>1. changed \in Row
    BY <1>s, StatusType
  <2>0. task[w] \in Tasks
    BY <1>6 DEF ModelAnswered, RunHasTask
  <2>2. Flush(row[task[w]], view[w], changed) \in Row
    BY <2>0, <2>1, FlushType
  <2>3. QED
    BY <1>6, <2>0, <2>1, <2>2, <1>s, GotoType DEF ModelAnswered
<1>7. ASSUME NEW outcome \in Terminal, Finish(w, outcome) PROVE TypeInv'
  <2>1. ReleaseLease(Look(w)) \in Row
    BY <1>7, LookType, ReleaseLeaseType DEF Finish
  <2>2. [ReleaseLease(Look(w)) EXCEPT !.status = outcome, !.result = "report"] \in Row
    BY <2>1, <1>s, ReportType
  <2>3. published' \in [Tasks -> SUBSET Nat]
    <3>1. task[w] \in Tasks /\ published[task[w]] \cup {lease[w]} \in SUBSET Nat
      BY <1>7 DEF Finish, RunHasTask
    <3>2. published' = [published EXCEPT ![task[w]] = published[task[w]] \cup {lease[w]}]
      BY <1>7 DEF Finish
    <3>3. QED
      BY <3>1, <3>2
  <2>4. QED
    BY <1>7, <2>2, <2>3, <1>s, CommitType, GotoType DEF Finish
<1>8. ASSUME SeeCancel(w) PROVE TypeInv'
  <2>1. FinalizeCancellation(Look(w)) \in Row /\ pc[w] # "idle"
    BY <1>8, LookType, FinalizeType DEF SeeCancel, CancelDue
  <2>2. QED
    BY <1>8, <2>1, <1>s, CommitType, GotoType DEF SeeCancel, CancelDue
<1>9. ASSUME LoseLease(w) PROVE TypeInv'
  BY <1>9, <1>s, GotoType DEF LoseLease, LeaseLost
<1>10. QED
  BY <1>1, <1>2, <1>3, <1>4, <1>5, <1>6, <1>7, <1>8, <1>9

\* Failing, crashing, the heartbeat thread and time.
LEMMA FailureStepType ==
    ASSUME TypeInv, NEW w \in Workers
    PROVE  /\ RunFails(w) => TypeInv'
           /\ RunBreaks(w) => TypeInv'
           /\ HandlerReads(w) => TypeInv'
           /\ SettleFailed(w) => TypeInv'
           /\ SettleOverwritten(w) => TypeInv'
           /\ SettleCancelled(w) => TypeInv'
           /\ SettleRaises(w) => TypeInv'
           /\ CheckUnexpected(w) => TypeInv'
           /\ Close(w) => TypeInv'
           /\ Crash(w) => TypeInv'
<1> USE DEF TypeInv, TypeOK
<1>s. /\ "failing" \in WorkerStates /\ "settling" \in WorkerStates
      /\ "unexpected" \in WorkerStates /\ "checking" \in WorkerStates
      /\ "closing" \in WorkerStates
  BY DEF WorkerStates
<1>0. ASSUME pc[w] # "idle", NEW c \in Row, NEW e \in Statuses, HandlerCommits(w, c, e)
      PROVE  TypeInv'
  <2>1. task[w] \in Tasks /\ Flush(row[task[w]], view[w], c) \in Row
    BY <1>0, FlushType DEF RunHasTask
  <2>2. QED
    BY <1>0, <1>s, <2>1, GotoType DEF HandlerCommits
<1>1. ASSUME RunFails(w) PROVE TypeInv'
  <2>1. (pc[w] = "thinking") \in BOOLEAN
    OBVIOUS
  <2>2. expired' \in [Workers -> BOOLEAN]
    BY <1>1, <2>1 DEF RunFails
  <2>3. QED
    BY <1>1, <2>2, <1>s, GotoType DEF RunFails
<1>2. ASSUME RunBreaks(w) PROVE TypeInv'
  <2>1. pc[w] # "idle" /\ faults' \in 0..MaxFaults
    BY <1>2, ConstantsOK DEF RunBreaks, Working
  <2>2. QED
    BY <1>2, <2>1, <1>s, GotoType DEF RunBreaks
<1>3. ASSUME HandlerReads(w) PROVE TypeInv'
  BY <1>3, <1>s, LookType, GotoType DEF HandlerReads
<1>4. ASSUME SettleFailed(w) PROVE TypeInv'
  <2>1. Failed(view[w]) \in Row /\ "failed" \in Statuses
    BY FailedType DEF Statuses, Terminal
  <2>2. QED
    BY <1>4, <1>0, <2>1 DEF SettleFailed
<1>5. ASSUME SettleOverwritten(w) PROVE TypeInv'
  <2>1. pc[w] # "idle"
    BY <1>5 DEF SettleOverwritten
  <2>2. Failed(view[w]) \in Row /\ audit[task[w]] \in Statuses
    BY <2>1, FailedType DEF RunHasTask
  <2>3. QED
    BY <1>5, <1>0, <2>1, <2>2 DEF SettleOverwritten
<1>6. ASSUME SettleCancelled(w) PROVE TypeInv'
  <2>1. pc[w] # "idle" /\ FinalizeCancellation(view[w]) \in Row
    BY <1>6, FinalizeType DEF SettleCancelled
  <2>2. AuditOf(task[w], view[w], FinalizeCancellation(view[w])) \in Statuses
    BY <2>1, AuditOfType DEF RunHasTask
  <2>3. QED
    BY <1>6, <1>0, <2>1, <2>2 DEF SettleCancelled
<1>7. ASSUME SettleRaises(w) PROVE TypeInv'
  BY <1>7, <1>s, GotoType DEF SettleRaises
<1>8. ASSUME CheckUnexpected(w) PROVE TypeInv'
  <2>1. pc[w] # "idle" /\ audit[task[w]] \in Statuses
    BY <1>8 DEF CheckUnexpected, RunHasTask
  <2>2. FinalizeCancellation(view[w]) \in Row /\ "cancelled" \in Statuses
    BY FinalizeType DEF Statuses, Terminal
  <2>3. QED
    BY <1>8, <1>0, <2>1, <2>2 DEF CheckUnexpected
<1>9. ASSUME Close(w) PROVE TypeInv'
  BY <1>9, ResetType DEF Close
<1>10. ASSUME Crash(w) PROVE TypeInv'
  <2>1. faults' \in 0..MaxFaults
    BY <1>10, ConstantsOK DEF Crash
  <2>2. QED
    BY <1>10, <2>1, ResetType DEF Crash
<1>11. QED
  BY <1>1, <1>2, <1>3, <1>4, <1>5, <1>6, <1>7, <1>8, <1>9, <1>10

LEMMA TimeStepType ==
    ASSUME TypeInv
    PROVE  /\ \A w \in Workers : Heartbeat(w) => TypeInv'
           /\ \A t \in Tasks : LeaseExpires(t) \/ LeaseOverrun(t) => TypeInv'
<1> USE DEF TypeInv, TypeOK, RunHasTask, wvars
<1>0. \A r \in Row : /\ [r EXCEPT !.hb = "fresh"] \in Row
                    /\ [r EXCEPT !.hb = "stale"] \in Row
  BY DEF Row
<1>1. ASSUME NEW w \in Workers, HeartbeatReads(w) PROVE TypeInv'
  BY <1>1 DEF HeartbeatReads
<1>2. ASSUME NEW w \in Workers, HeartbeatWrites(w) PROVE TypeInv'
  <2>1. row' \in [Tasks -> Row]
    BY <1>2, <1>0 DEF HeartbeatWrites
  <2>2. beat' \in [Workers -> {"off", "on", "writing"}]
    BY <1>2 DEF HeartbeatWrites
  <2>3. QED
    BY <1>2, <2>1, <2>2 DEF HeartbeatWrites
<1>3. ASSUME NEW t \in Tasks, LeaseExpires(t) PROVE TypeInv'
  BY <1>3, <1>0 DEF LeaseExpires
<1>4. ASSUME NEW t \in Tasks, LeaseOverrun(t) PROVE TypeInv'
  <2>1. faults' \in 0..MaxFaults
    BY <1>4, ConstantsOK DEF LeaseOverrun
  <2>2. row' \in [Tasks -> Row]
    BY <1>4, <1>0 DEF LeaseOverrun
  <2>3. QED
    BY <1>4, <2>1, <2>2 DEF LeaseOverrun
<1>5. QED
  BY <1>1, <1>2, <1>3, <1>4 DEF Heartbeat

LEMMA NextType == TypeInv /\ [Next]_vars => TypeInv'
<1> SUFFICES ASSUME TypeInv, [Next]_vars PROVE TypeInv'
  OBVIOUS
<1>1. CASE \E t \in Tasks : Create(t) \/ LeaseExpires(t) \/ LeaseOverrun(t)
  BY <1>1, ApiStepType, TimeStepType
<1>2. CASE \E c \in Clients : CommitCancel(c) \/ \E t \in Tasks : ReadForCancel(c, t)
  BY <1>2, ApiStepType
<1>3. CASE \E w \in Workers : Step(w) \/ RunFails(w) \/ RunBreaks(w) \/ Crash(w) \/ Heartbeat(w)
  <2>1. PICK w \in Workers : Step(w) \/ RunFails(w) \/ RunBreaks(w) \/ Crash(w) \/ Heartbeat(w)
    BY <1>3
  <2>2. CASE Step(w)
    BY <2>2, ClaimStepType, RunStepType, FailureStepType DEF Step, Run
  <2>3. QED
    BY <2>1, <2>2, FailureStepType, TimeStepType
<1>4. CASE UNCHANGED vars
  BY <1>4 DEF vars, wvars, TypeInv, TypeOK, RunHasTask
<1>5. QED
  BY <1>1, <1>2, <1>3, <1>4 DEF Next

\* Every variable keeps its type, and every run has a task, in every state
\* of the workers, the API and the clock.
THEOREM TypeCorrect == Spec => []TypeOK
<1>1. Spec => []TypeInv
  BY InitType, NextType, PTL DEF Spec
<1>2. TypeInv => TypeOK
  BY DEF TypeInv
<1>3. QED
  BY <1>1, <1>2, PTL

-----------------------------------------------------------------------------
\* Cancel requests, without any assumption on leases.

\* What a row goes through keeps the request, and with it the attempt.
Keeps(r, n) ==
    /\ n.status # "absent"
    /\ r.cancel => n.cancel /\ n.attempt = r.attempt

\* An object changed so, whenever it was loaded, does no harm to the row.
Spares(loaded, changed) ==
    /\ changed.status = loaded.status \/ changed.status # "absent"
    /\ loaded.cancel => changed.cancel
    /\ changed.attempt = loaded.attempt

LEMMA FlushKeeps ==
    ASSUME NEW r \in Row, NEW b \in Row, NEW c \in Row, r.status # "absent", Spares(b, c)
    PROVE  Keeps(r, Flush(r, b, c))
  BY DEF Keeps, Spares, Flush, Column, Row

\* What the API and the runs make of a row they read.
LEMMA ChangesSpare ==
    ASSUME NEW r \in Row
    PROVE  /\ Spares(r, r)
           /\ Spares(r, RequestCancellation(r))
           /\ Spares(r, FinalizeCancellation(r))
           /\ Spares(r, Failed(r))
           /\ \A s \in Statuses \ {"absent"} :
                 /\ Spares(r, [r EXCEPT !.status = s])
                 /\ Spares(r, [ReleaseLease(r) EXCEPT !.status = s, !.result = "report"])
  BY DEF Spares, RequestCancellation, FinalizeCancellation, Failed, ReleaseLease, Row

\* What is done to the row itself.
LEMMA RowChangesKeep ==
    ASSUME NEW r \in Row, r.status # "absent"
    PROVE  /\ Keeps(r, r)
           /\ Keeps(r, [r EXCEPT !.hb = "fresh"]) /\ Keeps(r, [r EXCEPT !.hb = "stale"])
           /\ Keeps(r, [ReleaseLease(r) EXCEPT !.status = "created"])
           /\ Keeps(r, FinalizeCancellation(r))
           /\ ~r.cancel => Keeps(r, Claimed(r))
  BY DEF Keeps, ReleaseLease, FinalizeCancellation, Claimed, Row

\* A task is worked on, or its cancellation requested, only once it is there.
PresentInv ==
    /\ \A t \in Tasks : row[t].status = "absent" => ~row[t].cancel
    /\ \A w \in Workers : pc[w] # "idle" => row[task[w]].status # "absent"
    /\ \A w \in Workers : beat[w] # "off" => pc[w] # "idle"
    /\ \A c \in Clients :
          api[c] # ApiIdle => api[c].task \in Tasks /\ row[api[c].task].status # "absent"

\* One row over a step.
RowStep(t) ==
    \/ row'[t] = row[t]
    \/ row[t].status # "absent" /\ Keeps(row[t], row'[t])
    \/ row[t].status = "absent" /\ row'[t] \in {NewRow("created", "none"), NewRow("failed", "failure")}

LEMMA OneRowStep ==
    ASSUME TypeInv, NEW u \in Tasks, NEW r, row' = [row EXCEPT ![u] = r],
           row[u].status # "absent", Keeps(row[u], r)
    PROVE  \A t \in Tasks : RowStep(t)
  BY DEF TypeInv, TypeOK, RowStep

LEMMA CommitStep ==
    ASSUME TypeInv, PresentInv, NEW w \in Workers, pc[w] # "idle", NEW c \in Row,
           Spares(Look(w), c), Commit(w, c)
    PROVE  \A t \in Tasks : RowStep(t)
<1>1. task[w] \in Tasks /\ row[task[w]] \in Row /\ Look(w) \in Row
  BY LookType DEF TypeInv, TypeOK, RunHasTask
<1>2. row[task[w]].status # "absent"
  BY DEF PresentInv
<1>3. Keeps(row[task[w]], Flush(row[task[w]], Look(w), c))
  BY <1>1, <1>2, FlushKeeps
<1>4. QED
  BY <1>1, <1>2, <1>3, OneRowStep DEF Commit

\* An UPDATE of the object the run holds.
LEMMA ViewStep ==
    ASSUME TypeInv, PresentInv, NEW w \in Workers, pc[w] # "idle", NEW c \in Row,
           Spares(view[w], c), row' = [row EXCEPT ![task[w]] = Flush(row[task[w]], view[w], c)]
    PROVE  \A t \in Tasks : RowStep(t)
<1>1. task[w] \in Tasks /\ row[task[w]] \in Row /\ view[w] \in Row
  BY DEF TypeInv, TypeOK, RunHasTask
<1>2. row[task[w]].status # "absent"
  BY DEF PresentInv
<1>3. Keeps(row[task[w]], Flush(row[task[w]], view[w], c))
  BY <1>1, <1>2, FlushKeeps
<1>4. QED
  BY <1>1, <1>2, <1>3, OneRowStep

LEMMA ApiRowStep ==
    ASSUME TypeInv, PresentInv
    PROVE  /\ \A t \in Tasks : Create(t) => \A u \in Tasks : RowStep(u)
           /\ \A c \in Clients : CommitCancel(c) => \A u \in Tasks : RowStep(u)
<1>1. ASSUME NEW t \in Tasks, Create(t), NEW u \in Tasks PROVE RowStep(u)
  BY <1>1 DEF Create, RowStep, TypeInv, TypeOK
<1>2. ASSUME NEW c \in Clients, CommitCancel(c) PROVE \A u \in Tasks : RowStep(u)
  <2> DEFINE t == api[c].task
             loaded == api[c].view
             changed == RequestCancellation(loaded)
  <2>1. t \in Tasks /\ row[t].status # "absent" /\ row[t] \in Row
    BY <1>2 DEF CommitCancel, PresentInv, TypeInv, TypeOK
  <2>2. loaded \in Row /\ changed \in Row
    BY RequestType DEF TypeInv, TypeOK
  <2>3. Keeps(row[t], Flush(row[t], loaded, changed))
    BY <2>1, <2>2, ChangesSpare, FlushKeeps
  <2>4. row' = [row EXCEPT ![t] = Flush(row[t], loaded, changed)]
    BY <1>2 DEF CommitCancel
  <2>5. QED
    BY <2>1, <2>3, <2>4, OneRowStep
<1>3. QED
  BY <1>1, <1>2

LEMMA RecoveredStep ==
    ASSUME TypeInv, NEW t \in Tasks
    PROVE  Recovered[t] = row[t] \/ (row[t].status # "absent" /\ Keeps(row[t], Recovered[t]))
<1>1. row[t] \in Row
  BY DEF TypeInv, TypeOK
<1>2. Stale(t) => row[t].status # "absent"
  BY DEF Stale, Active
<1>3. QED
  BY <1>1, <1>2, RowChangesKeep DEF Recovered

LEMMA ClaimRowStep ==
    ASSUME TypeInv, NEW w \in Workers
    PROVE  /\ RecoverOnly(w) => \A u \in Tasks : RowStep(u)
           /\ \A t \in Tasks : ClaimCancelled(w, t) \/ Claim(w, t) => \A u \in Tasks : RowStep(u)
<1>1. ASSUME RecoverOnly(w) PROVE \A u \in Tasks : RowStep(u)
  BY <1>1, RecoveredStep DEF RecoverOnly, RowStep
<1>2. ASSUME NEW t \in Tasks, ClaimCancelled(w, t) \/ Claim(w, t), NEW u \in Tasks
      PROVE  RowStep(u)
  <2>1. row[t].status # "absent" /\ row[t] \in Row
    BY <1>2 DEF ClaimCancelled, Claim, Oldest, Candidates, Claimable, TypeInv, TypeOK
  <2>2. PICK r : row' = [Recovered EXCEPT ![t] = r] /\ Keeps(row[t], r)
    BY <1>2, <2>1, RowChangesKeep DEF ClaimCancelled, Claim
  <2>3. u # t => row'[u] = Recovered[u]
    BY <2>2 DEF Recovered
  <2>4. u = t => row'[u] = r
    BY <2>2 DEF Recovered
  <2>5. QED
    BY <2>1, <2>2, <2>3, <2>4, RecoveredStep DEF RowStep
<1>3. QED
  BY <1>1, <1>2

LEMMA RunRowStep ==
    ASSUME TypeInv, PresentInv, NEW w \in Workers
    PROVE  /\ AllowTool(w) => \A u \in Tasks : RowStep(u)
           /\ StartAnalysis(w) => \A u \in Tasks : RowStep(u)
           /\ ModelAnswered(w) => \A u \in Tasks : RowStep(u)
           /\ \A outcome \in Terminal : Finish(w, outcome) => \A u \in Tasks : RowStep(u)
           /\ SeeCancel(w) => \A u \in Tasks : RowStep(u)
<1>s. /\ "analyzing" \in Statuses \ {"absent"} /\ "reporting" \in Statuses \ {"absent"}
      /\ Terminal \subseteq Statuses \ {"absent"}
  BY DEF Statuses, Active, Terminal
<1>1. ASSUME AllowTool(w) PROVE \A u \in Tasks : RowStep(u)
  <2>1. /\ task[w] \in Tasks /\ row[task[w]] \in Row /\ row[task[w]].status # "absent"
        /\ row' = [row EXCEPT ![task[w]] = [row[task[w]] EXCEPT !.hb = "fresh"]]
    BY <1>1 DEF AllowTool, TypeInv, TypeOK, RunHasTask, PresentInv
  <2>2. QED
    BY <2>1, RowChangesKeep, OneRowStep
<1>2. ASSUME StartAnalysis(w) PROVE \A u \in Tasks : RowStep(u)
  <2>1. pc[w] # "idle" /\ Look(w) \in Row
    BY <1>2, LookType DEF StartAnalysis
  <2>2. [Look(w) EXCEPT !.status = "analyzing"] \in Row
    BY <2>1, <1>s, StatusType
  <2>3. QED
    BY <1>2, <1>s, <2>1, <2>2, ChangesSpare, CommitStep DEF StartAnalysis
<1>3. ASSUME ModelAnswered(w) PROVE \A u \in Tasks : RowStep(u)
  <2> DEFINE changed == [view[w] EXCEPT !.status = "reporting"]
  <2>1. pc[w] # "idle" /\ view[w] \in Row
    BY <1>3 DEF ModelAnswered, TypeInv, TypeOK
  <2>2. changed \in Row /\ Spares(view[w], changed)
    BY <2>1, <1>s, StatusType, ChangesSpare
  <2>3. row' = [row EXCEPT ![task[w]] = Flush(row[task[w]], view[w], changed)]
    BY <1>3 DEF ModelAnswered
  <2>4. QED
    BY <2>1, <2>2, <2>3, ViewStep
<1>4. ASSUME NEW outcome \in Terminal, Finish(w, outcome) PROVE \A u \in Tasks : RowStep(u)
  <2>1. pc[w] # "idle" /\ Look(w) \in Row
    BY <1>4, LookType DEF Finish
  <2>2. [ReleaseLease(Look(w)) EXCEPT !.status = outcome, !.result = "report"] \in Row
    BY <2>1, <1>s, ReleaseLeaseType, ReportType
  <2>3. QED
    BY <1>4, <1>s, <2>1, <2>2, ChangesSpare, CommitStep DEF Finish
<1>5. ASSUME SeeCancel(w) PROVE \A u \in Tasks : RowStep(u)
  <2>1. pc[w] # "idle" /\ Look(w) \in Row
    BY <1>5, LookType DEF SeeCancel, CancelDue
  <2>2. QED
    BY <1>5, <2>1, FinalizeType, ChangesSpare, CommitStep DEF SeeCancel, CancelDue
<1>6. QED
  BY <1>1, <1>2, <1>3, <1>4, <1>5

LEMMA HandlerRowStep ==
    ASSUME TypeInv, PresentInv, NEW w \in Workers
    PROVE  SettleFailed(w) \/ SettleOverwritten(w) \/ SettleCancelled(w) \/ CheckUnexpected(w)
           => \A u \in Tasks : RowStep(u)
<1> SUFFICES ASSUME SettleFailed(w) \/ SettleOverwritten(w) \/ SettleCancelled(w)
                    \/ CheckUnexpected(w)
             PROVE  \A u \in Tasks : RowStep(u)
  OBVIOUS
<1>1. pc[w] # "idle" /\ view[w] \in Row
  BY DEF SettleFailed, SettleOverwritten, SettleCancelled, CheckUnexpected, TypeInv, TypeOK
<1>2. PICK c \in {view[w], Failed(view[w]), FinalizeCancellation(view[w])} :
          \E e : HandlerCommits(w, c, e)
  BY DEF SettleFailed, SettleOverwritten, SettleCancelled, CheckUnexpected
<1>3. c \in Row /\ Spares(view[w], c)
  BY <1>1, <1>2, FailedType, FinalizeType, ChangesSpare
<1>4. QED
  BY <1>1, <1>2, <1>3, ViewStep DEF HandlerCommits

LEMMA TimeRowStep ==
    ASSUME TypeInv, PresentInv
    PROVE  /\ \A w \in Workers : HeartbeatWrites(w) => \A u \in Tasks : RowStep(u)
           /\ \A t \in Tasks : LeaseExpires(t) \/ LeaseOverrun(t) => \A u \in Tasks : RowStep(u)
<1>1. ASSUME NEW w \in Workers, HeartbeatWrites(w) PROVE \A u \in Tasks : RowStep(u)
  <2>1. /\ task[w] \in Tasks /\ row[task[w]] \in Row /\ row[task[w]].status # "absent"
        /\ row' = [row EXCEPT ![task[w]] = [row[task[w]] EXCEPT !.hb = "fresh"]]
    BY <1>1 DEF HeartbeatWrites, TypeInv, TypeOK, RunHasTask, PresentInv
  <2>2. QED
    BY <2>1, RowChangesKeep, OneRowStep
<1>2. ASSUME NEW t \in Tasks, LeaseExpires(t) \/ LeaseOverrun(t)
      PROVE  \A u \in Tasks : RowStep(u)
  <2>1. /\ row[t] \in Row /\ row[t].status # "absent"
        /\ row' = [row EXCEPT ![t] = [row[t] EXCEPT !.hb = "stale"]]
    BY <1>2 DEF LeaseExpires, LeaseOverrun, Active, TypeInv, TypeOK
  <2>2. QED
    BY <2>1, RowChangesKeep, OneRowStep
<1>3. QED
  BY <1>1, <1>2

LEMMA NextRowStep ==
    ASSUME TypeInv, PresentInv, [Next]_vars
    PROVE  \A t \in Tasks : RowStep(t)
<1>u. row' = row => \A t \in Tasks : RowStep(t)
  BY DEF RowStep
<1>1. CASE \E t \in Tasks : Create(t) \/ LeaseExpires(t) \/ LeaseOverrun(t)
  BY <1>1, ApiRowStep, TimeRowStep
<1>2. CASE \E c \in Clients : CommitCancel(c) \/ \E t \in Tasks : ReadForCancel(c, t)
  BY <1>2, <1>u, ApiRowStep DEF ReadForCancel
<1>3. CASE \E w \in Workers : Step(w) \/ RunFails(w) \/ RunBreaks(w) \/ Crash(w) \/ Heartbeat(w)
  <2>1. PICK w \in Workers : Step(w) \/ RunFails(w) \/ RunBreaks(w) \/ Crash(w) \/ Heartbeat(w)
    BY <1>3
  <2>2. CASE RunFails(w) \/ RunBreaks(w) \/ Crash(w)
    BY <2>2, <1>u DEF RunFails, RunBreaks, Crash
  <2>3. CASE Heartbeat(w)
    BY <2>3, <1>u, TimeRowStep DEF Heartbeat, HeartbeatReads
  <2>4. CASE Step(w)
    <3>1. Load(w) \/ CallModel(w) \/ LoseLease(w) \/ HandlerReads(w) \/ SettleRaises(w)
          \/ Close(w) \/ (\E s \in Steps : PersistTool(w, s)) => row' = row
      BY DEF Load, CallModel, LoseLease, LeaseLost, HandlerReads, SettleRaises, Close, PersistTool
    <3>2. QED
      BY <2>4, <3>1, <1>u, ClaimRowStep, RunRowStep, HandlerRowStep DEF Step, Run
  <2>5. QED
    BY <2>1, <2>2, <2>3, <2>4
<1>4. CASE UNCHANGED vars
  BY <1>4, <1>u DEF vars
<1>5. QED
  BY <1>1, <1>2, <1>3, <1>4 DEF Next

\* A run keeps its task until it is over, and starts with a claimed row.
RunStep(w) ==
    /\ pc'[w] # "idle" => \/ pc[w] # "idle" /\ task'[w] = task[w]
                          \/ row'[task'[w]].status # "absent"
    /\ beat'[w] # "off" => pc'[w] # "idle"

LEMMA NextRunStep ==
    ASSUME TypeInv, PresentInv, [Next]_vars
    PROVE  \A w \in Workers : RunStep(w)
<1> USE DEF RunStep
<1>u. UNCHANGED wvars => \A w \in Workers : RunStep(w)
  BY DEF wvars, PresentInv
<1>1. CASE \E t \in Tasks : Create(t) \/ LeaseExpires(t) \/ LeaseOverrun(t)
  BY <1>1, <1>u DEF Create, LeaseExpires, LeaseOverrun
<1>2. CASE \E c \in Clients : CommitCancel(c) \/ \E t \in Tasks : ReadForCancel(c, t)
  BY <1>2, <1>u DEF CommitCancel, ReadForCancel
<1>3. CASE \E w \in Workers : Step(w) \/ RunFails(w) \/ RunBreaks(w) \/ Crash(w) \/ Heartbeat(w)
  <2>1. PICK w \in Workers : Step(w) \/ RunFails(w) \/ RunBreaks(w) \/ Crash(w) \/ Heartbeat(w)
    BY <1>3
  <2> DEFINE Moves(s) == pc[w] # "idle" /\ Goto(w, s) /\ s # "idle" /\ task' = task
  <2>m. ASSUME NEW s, Moves(s), beat' = beat PROVE \A v \in Workers : RunStep(v)
    BY <2>m DEF Goto, TypeInv, TypeOK, PresentInv
  <2>r. Reset(w) => \A v \in Workers : RunStep(v)
    BY DEF Reset, TypeInv, TypeOK, PresentInv
  <2>2. CASE RunFails(w) \/ RunBreaks(w) \/ Crash(w) \/ Close(w)
    BY <2>2, <2>m, <2>r DEF RunFails, RunBreaks, Working, Crash, Close
  <2>3. CASE Heartbeat(w)
    BY <2>3 DEF Heartbeat, HeartbeatReads, HeartbeatWrites, TypeInv, TypeOK, PresentInv
  <2>4. CASE RecoverOnly(w) \/ \E t \in Tasks : ClaimCancelled(w, t)
    BY <2>4, <1>u DEF RecoverOnly, ClaimCancelled
  <2>5. ASSUME NEW t \in Tasks, Claim(w, t) PROVE \A v \in Workers : RunStep(v)
    <3>1. row'[t] = Claimed(row[t]) /\ Claimed(row[t]).status # "absent"
      BY <2>5 DEF Claim, Claimed, Recovered, TypeInv, TypeOK, Row
    <3>2. task'[w] = t /\ pc'[w] = "starting"
      BY <2>5 DEF Claim, TypeInv, TypeOK
    <3>3. \A v \in Workers : v # w => pc'[v] = pc[v] /\ task'[v] = task[v]
      BY <2>5 DEF Claim, TypeInv, TypeOK
    <3>4. beat' = beat
      BY <2>5 DEF Claim
    <3>5. QED
      BY <3>1, <3>2, <3>3, <3>4 DEF PresentInv
  <2>6. CASE Load(w)
    BY <2>6 DEF Load, Goto, TypeInv, TypeOK, PresentInv
  <2>7. CASE AllowTool(w) \/ (\E s \in Steps : PersistTool(w, s)) \/ StartAnalysis(w)
             \/ CallModel(w) \/ ModelAnswered(w)
    BY <2>7, <2>m DEF AllowTool, PersistTool, StartAnalysis, CallModel, ModelAnswered
  <2>8. CASE (\E outcome \in Terminal : Finish(w, outcome)) \/ SeeCancel(w) \/ LoseLease(w)
    BY <2>8, <2>m DEF Finish, SeeCancel, CancelDue, LoseLease, LeaseLost
  <2>9. CASE HandlerReads(w) \/ SettleRaises(w)
    BY <2>9, <2>m DEF HandlerReads, SettleRaises
  <2>10. CASE SettleFailed(w) \/ SettleOverwritten(w) \/ SettleCancelled(w) \/ CheckUnexpected(w)
    BY <2>10, <2>m DEF SettleFailed, SettleOverwritten, SettleCancelled, CheckUnexpected, HandlerCommits
  <2>11. QED
    BY <2>1, <2>2, <2>3, <2>4, <2>5, <2>6, <2>7, <2>8, <2>9, <2>10 DEF Step, Run
<1>4. CASE UNCHANGED vars
  BY <1>4, <1>u DEF vars
<1>5. QED
  BY <1>1, <1>2, <1>3, <1>4 DEF Next

LEMMA NextApiStep ==
    ASSUME TypeInv, [Next]_vars, NEW c \in Clients
    PROVE  \/ api'[c] = api[c] \/ api'[c] = ApiIdle
           \/ api'[c].task \in Tasks /\ row' = row /\ row[api'[c].task].status # "absent"
<1>1. CASE \E d \in Clients : CommitCancel(d) \/ \E t \in Tasks : ReadForCancel(d, t)
  BY <1>1 DEF CommitCancel, ReadForCancel, Claimable, Active, TypeInv, TypeOK
<1>2. CASE \E t \in Tasks : Create(t) \/ LeaseExpires(t) \/ LeaseOverrun(t)
  BY <1>2 DEF Create, LeaseExpires, LeaseOverrun
<1>3. ASSUME NEW w \in Workers, Step(w) PROVE api' = api
  <2>1. CASE RecoverOnly(w) \/ (\E t \in Tasks : ClaimCancelled(w, t) \/ Claim(w, t))
             \/ Load(w) \/ AllowTool(w) \/ (\E s \in Steps : PersistTool(w, s))
             \/ StartAnalysis(w) \/ CallModel(w) \/ ModelAnswered(w)
    BY <2>1 DEF RecoverOnly, ClaimCancelled, Claim, Load, AllowTool, PersistTool,
                StartAnalysis, CallModel, ModelAnswered
  <2>2. CASE (\E outcome \in Terminal : Finish(w, outcome)) \/ SeeCancel(w) \/ LoseLease(w)
             \/ HandlerReads(w) \/ SettleRaises(w) \/ Close(w)
    BY <2>2 DEF Finish, SeeCancel, CancelDue, LoseLease, LeaseLost, HandlerReads, SettleRaises, Close
  <2>3. CASE SettleFailed(w) \/ SettleOverwritten(w) \/ SettleCancelled(w) \/ CheckUnexpected(w)
    BY <2>3 DEF SettleFailed, SettleOverwritten, SettleCancelled, CheckUnexpected, HandlerCommits
  <2>4. QED
    BY <1>3, <2>1, <2>2, <2>3 DEF Step, Run
<1>4. ASSUME NEW w \in Workers, RunFails(w) \/ RunBreaks(w) \/ Crash(w) \/ Heartbeat(w)
      PROVE  api' = api
  BY <1>4 DEF RunFails, RunBreaks, Crash, Heartbeat, HeartbeatReads, HeartbeatWrites
<1>5. CASE UNCHANGED vars
  BY <1>5 DEF vars
<1>6. QED
  BY <1>1, <1>2, <1>3, <1>4, <1>5 DEF Next

LEMMA PresentInit == Init => PresentInv
  BY DEF Init, PresentInv, NoRow, NewRow

LEMMA PresentNext == TypeInv /\ PresentInv /\ [Next]_vars => PresentInv'
<1> SUFFICES ASSUME TypeInv, PresentInv, [Next]_vars PROVE PresentInv'
  OBVIOUS
<1>1. \A t \in Tasks : row'[t].status = "absent" => row[t].status = "absent" /\ row'[t] = row[t]
  BY NextRowStep DEF RowStep, Keeps, NewRow
<1>2. \A t \in Tasks : row'[t].status = "absent" => ~row'[t].cancel
  BY <1>1 DEF PresentInv
<1>3. ASSUME NEW w \in Workers, pc'[w] # "idle" PROVE row'[task'[w]].status # "absent"
  BY <1>1, <1>3, NextRunStep DEF RunStep, PresentInv, TypeInv, RunHasTask
<1>4. \A w \in Workers : beat'[w] # "off" => pc'[w] # "idle"
  BY NextRunStep DEF RunStep
<1>5. ASSUME NEW c \in Clients, api'[c] # ApiIdle
      PROVE  api'[c].task \in Tasks /\ row'[api'[c].task].status # "absent"
  BY <1>1, <1>5, NextApiStep DEF PresentInv
<1>6. QED
  BY <1>2, <1>3, <1>4, <1>5 DEF PresentInv, ApiIdle

\* Whatever happens to leases: no step of any worker, of recovery or of the
\* API takes a cancel request back, or starts another attempt at its task.
THEOREM CancelRequestsStick == Spec => CancelSticks
<1>1. Spec => [](TypeInv /\ PresentInv)
  BY InitType, NextType, PresentInit, PresentNext, PTL DEF Spec
<1>2. TypeInv /\ PresentInv /\ [Next]_vars
      => [\A t \in Tasks : row[t].cancel =>
             row'[t].cancel /\ row'[t].attempt = row[t].attempt]_vars
  <2>1. ASSUME TypeInv, PresentInv, [Next]_vars, NEW t \in Tasks, row[t].cancel
        PROVE  row'[t].cancel /\ row'[t].attempt = row[t].attempt
    BY <2>1, NextRowStep DEF RowStep, Keeps, PresentInv
  <2>2. QED
    BY <2>1
<1>3. Spec => [][Next]_vars
  BY PTL DEF Spec
<1>4. QED
  BY <1>1, <1>2, <1>3, PTL DEF CancelSticks
=============================================================================
