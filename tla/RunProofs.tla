------------------------------ MODULE RunProofs ------------------------------
(***************************************************************************)
(* What the runs of Worker leave behind, from the lease invariant and for  *)
(* every value of the constants under which no lease expires under a live  *)
(* run: no completed call is recorded twice, the audit trail follows the   *)
(* rows, Worker implements TaskQueue, and a report is its owner's.         *)
(***************************************************************************)
EXTENDS LeaseProofs

-----------------------------------------------------------------------------
\* Completed calls.  A run that retrieves knows exactly the calls recorded
\* for its task: it loaded them after the claim, and nobody else records any.

DoneIsRecorded ==
    \A w \in Workers :
        pc[w] \in {"retrieving", "calling"} => done[w] = CompletedCalls(task[w])

CallsInv == CallsNotRepeated /\ DoneIsRecorded

\* No call is recorded, and no run enters the retrieval.
LEMMA NoCallRecorded ==
    ASSUME CallsInv, toolRows' = toolRows,
           \A v \in Workers : pc'[v] \in {"retrieving", "calling"} =>
               /\ pc[v] \in {"retrieving", "calling"}
               /\ done'[v] = done[v] /\ task'[v] = task[v]
    PROVE  CallsInv'
  BY DEF CallsInv, CallsNotRepeated, DoneIsRecorded, CompletedCalls

\* A step of the run w to a state outside the retrieval.
LEMMA LeavesRetrieval ==
    ASSUME TypeInv, CallsInv, NEW w \in Workers, NEW state, Goto(w, state),
           state \notin {"retrieving", "calling"},
           toolRows' = toolRows, done' = done, task' = task
    PROVE  CallsInv'
<1>1. \A v \in Workers : pc'[v] = IF v = w THEN state ELSE pc[v]
  BY DEF TypeInv, TypeOK, Goto
<1>2. QED
  BY <1>1, NoCallRecorded

\* The run loads what earlier attempts recorded.
LEMMA LoadCalls == ASSUME TypeInv, CallsInv, NEW w \in Workers, Load(w) PROVE CallsInv'
<1>1. /\ toolRows' = toolRows /\ task' = task
      /\ done'[w] = CompletedCalls(task[w])
      /\ \A v \in Workers : v # w => pc'[v] = pc[v] /\ done'[v] = done[v]
  BY DEF Load, Goto, TypeInv, TypeOK
<1>2. CallsNotRepeated'
  BY <1>1 DEF CallsInv, CallsNotRepeated
<1>3. DoneIsRecorded'
  <2>1. SUFFICES ASSUME NEW v \in Workers, pc'[v] \in {"retrieving", "calling"}
                 PROVE  done'[v] = CompletedCalls(task[v])
    BY <1>1 DEF DoneIsRecorded, CompletedCalls
  <2>2. CASE v = w
    BY <2>2, <1>1
  <2>3. CASE v # w
    BY <2>1, <2>3, <1>1 DEF CallsInv, DoneIsRecorded
  <2>4. QED
    BY <2>2, <2>3
<1>4. QED
  BY <1>2, <1>3 DEF CallsInv

LEMMA AllowToolCalls == ASSUME TypeInv, CallsInv, NEW w \in Workers, AllowTool(w) PROVE CallsInv'
<1>1. /\ toolRows' = toolRows /\ task' = task /\ done' = done
      /\ pc[w] = "retrieving"
      /\ \A v \in Workers : v # w => pc'[v] = pc[v]
  BY DEF AllowTool, Goto, TypeInv, TypeOK
<1>2. QED
  BY <1>1, NoCallRecorded

\* The answer to a step that has no record yet: another run of the same task
\* would have to exist to record it in between.
LEMMA PersistToolCalls ==
    ASSUME TypeInv, LeaseInv, CallsInv, NEW w \in Workers, NEW s \in Steps, PersistTool(w, s)
    PROVE  CallsInv'
<1> DEFINE t == task[w]
<1>1. Executing(w) /\ t \in Tasks
  BY DEF PersistTool, Executing, TypeInv, RunHasTask
<1>2. /\ toolRows \in [Tasks -> [Steps -> Nat]] /\ done \in [Workers -> SUBSET Steps]
      /\ pc \in [Workers -> WorkerStates]
  BY DEF TypeInv, TypeOK
<1>3. /\ toolRows' = [toolRows EXCEPT ![t][s] = toolRows[t][s] + 1]
      /\ done' = [done EXCEPT ![w] = done[w] \cup {s}]
      /\ pc' = [pc EXCEPT ![w] = "retrieving"] /\ task' = task
      /\ s \notin done[w]
  BY DEF PersistTool, Goto, NextStep
<1>4. toolRows[t][s] = 0
  BY <1>1, <1>2, <1>3 DEF PersistTool, CallsInv, DoneIsRecorded, CompletedCalls
<1>5. /\ toolRows'[t][s] = 1
      /\ \A u \in Tasks, r \in Steps : u # t \/ r # s => toolRows'[u][r] = toolRows[u][r]
  BY <1>1, <1>2, <1>3, <1>4
<1>6. CallsNotRepeated'
  BY <1>5 DEF CallsInv, CallsNotRepeated
<1>7. DoneIsRecorded'
  <2>1. SUFFICES ASSUME NEW v \in Workers, pc'[v] \in {"retrieving", "calling"}
                 PROVE  done'[v] = {r \in Steps : toolRows'[task[v]][r] > 0}
    BY <1>3 DEF DoneIsRecorded, CompletedCalls
  <2>2. CASE v = w
    <3>1. done[w] = {r \in Steps : toolRows[t][r] > 0}
      BY DEF PersistTool, CallsInv, DoneIsRecorded, CompletedCalls
    <3>2. done'[w] = done[w] \cup {s}
      BY <1>2, <1>3
    <3>3. \A r \in Steps : toolRows'[t][r] > 0 <=> toolRows[t][r] > 0 \/ r = s
      BY <1>1, <1>5
    <3>4. QED
      BY <2>2, <3>1, <3>2, <3>3
  <2>3. CASE v # w
    <3>1. pc[v] \in {"retrieving", "calling"} /\ done'[v] = done[v]
      BY <2>1, <2>3, <1>2, <1>3
    <3>2. Executing(v) /\ task[v] \in Tasks
      BY <3>1 DEF Executing, TypeInv, RunHasTask
    <3>3. task[v] # t
      BY <2>3, <3>2, <1>1 DEF LeaseInv, ExclusiveExecution
    <3>4. done[v] = {r \in Steps : toolRows[task[v]][r] > 0}
      BY <3>1 DEF CallsInv, DoneIsRecorded, CompletedCalls
    <3>5. QED
      BY <3>1, <3>2, <3>3, <3>4, <1>5
  <2>4. QED
    BY <2>2, <2>3
<1>8. QED
  BY <1>6, <1>7 DEF CallsInv

\* Every other step of a worker records nothing and enters no retrieval.
LEMMA OtherStepsCalls ==
    ASSUME TypeInv, CallsInv, NEW w \in Workers,
           \/ RecoverOnly(w) \/ \E t \in Tasks : ClaimCancelled(w, t) \/ Claim(w, t)
           \/ StartAnalysis(w) \/ CallModel(w) \/ ModelAnswered(w)
           \/ \E outcome \in Terminal : Finish(w, outcome)
           \/ SeeCancel(w) \/ LoseLease(w) \/ RunFails(w) \/ RunBreaks(w)
           \/ HandlerReads(w) \/ SettleFailed(w) \/ SettleOverwritten(w)
           \/ SettleCancelled(w) \/ SettleRaises(w) \/ CheckUnexpected(w)
           \/ Close(w) \/ Crash(w) \/ Heartbeat(w)
    PROVE  CallsInv'
<1>1. CASE RecoverOnly(w) \/ \E t \in Tasks : ClaimCancelled(w, t)
  BY <1>1, NoCallRecorded DEF RecoverOnly, ClaimCancelled, wvars
<1>2. CASE \E t \in Tasks : Claim(w, t)
  <2>1. /\ toolRows' = toolRows /\ done' = done
        /\ \A v \in Workers : pc'[v] = IF v = w THEN "starting" ELSE pc[v]
        /\ \A v \in Workers : v # w => task'[v] = task[v]
    BY <1>2 DEF Claim, TypeInv, TypeOK
  <2>2. QED
    BY <2>1, NoCallRecorded
<1>3. CASE \/ StartAnalysis(w) \/ CallModel(w) \/ ModelAnswered(w)
           \/ \E outcome \in Terminal : Finish(w, outcome)
           \/ SeeCancel(w) \/ LoseLease(w)
  BY <1>3, LeavesRetrieval
     DEF StartAnalysis, CallModel, ModelAnswered, Finish, SeeCancel, CancelDue, LoseLease, LeaseLost
<1>4. CASE RunFails(w) \/ RunBreaks(w) \/ SettleRaises(w)
  BY <1>4, LeavesRetrieval DEF RunFails, RunBreaks, SettleRaises
<1>5. CASE HandlerReads(w)
  <2>1. PICK state \in {"settling", "checking"} : Goto(w, state)
    BY <1>5 DEF HandlerReads
  <2>2. QED
    BY <1>5, <2>1, LeavesRetrieval DEF HandlerReads
<1>6. CASE SettleFailed(w) \/ SettleOverwritten(w) \/ SettleCancelled(w) \/ CheckUnexpected(w)
  BY <1>6, LeavesRetrieval
     DEF SettleFailed, SettleOverwritten, SettleCancelled, CheckUnexpected, HandlerCommits
<1>7. CASE Close(w) \/ Crash(w)
  <2>1. /\ toolRows' = toolRows
        /\ \A v \in Workers : pc'[v] = IF v = w THEN "idle" ELSE pc[v]
        /\ \A v \in Workers : v # w => task'[v] = task[v] /\ done'[v] = done[v]
    BY <1>7 DEF Close, Crash, Reset, TypeInv, TypeOK
  <2>2. QED
    BY <2>1, NoCallRecorded
<1>8. CASE Heartbeat(w)
  BY <1>8, NoCallRecorded DEF Heartbeat, HeartbeatReads, HeartbeatWrites
<1>9. QED
  BY <1>1, <1>2, <1>3, <1>4, <1>5, <1>6, <1>7, <1>8

LEMMA NextCalls ==
    ASSUME TypeInv, LeaseInv, CallsInv, [Next]_vars
    PROVE  CallsInv'
<1>1. CASE \/ \E t \in Tasks : Create(t) \/ LeaseExpires(t) \/ LeaseOverrun(t)
           \/ \E c \in Clients : CommitCancel(c) \/ \E t \in Tasks : ReadForCancel(c, t)
           \/ UNCHANGED vars
  BY <1>1, NoCallRecorded
     DEF Create, LeaseExpires, LeaseOverrun, CommitCancel, ReadForCancel, vars, wvars
<1>2. CASE \E w \in Workers : Step(w) \/ RunFails(w) \/ RunBreaks(w) \/ Crash(w) \/ Heartbeat(w)
  BY <1>2, LoadCalls, AllowToolCalls, PersistToolCalls, OtherStepsCalls DEF Step, Run
<1>3. QED
  BY <1>1, <1>2 DEF Next

LEMMA InitCalls == Init => CallsInv
<1> SUFFICES ASSUME Init PROVE CallsInv
  OBVIOUS
<1>1. \A t \in Tasks, s \in Steps : toolRows[t][s] = 0
  BY DEF Init
<1>2. \A w \in Workers : pc[w] = "idle"
  BY DEF Init
<1>3. QED
  BY <1>1, <1>2 DEF CallsInv, CallsNotRepeated, DoneIsRecorded

\* Recovery reuses completed calls (load_completed_tool_calls, persist_tool_call):
\* over all attempts of a task no retrieval step is recorded as completed twice,
\* while no lease expires under a live run.
THEOREM CompletedCallsAreReused ==
    ASSUME ~LeaseMayExpireUnderOwner
    PROVE  Spec => []CallsNotRepeated
<1>1. Init => CallsInv
  BY InitCalls
<1>2. TypeInv /\ LeaseInv /\ CallsInv /\ [Next]_vars => CallsInv'
  BY NextCalls
<1>3. CallsInv => CallsNotRepeated
  BY DEF CallsInv
<1>4. Spec => []TypeInv
  BY InitType, NextType, PTL DEF Spec
<1>5. QED
  BY <1>1, <1>2, <1>3, <1>4, LeaseInvariant, PTL DEF Spec

-----------------------------------------------------------------------------
\* The audit trail.  Only a failure handler that saw a task neither active
\* nor cancelled writes a status without its event (SettleOverwritten); the
\* row of a live run is always one or the other, and a cancelled row of a live
\* run carries the flag that the handler looks at first.

RunSeesCancel ==
    \A w \in Workers : Executing(w) =>
        /\ \/ row[task[w]].status \in Active
           \/ row[task[w]].status = "cancelled" /\ row[task[w]].cancel
        /\ view[w].cancel => row[task[w]].cancel

SettledCancel ==
    \A w \in Workers :
        pc[w] = "settling" /\ view[w].status \notin Active => view[w].cancel

RequestSeesCancel ==
    \A c \in Clients : api[c] # ApiIdle =>
        /\ api[c].task \in Tasks
        /\ row[api[c].task].status # "absent"
        /\ api[c].view.cancel => row[api[c].task].cancel

AuditInv == AuditFollowsStatus /\ RunSeesCancel /\ SettledCancel /\ RequestSeesCancel

\* A row is recorded with its status, and never loses its cancel flag.
Recorded(t) ==
    /\ audit'[t] = row'[t].status
    /\ row[t].status # "absent" =>
         row'[t].status # "absent" /\ (row[t].cancel => row'[t].cancel)

\* A change of a row under which a run of its task may go on.
Bearable(t) ==
    /\ \/ row'[t].status = row[t].status
       \/ row'[t].status \in Active
       \/ row'[t].status = "cancelled" /\ row'[t].cancel
    /\ row[t].cancel => row'[t].cancel

RunGoesOn(v) ==
    /\ Executing(v) /\ task'[v] = task[v] /\ Bearable(task[v])
    /\ view'[v].cancel => view[v].cancel \/ row'[task[v]].cancel
    /\ pc'[v] = "settling" /\ view'[v].status \notin Active => view'[v].cancel

RunStarts(v) ==
    row'[task'[v]].status \in Active /\ ~view'[v].cancel /\ pc'[v] # "settling"

LEMMA AuditStep ==
    ASSUME AuditInv,
           \A t \in Tasks : Recorded(t),
           \A v \in Workers : Executing(v)' => RunGoesOn(v) \/ RunStarts(v),
           \A c \in Clients : api'[c] \in {api[c], ApiIdle}
    PROVE  AuditInv'
<1>1. AuditFollowsStatus'
  BY DEF Recorded, AuditFollowsStatus
<1>2. RunSeesCancel'
  BY DEF RunGoesOn, RunStarts, Bearable, AuditInv, RunSeesCancel
<1>3. SettledCancel'
  <2>1. \A v \in Workers : pc'[v] = "settling" => Executing(v)'
    BY DEF Executing
  <2>2. QED
    BY <2>1 DEF RunGoesOn, RunStarts, SettledCancel
<1>4. RequestSeesCancel'
  BY DEF Recorded, AuditInv, RequestSeesCancel
<1>5. QED
  BY <1>1, <1>2, <1>3, <1>4 DEF AuditInv

\* No status and no flag changes.
LEMMA QuietAudit ==
    ASSUME AuditInv, audit' = audit,
           \A t \in Tasks : row'[t].status = row[t].status /\ row'[t].cancel = row[t].cancel,
           \A v \in Workers : Executing(v)' =>
               /\ Executing(v) /\ task[v] \in Tasks /\ task'[v] = task[v]
               /\ view'[v].cancel => view[v].cancel \/ row[task[v]].cancel
               /\ pc'[v] = "settling" /\ view'[v].status \notin Active => view'[v].cancel,
           \A c \in Clients : api'[c] = api[c]
    PROVE  AuditInv'
<1>1. \A t \in Tasks : Recorded(t) /\ Bearable(t)
  BY DEF AuditInv, AuditFollowsStatus, Recorded, Bearable
<1>2. QED
  BY <1>1, AuditStep DEF RunGoesOn

LEMMA FlushCancel ==
    ASSUME NEW r, NEW b, NEW c
    PROVE  /\ Flush(r, b, c).status = Column(r.status, b.status, c.status)
           /\ Flush(r, b, c).cancel = Column(r.cancel, b.cancel, c.cancel)
  BY DEF Flush

\* The run w writes the object c, which it loaded as b, and goes to state.
Writes(w, b, c, state) ==
    /\ Executing(w) /\ Goto(w, state) /\ task' = task /\ api' = api
    /\ b \in {Look(w), view[w]}
    /\ row' = [row EXCEPT ![task[w]] = Flush(row[task[w]], b, c)]
    /\ audit' = [audit EXCEPT ![task[w]] = AuditOf(task[w], b, c)]
    /\ view' = [view EXCEPT ![w] = c]
    /\ c \in Row /\ c.status # "absent"
    /\ b.cancel => c.cancel
    /\ state # "closing" => c.status \in Active /\ state # "settling"

LEMMA WriteAudit ==
    ASSUME TypeInv, LeaseInv, AuditInv, NEW w \in Workers, NEW b, NEW c, NEW state,
           Writes(w, b, c, state)
    PROVE  AuditInv'
<1> USE DEF Writes
<1> DEFINE t == task[w]
           r == Flush(row[t], b, c)
<1>1. /\ t \in Tasks /\ row \in [Tasks -> Row] /\ view \in [Workers -> Row]
      /\ audit \in [Tasks -> Statuses] /\ pc \in [Workers -> WorkerStates]
      /\ b \in Row
  BY ExecutorTypes DEF TypeInv, TypeOK
<1>2. b.cancel => row[t].cancel
  BY DEF Look, AuditInv, RunSeesCancel
<1>3. /\ row'[t] = r /\ audit'[t] = AuditOf(t, b, c)
      /\ \A u \in Tasks : u # t => row'[u] = row[u] /\ audit'[u] = audit[u]
  BY <1>1
<1>4. /\ r.status = Column(row[t].status, b.status, c.status)
      /\ r.cancel = Column(row[t].cancel, b.cancel, c.cancel)
  BY FlushCancel
<1> HIDE DEF r
<1>5. row[t].cancel \in BOOLEAN /\ b.cancel \in BOOLEAN /\ c.cancel \in BOOLEAN
  BY <1>1 DEF Row
<1>6. (row[t].cancel => r.cancel) /\ (c.cancel => r.cancel)
  BY <1>2, <1>4, <1>5 DEF Column
<1>7. row[t].status # "absent"
  BY DEF AuditInv, RunSeesCancel, Active
<1>8. \A u \in Tasks : Recorded(u)
  <2>1. SUFFICES ASSUME NEW u \in Tasks PROVE Recorded(u)
    OBVIOUS
  <2>2. CASE u = t
    BY <2>2, <1>3, <1>4, <1>6, <1>7
       DEF Recorded, Column, AuditOf, AuditInv, AuditFollowsStatus
  <2>3. CASE u # t
    BY <2>3, <1>3 DEF Recorded, AuditInv, AuditFollowsStatus
  <2>4. QED
    BY <2>2, <2>3
<1>9. \A v \in Workers : pc'[v] = IF v = w THEN state ELSE pc[v]
  BY <1>1 DEF Goto
<1>10. \A v \in Workers : Executing(v)' => RunGoesOn(v)
  <2>1. SUFFICES ASSUME NEW v \in Workers, Executing(v)' PROVE RunGoesOn(v)
    OBVIOUS
  <2>2. CASE v = w
    <3>1. state # "closing"
      BY <2>1, <2>2, <1>9 DEF Executing
    <3>2. r.status = row[t].status \/ r.status \in Active
      BY <3>1, <1>4 DEF Column
    <3>3. view'[w] = c
      BY <1>1
    <3>4. QED
      BY <2>2, <3>1, <3>2, <3>3, <1>3, <1>6, <1>9 DEF RunGoesOn, Bearable
  <2>3. CASE v # w
    <3>1. Executing(v) /\ pc'[v] = pc[v] /\ view'[v] = view[v]
      BY <2>1, <2>3, <1>1, <1>9 DEF Executing
    <3>2. task[v] # t /\ task[v] \in Tasks
      BY <2>3, <3>1, ExecutorTypes DEF LeaseInv, ExclusiveExecution
    <3>3. QED
      BY <3>1, <3>2, <1>3 DEF RunGoesOn, Bearable, AuditInv, SettledCancel
  <2>4. QED
    BY <2>2, <2>3
<1>11. QED
  BY <1>8, <1>10, AuditStep

\* The objects that the runs write.
LEMMA FinalizedObject ==
    ASSUME NEW b \in Row
    PROVE  LET c == FinalizeCancellation(b)
           IN  /\ c \in Row /\ c.status = "cancelled"
               /\ b.cancel => c.cancel
  BY FinalizeType DEF FinalizeCancellation, ReleaseLease, Row

LEMMA StatusObject ==
    ASSUME NEW b \in Row, NEW s \in Statuses
    PROVE  LET c == [b EXCEPT !.status = s]
           IN  c \in Row /\ c.status = s /\ c.cancel = b.cancel
  BY DEF Row

LEMMA ReportObject ==
    ASSUME NEW b \in Row, NEW s \in Statuses
    PROVE  LET c == [ReleaseLease(b) EXCEPT !.status = s, !.result = "report"]
           IN  c \in Row /\ c.status = s /\ c.cancel = b.cancel
  BY DEF Row, ReleaseLease

LEMMA FailedObject ==
    ASSUME NEW b \in Row
    PROVE  Failed(b) \in Row /\ Failed(b).status = "failed" /\ Failed(b).cancel = b.cancel
  BY FailedType DEF Row, Failed, ReleaseLease

LEMMA NotAbsent ==
    /\ "absent" \notin Active \cup Terminal
    /\ "cancelled" \in Terminal /\ "failed" \in Terminal
    /\ "analyzing" \in Active /\ "reporting" \in Active
    /\ Active \cup Terminal \subseteq Statuses
  BY DEF Active, Terminal, Statuses

LEMMA FinishAudit ==
    ASSUME TypeInv, LeaseInv, AuditInv, NEW w \in Workers,
           NEW outcome \in Terminal, Finish(w, outcome)
    PROVE  AuditInv'
<1> DEFINE b == Look(w)
           c == [ReleaseLease(b) EXCEPT !.status = outcome, !.result = "report"]
<1>1. Executing(w)
  BY DEF Finish, Executing
<1>2. c \in Row /\ c.status # "absent" /\ (b.cancel => c.cancel)
  BY <1>1, ExecutorTypes, ReportObject, NotAbsent
<1>3. Commit(w, c) /\ Goto(w, "closing") /\ task' = task /\ api' = api
  BY DEF Finish
<1> HIDE DEF c
<1>4. Writes(w, b, c, "closing")
  BY <1>1, <1>2, <1>3 DEF Writes, Commit
<1>5. QED
  BY <1>4, WriteAudit

LEMMA StartAnalysisAudit ==
    ASSUME TypeInv, LeaseInv, AuditInv, NEW w \in Workers, StartAnalysis(w)
    PROVE  AuditInv'
<1> DEFINE b == Look(w)
           c == [b EXCEPT !.status = "analyzing"]
<1>1. Executing(w)
  BY DEF StartAnalysis, Executing
<1>2. c \in Row /\ c.status = "analyzing" /\ (b.cancel => c.cancel)
  BY <1>1, ExecutorTypes, StatusObject, NotAbsent
<1>3. Commit(w, c) /\ Goto(w, "analyzing") /\ task' = task /\ api' = api
  BY DEF StartAnalysis
<1> HIDE DEF c
<1>4. Writes(w, b, c, "analyzing")
  BY <1>1, <1>2, <1>3, NotAbsent DEF Writes, Commit
<1>5. QED
  BY <1>4, WriteAudit

LEMMA ModelAnsweredAudit ==
    ASSUME TypeInv, LeaseInv, AuditInv, NEW w \in Workers, ModelAnswered(w)
    PROVE  AuditInv'
<1> DEFINE b == view[w]
           c == [b EXCEPT !.status = "reporting"]
<1>1. Executing(w)
  BY DEF ModelAnswered, Executing
<1>2. b \in Row /\ c \in Row /\ c.status = "reporting" /\ (b.cancel => c.cancel)
  BY <1>1, ExecutorTypes, StatusObject, NotAbsent
<1>3. b.status # "reporting"
  BY <1>2, TransitionMoves DEF ModelAnswered, Row
<1>4. AuditOf(task[w], b, c) = "reporting"
  BY <1>2, <1>3 DEF AuditOf
<1>5. /\ row' = [row EXCEPT ![task[w]] = Flush(row[task[w]], b, c)]
      /\ audit' = [audit EXCEPT ![task[w]] = "reporting"]
      /\ view' = [view EXCEPT ![w] = c]
      /\ Goto(w, "reporting") /\ task' = task /\ api' = api
  BY DEF ModelAnswered
<1> HIDE DEF c
<1>6. Writes(w, b, c, "reporting")
  BY <1>1, <1>2, <1>4, <1>5, NotAbsent DEF Writes
<1>7. QED
  BY <1>6, WriteAudit

LEMMA SeeCancelAudit ==
    ASSUME TypeInv, LeaseInv, AuditInv, NEW w \in Workers, SeeCancel(w)
    PROVE  AuditInv'
<1> DEFINE b == Look(w)
           c == FinalizeCancellation(b)
<1>1. Executing(w)
  BY DEF SeeCancel, CancelDue, Executing
<1>2. c \in Row /\ c.status # "absent" /\ (b.cancel => c.cancel)
  BY <1>1, ExecutorTypes, FinalizedObject
<1>3. Commit(w, c) /\ Goto(w, "closing") /\ task' = task /\ api' = api
  BY DEF SeeCancel, CancelDue
<1> HIDE DEF c
<1>4. Writes(w, b, c, "closing")
  BY <1>1, <1>2, <1>3 DEF Writes, Commit
<1>5. QED
  BY <1>4, WriteAudit

\* A handler whose event is the one its write asks for.
LEMMA HandlerAudit ==
    ASSUME TypeInv, LeaseInv, AuditInv, NEW w \in Workers, Executing(w),
           NEW c \in Row, c.status # "absent", view[w].cancel => c.cancel,
           HandlerCommits(w, c, AuditOf(task[w], view[w], c))
    PROVE  AuditInv'
<1>1. Writes(w, view[w], c, "closing")
  BY DEF Writes, HandlerCommits
<1>2. QED
  BY <1>1, WriteAudit

LEMMA SettleAudit ==
    ASSUME TypeInv, LeaseInv, AuditInv, NEW w \in Workers,
           \/ SettleFailed(w) \/ SettleOverwritten(w) \/ SettleCancelled(w)
           \/ CheckUnexpected(w)
    PROVE  AuditInv'
<1>1. Executing(w)
  BY DEF SettleFailed, SettleOverwritten, SettleCancelled, CheckUnexpected, Executing
<1>2. view[w] \in Row
  BY <1>1, ExecutorTypes
<1>3. CASE SettleFailed(w)
  <2>1. AuditOf(task[w], view[w], Failed(view[w])) = "failed"
    BY <1>2, <1>3, FailedObject DEF SettleFailed, AuditOf, Active
  <2>2. HandlerCommits(w, Failed(view[w]), AuditOf(task[w], view[w], Failed(view[w])))
    BY <1>3, <2>1 DEF SettleFailed
  <2>3. QED
    BY <1>1, <1>2, <2>2, FailedObject, HandlerAudit
<1>4. CASE SettleOverwritten(w)
  BY <1>4 DEF SettleOverwritten, AuditInv, SettledCancel
<1>5. CASE SettleCancelled(w)
  BY <1>1, <1>2, <1>5, FinalizedObject, HandlerAudit DEF SettleCancelled
<1>6. CASE CheckUnexpected(w)
  <2>1. CASE view[w].cancel /\ view[w].status \in Active
    <3>1. AuditOf(task[w], view[w], FinalizeCancellation(view[w])) = "cancelled"
      BY <1>2, <2>1, FinalizedObject DEF AuditOf, Active
    <3>2. HandlerCommits(w, FinalizeCancellation(view[w]),
                         AuditOf(task[w], view[w], FinalizeCancellation(view[w])))
      BY <1>6, <2>1, <3>1 DEF CheckUnexpected
    <3>3. QED
      BY <1>1, <1>2, <3>2, FinalizedObject, HandlerAudit
  <2>2. CASE ~(view[w].cancel /\ view[w].status \in Active)
    <3>1. HandlerCommits(w, view[w], audit[task[w]])
      BY <1>6, <2>2 DEF CheckUnexpected
    <3>2. Flush(row[task[w]], view[w], view[w]).status = row[task[w]].status
          /\ Flush(row[task[w]], view[w], view[w]).cancel = row[task[w]].cancel
      BY FlushCancel DEF Column
    <3>3. \A t \in Tasks : row'[t].status = row[t].status /\ row'[t].cancel = row[t].cancel
      BY <1>1, <3>1, <3>2, ExecutorTypes DEF HandlerCommits
    <3>4. audit' = audit /\ task' = task /\ api' = api /\ view' = view
      BY <1>1, <3>1, ExecutorTypes DEF HandlerCommits, TypeInv, TypeOK
    <3>5. \A v \in Workers : pc'[v] = IF v = w THEN "closing" ELSE pc[v]
      BY <3>1 DEF HandlerCommits, Goto, TypeInv, TypeOK
    <3>6. \A v \in Workers : Executing(v)' =>
               /\ Executing(v) /\ task[v] \in Tasks
               /\ pc'[v] = "settling" /\ view'[v].status \notin Active => view'[v].cancel
      BY <3>4, <3>5, ExecutorTypes DEF Executing, AuditInv, SettledCancel
    <3>7. QED
      BY <3>3, <3>4, <3>6, QuietAudit
  <2>3. QED
    BY <2>1, <2>2
<1>7. QED
  BY <1>3, <1>4, <1>5, <1>6

\* Steps of the run w that change no status and no flag.
LEMMA QuietRunAudit ==
    ASSUME TypeInv, LeaseInv, AuditInv, NEW w \in Workers, NEW state,
           Executing(w), Goto(w, state), task' = task, api' = api, audit' = audit,
           \A t \in Tasks : row'[t].status = row[t].status /\ row'[t].cancel = row[t].cancel,
           \A v \in Workers : v # w => view'[v] = view[v],
           view'[w].cancel => view[w].cancel \/ row[task[w]].cancel,
           state = "settling" /\ view'[w].status \notin Active => view'[w].cancel
    PROVE  AuditInv'
<1>1. \A v \in Workers : pc'[v] = IF v = w THEN state ELSE pc[v]
  BY DEF Goto, TypeInv, TypeOK
<1>2. \A v \in Workers : Executing(v)' =>
               /\ Executing(v) /\ task[v] \in Tasks /\ task'[v] = task[v]
               /\ view'[v].cancel => view[v].cancel \/ row[task[v]].cancel
               /\ pc'[v] = "settling" /\ view'[v].status \notin Active => view'[v].cancel
  <2>1. SUFFICES ASSUME NEW v \in Workers, Executing(v)'
                 PROVE  /\ Executing(v) /\ task[v] \in Tasks /\ task'[v] = task[v]
                        /\ view'[v].cancel => view[v].cancel \/ row[task[v]].cancel
                        /\ pc'[v] = "settling" /\ view'[v].status \notin Active => view'[v].cancel
    OBVIOUS
  <2>2. Executing(v)
    BY <2>1, <1>1 DEF Executing
  <2>3. CASE v = w
    BY <2>2, <2>3, <1>1, ExecutorTypes
  <2>4. CASE v # w
    BY <2>2, <2>4, <1>1, ExecutorTypes DEF AuditInv, SettledCancel
  <2>5. QED
    BY <2>3, <2>4
<1>3. QED
  BY <1>2, QuietAudit

\* A handler reads the row, or keeps the active object of a failed retrieval.
LEMMA HandlerReadsAudit ==
    ASSUME TypeInv, LeaseInv, AuditInv, NEW w \in Workers, HandlerReads(w)
    PROVE  AuditInv'
<1>1. Executing(w)
  BY DEF HandlerReads, Executing
<1>2. PICK state : Goto(w, state) /\ state = IF pc[w] = "failing" THEN "settling" ELSE "checking"
  BY DEF HandlerReads
<1>3. /\ view'[w] = Look(w) /\ \A v \in Workers : v # w => view'[v] = view[v]
      /\ row' = row /\ task' = task /\ api' = api /\ audit' = audit
  BY <1>1, ExecutorTypes DEF HandlerReads
<1>4. view'[w].cancel => view[w].cancel \/ row[task[w]].cancel
  BY <1>3 DEF Look
<1>5. state = "settling" /\ Look(w).status \notin Active => Look(w).cancel
  <2>1. CASE expired[w]
    BY <1>1, <2>1 DEF Look, AuditInv, RunSeesCancel
  <2>2. CASE ~expired[w]
    BY <1>2, <2>2 DEF Look, LeaseInv, CachedView
  <2>3. QED
    BY <2>1, <2>2
<1>6. QED
  BY <1>1, <1>2, <1>3, <1>4, <1>5, QuietRunAudit

LEMMA QuietStagesAudit ==
    ASSUME TypeInv, LeaseInv, AuditInv, NEW w \in Workers,
           \/ Load(w) \/ AllowTool(w) \/ \E s \in Steps : PersistTool(w, s)
           \/ CallModel(w) \/ LoseLease(w) \/ RunFails(w) \/ RunBreaks(w)
           \/ SettleRaises(w)
    PROVE  AuditInv'
<1>1. Executing(w)
  BY DEF Load, AllowTool, PersistTool, CallModel, LoseLease, LeaseLost, RunFails, RunBreaks,
         SettleRaises, Executing, Working
<1>2. /\ task[w] \in Tasks /\ row \in [Tasks -> Row] /\ view \in [Workers -> Row]
      /\ Look(w) \in Row
  BY <1>1, ExecutorTypes
<1>3. Look(w).cancel => view[w].cancel \/ row[task[w]].cancel
  BY DEF Look
<1>4. CASE Load(w) \/ CallModel(w) \/ \E s \in Steps : PersistTool(w, s)
  <2>1. PICK state \in {"retrieving", "thinking"} : Goto(w, state)
    BY <1>4 DEF Load, CallModel, PersistTool
  <2>2. /\ view' = [view EXCEPT ![w] = Look(w)]
        /\ row' = row /\ task' = task /\ api' = api /\ audit' = audit
    BY <1>4 DEF Load, CallModel, PersistTool
  <2>3. QED
    BY <1>1, <1>2, <1>3, <2>1, <2>2, QuietRunAudit
<1>5. CASE AllowTool(w)
  <2>1. /\ row' = [row EXCEPT ![task[w]] = [row[task[w]] EXCEPT !.hb = "fresh"]]
        /\ view' = [view EXCEPT ![w] = [Look(w) EXCEPT !.hb = "fresh"]]
        /\ Goto(w, "calling") /\ task' = task /\ api' = api /\ audit' = audit
    BY <1>5 DEF AllowTool
  <2>2. \A x \in Row : /\ [x EXCEPT !.hb = "fresh"].status = x.status
                       /\ [x EXCEPT !.hb = "fresh"].cancel = x.cancel
    BY DEF Row
  <2>3. \A t \in Tasks : row'[t].status = row[t].status /\ row'[t].cancel = row[t].cancel
    BY <1>2, <2>1, <2>2
  <2>4. /\ view'[w].cancel => view[w].cancel \/ row[task[w]].cancel
        /\ \A v \in Workers : v # w => view'[v] = view[v]
    BY <1>2, <1>3, <2>1, <2>2
  <2>5. QED
    BY <1>1, <2>1, <2>3, <2>4, QuietRunAudit
<1>6. CASE LoseLease(w) \/ RunFails(w) \/ RunBreaks(w) \/ SettleRaises(w)
  <2>1. PICK state \in {"closing", "failing", "unexpected"} : Goto(w, state)
    BY <1>6 DEF LoseLease, LeaseLost, RunFails, RunBreaks, SettleRaises
  <2>2. row' = row /\ task' = task /\ api' = api /\ audit' = audit /\ view' = view
    BY <1>6 DEF LoseLease, LeaseLost, RunFails, RunBreaks, SettleRaises
  <2>3. QED
    BY <1>1, <2>1, <2>2, QuietRunAudit
<1>7. QED
  BY <1>4, <1>5, <1>6

\* The end of a run, the heartbeat thread and time.
LEMMA AsideAudit ==
    ASSUME TypeInv, AuditInv
    PROVE  /\ \A w \in Workers : Close(w) \/ Crash(w) \/ Heartbeat(w) => AuditInv'
           /\ \A t \in Tasks : LeaseExpires(t) \/ LeaseOverrun(t) => AuditInv'
           /\ UNCHANGED vars => AuditInv'
<1>0. /\ row \in [Tasks -> Row]
      /\ \A v \in Workers : Executing(v) => task[v] \in Tasks
  BY DEF TypeInv, TypeOK, RunHasTask, Executing
<1>1. \A x \in Row, h \in {"fresh", "stale"} :
          [x EXCEPT !.hb = h].status = x.status /\ [x EXCEPT !.hb = h].cancel = x.cancel
  BY DEF Row
<1>2. ASSUME NEW w \in Workers, Close(w) \/ Crash(w) PROVE AuditInv'
  <2>1. /\ row' = row /\ audit' = audit /\ api' = api
        /\ \A v \in Workers : pc'[v] = IF v = w THEN "idle" ELSE pc[v]
        /\ \A v \in Workers : v # w => task'[v] = task[v] /\ view'[v] = view[v]
    BY <1>2 DEF Close, Crash, Reset, TypeInv, TypeOK
  <2>2. \A v \in Workers : Executing(v)' => v # w /\ Executing(v) /\ pc'[v] = pc[v]
    BY <2>1 DEF Executing
  <2>3. QED
    BY <1>0, <2>1, <2>2, QuietAudit DEF AuditInv, SettledCancel
<1>3. ASSUME audit' = audit, api' = api, pc' = pc, task' = task, view' = view,
             \A t \in Tasks : row'[t].status = row[t].status /\ row'[t].cancel = row[t].cancel
      PROVE  AuditInv'
  <2>1. \A v \in Workers : Executing(v)' => Executing(v)
    BY <1>3 DEF Executing
  <2>2. QED
    BY <1>0, <1>3, <2>1, QuietAudit DEF AuditInv, SettledCancel
<1>4. ASSUME NEW w \in Workers, Heartbeat(w) PROVE AuditInv'
  <2>1. row' = row \/ row' = [row EXCEPT ![task[w]] = [row[task[w]] EXCEPT !.hb = "fresh"]]
    BY <1>4 DEF Heartbeat, HeartbeatReads, HeartbeatWrites
  <2>2. \A t \in Tasks : row'[t].status = row[t].status /\ row'[t].cancel = row[t].cancel
    <3>1. CASE task[w] \in Tasks
      <4>1. /\ [row[task[w]] EXCEPT !.hb = "fresh"].status = row[task[w]].status
            /\ [row[task[w]] EXCEPT !.hb = "fresh"].cancel = row[task[w]].cancel
        BY <1>0, <1>1, <3>1
      <4>2. QED
        BY <1>0, <2>1, <3>1, <4>1
    <3>2. CASE task[w] \notin Tasks
      BY <1>0, <2>1, <3>2
    <3>3. QED
      BY <3>1, <3>2
  <2>3. QED
    BY <1>3, <1>4, <2>2 DEF Heartbeat, HeartbeatReads, HeartbeatWrites
<1>5. ASSUME NEW t \in Tasks, LeaseExpires(t) \/ LeaseOverrun(t) PROVE AuditInv'
  <2>1. row' = [row EXCEPT ![t] = [row[t] EXCEPT !.hb = "stale"]]
    BY <1>5 DEF LeaseExpires, LeaseOverrun
  <2>2. \A u \in Tasks : row'[u].status = row[u].status /\ row'[u].cancel = row[u].cancel
    BY <1>0, <1>1, <2>1
  <2>3. QED
    BY <1>3, <1>5, <2>2 DEF LeaseExpires, LeaseOverrun, wvars
<1>6. ASSUME UNCHANGED vars PROVE AuditInv'
  BY <1>3, <1>6 DEF vars, wvars
<1>7. QED
  BY <1>2, <1>4, <1>5, <1>6

\* A new task, and the cancel endpoint: it may write over a row that has
\* changed since it was read, but a row it cancels gets the event and the flag.
LEMMA ApiAudit ==
    ASSUME TypeInv, LeaseInv, AuditInv
    PROVE  /\ \A t \in Tasks : Create(t) => AuditInv'
           /\ \A c \in Clients, t \in Tasks : ReadForCancel(c, t) => AuditInv'
           /\ \A c \in Clients : CommitCancel(c) => AuditInv'
<1>0. /\ row \in [Tasks -> Row] /\ audit \in [Tasks -> Statuses]
      /\ \A v \in Workers : Executing(v) => task[v] \in Tasks
  BY DEF TypeInv, TypeOK, RunHasTask, Executing
<1>1. ASSUME NEW t \in Tasks, Create(t) PROVE AuditInv'
  <2>1. PICK r \in {NewRow("created", "none"), NewRow("failed", "failure")} :
          row' = [row EXCEPT ![t] = r] /\ audit' = [audit EXCEPT ![t] = r.status]
    BY <1>1 DEF Create
  <2>2. row[t].status = "absent" /\ r.status # "absent"
    BY <1>1 DEF Create, NewRow
  <2>3. /\ row'[t] = r /\ audit'[t] = r.status
        /\ \A u \in Tasks : u # t => row'[u] = row[u] /\ audit'[u] = audit[u]
    BY <1>0, <2>1
  <2>4. /\ api' = api /\ pc' = pc /\ task' = task /\ view' = view
    BY <1>1 DEF Create, wvars
  <2>5. \A u \in Tasks : Recorded(u)
    BY <2>2, <2>3 DEF Recorded, AuditInv, AuditFollowsStatus
  <2>6. ASSUME NEW v \in Workers, Executing(v)' PROVE RunGoesOn(v)
    <3>1. Executing(v) /\ task[v] \in Tasks
      BY <1>0, <2>4, <2>6 DEF Executing
    <3>2. task[v] # t
      BY <2>2, <3>1, NobodyExecutes
    <3>3. QED
      BY <2>3, <2>4, <3>1, <3>2 DEF RunGoesOn, Bearable, AuditInv, SettledCancel
  <2>7. QED
    BY <2>4, <2>5, <2>6, AuditStep
<1>2. ASSUME NEW c \in Clients, NEW t \in Tasks, ReadForCancel(c, t) PROVE AuditInv'
  <2>1. /\ row' = row /\ audit' = audit /\ pc' = pc /\ task' = task /\ view' = view
        /\ api' = [api EXCEPT ![c] = [task |-> t, view |-> row[t]]]
    BY <1>2 DEF ReadForCancel, wvars
  <2>2. AuditFollowsStatus' /\ RunSeesCancel' /\ SettledCancel'
    BY <2>1 DEF AuditInv, AuditFollowsStatus, RunSeesCancel, SettledCancel, Executing
  <2>3. row[t].status # "absent"
    BY <1>2 DEF ReadForCancel, Claimable, Active
  <2>4. \A d \in Clients : api'[d] = IF d = c THEN [task |-> t, view |-> row[t]] ELSE api[d]
    BY <2>1 DEF TypeInv, TypeOK
  <2>5. RequestSeesCancel'
    BY <2>1, <2>3, <2>4 DEF AuditInv, RequestSeesCancel
  <2>6. QED
    BY <2>2, <2>5 DEF AuditInv
<1>3. ASSUME NEW c \in Clients, CommitCancel(c) PROVE AuditInv'
  <2> DEFINE t == api[c].task
             b == api[c].view
             x == RequestCancellation(b)
             r == Flush(row[t], b, x)
  <2>1. /\ t \in Tasks /\ row[t].status # "absent"
        /\ b.cancel => row[t].cancel
    BY <1>3 DEF CommitCancel, AuditInv, RequestSeesCancel
  <2>2. b \in Row /\ row[t] \in Row
    BY <1>0, <2>1 DEF TypeInv, TypeOK
  <2>3. x.cancel = TRUE /\ x.status \in {b.status, "cancelled"}
    BY <2>2 DEF RequestCancellation, Row
  <2>4. /\ row' = [row EXCEPT ![t] = r]
        /\ audit' = [audit EXCEPT ![t] = AuditOf(t, b, x)]
        /\ api' = [api EXCEPT ![c] = ApiIdle]
        /\ pc' = pc /\ task' = task /\ view' = view
    BY <1>3 DEF CommitCancel, wvars
  <2>5. /\ r.status = Column(row[t].status, b.status, x.status)
        /\ r.cancel = Column(row[t].cancel, b.cancel, x.cancel)
    BY FlushCancel
  <2> HIDE DEF x
  <2> HIDE DEF r
  <2>6. r.cancel
    BY <2>1, <2>2, <2>3, <2>5 DEF Column, Row
  <2>7. /\ r.status = row[t].status \/ r.status = "cancelled"
        /\ AuditOf(t, b, x) = r.status
    BY <2>1, <2>3, <2>5 DEF Column, AuditOf, AuditInv, AuditFollowsStatus
  <2>8. /\ row'[t] = r /\ audit'[t] = r.status
        /\ \A u \in Tasks : u # t => row'[u] = row[u] /\ audit'[u] = audit[u]
    BY <1>0, <2>1, <2>4, <2>7
  <2>9. \A u \in Tasks : Recorded(u) /\ Bearable(u)
    BY <2>1, <2>6, <2>7, <2>8 DEF Recorded, Bearable, AuditInv, AuditFollowsStatus
  <2>10. \A v \in Workers : Executing(v)' => RunGoesOn(v)
    BY <1>0, <2>4, <2>9 DEF Executing, RunGoesOn, AuditInv, SettledCancel
  <2>11. \A d \in Clients : api'[d] \in {api[d], ApiIdle}
    BY <2>4 DEF TypeInv, TypeOK
  <2>12. QED
    BY <2>9, <2>10, <2>11, AuditStep
<1>4. QED
  BY <1>1, <1>2, <1>3

\* Recovery, with its event for every row it resets, and the claim.
LEMMA ClaimAudit ==
    ASSUME TypeInv, LeaseInv, AuditInv, NEW w \in Workers,
           RecoverOnly(w) \/ \E t \in Tasks : ClaimCancelled(w, t) \/ Claim(w, t)
    PROVE  AuditInv'
<1>1. /\ row \in [Tasks -> Row] /\ Recovered \in [Tasks -> Row]
      /\ RecoveryAudit \in [Tasks -> Statuses]
      /\ \A v \in Workers : Executing(v) => task[v] \in Tasks
  BY RecoveredType DEF TypeInv, TypeOK, RunHasTask, Executing
<1>2. \A u \in Tasks :
          /\ RecoveryAudit[u] = Recovered[u].status
          /\ Recovered[u].cancel = row[u].cancel
          /\ Recovered[u].status # "absent" \/ row[u].status = "absent"
          /\ Recovered[u] = row[u] \/ Stale(u)
  <2>1. SUFFICES ASSUME NEW u \in Tasks
                 PROVE  /\ RecoveryAudit[u] = Recovered[u].status
                        /\ Recovered[u].cancel = row[u].cancel
                        /\ Recovered[u].status # "absent" \/ row[u].status = "absent"
                        /\ Recovered[u] = row[u] \/ Stale(u)
    OBVIOUS
  <2>2. CASE Stale(u)
    <3>1. LET x == [ReleaseLease(row[u]) EXCEPT !.status = "created"]
          IN  x.status = "created" /\ x.cancel = row[u].cancel
      BY <1>1 DEF ReleaseLease, Row
    <3>2. QED
      BY <2>2, <3>1 DEF Recovered, RecoveryAudit
  <2>3. CASE ~Stale(u)
    BY <2>3 DEF Recovered, RecoveryAudit, AuditInv, AuditFollowsStatus
  <2>4. QED
    BY <2>2, <2>3
<1>3. \A v \in Workers : Executing(v) => Recovered[task[v]] = row[task[v]]
  BY <1>1, <1>2, NobodyExecutes
<1>4. CASE RecoverOnly(w)
  <2>1. /\ row' = Recovered /\ audit' = RecoveryAudit
        /\ api' = api /\ pc' = pc /\ task' = task /\ view' = view
    BY <1>4 DEF RecoverOnly, wvars
  <2>2. \A u \in Tasks : Recorded(u)
    BY <1>2, <2>1 DEF Recorded
  <2>3. \A v \in Workers : Executing(v)' => RunGoesOn(v)
    BY <1>3, <2>1 DEF Executing, RunGoesOn, Bearable, AuditInv, SettledCancel
  <2>4. QED
    BY <2>1, <2>2, <2>3, AuditStep
<1>5. ASSUME NEW t \in Tasks, row[t].status = "created", NEW x \in Row, NEW e,
             x.status = e, e # "absent", row[t].cancel => x.cancel,
             row' = [Recovered EXCEPT ![t] = x],
             audit' = [RecoveryAudit EXCEPT ![t] = e], api' = api
      PROVE  /\ \A u \in Tasks : Recorded(u)
             /\ row'[t] = x
             /\ \A v \in Workers : Executing(v) => Bearable(task[v])
  <2>1. /\ row'[t] = x /\ audit'[t] = e
        /\ \A u \in Tasks : u # t => row'[u] = Recovered[u] /\ audit'[u] = RecoveryAudit[u]
    BY <1>1, <1>5
  <2>2. \A u \in Tasks : Recorded(u)
    BY <1>2, <1>5, <2>1 DEF Recorded
  <2>3. \A v \in Workers : Executing(v) => task[v] # t
    BY <1>5, NobodyExecutes DEF Claimable
  <2>4. QED
    BY <1>1, <1>3, <2>1, <2>2, <2>3 DEF Bearable
<1>6. CASE \E t \in Tasks : ClaimCancelled(w, t)
  <2>1. PICK t \in Tasks : ClaimCancelled(w, t)
    BY <1>6
  <2>2. row[t].status = "created" /\ row[t] \in Row
    BY <1>1, <2>1 DEF ClaimCancelled, Oldest, Candidates, Claimable
  <2>3. /\ FinalizeCancellation(row[t]) \in Row
        /\ FinalizeCancellation(row[t]).status = "cancelled"
        /\ row[t].cancel => FinalizeCancellation(row[t]).cancel
    BY <2>2, FinalizedObject
  <2>4. /\ row' = [Recovered EXCEPT ![t] = FinalizeCancellation(row[t])]
        /\ audit' = [RecoveryAudit EXCEPT ![t] = "cancelled"]
        /\ api' = api /\ pc' = pc /\ task' = task /\ view' = view
    BY <2>1 DEF ClaimCancelled, wvars
  <2>5. /\ \A u \in Tasks : Recorded(u)
        /\ \A v \in Workers : Executing(v) => Bearable(task[v])
    BY <1>5, <2>2, <2>3, <2>4
  <2>6. \A v \in Workers : Executing(v)' => RunGoesOn(v)
    BY <2>4, <2>5 DEF Executing, RunGoesOn, AuditInv, SettledCancel
  <2>7. QED
    BY <2>4, <2>5, <2>6, AuditStep
<1>7. CASE \E t \in Tasks : Claim(w, t)
  <2>1. PICK t \in Tasks : Claim(w, t)
    BY <1>7
  <2>2. row[t].status = "created" /\ row[t] \in Row /\ ~row[t].cancel
    BY <1>1, <2>1 DEF Claim, Oldest, Candidates, Claimable
  <2>3. /\ Claimed(row[t]) \in Row
        /\ Claimed(row[t]).status = "discovering"
        /\ Claimed(row[t]).cancel = row[t].cancel
    BY <2>2, ClaimedType DEF Claimed, Row
  <2>4. /\ row' = [Recovered EXCEPT ![t] = Claimed(row[t])]
        /\ audit' = [RecoveryAudit EXCEPT ![t] = "discovering"]
        /\ api' = api
        /\ view' = [view EXCEPT ![w] = Claimed(row[t])]
        /\ pc' = [pc EXCEPT ![w] = "starting"] /\ task' = [task EXCEPT ![w] = t]
    BY <2>1 DEF Claim
  <2>5. /\ \A u \in Tasks : Recorded(u)
        /\ row'[t] = Claimed(row[t])
        /\ \A v \in Workers : Executing(v) => Bearable(task[v])
    BY <1>5, <2>2, <2>3, <2>4
  <2>6. /\ view'[w] = Claimed(row[t]) /\ pc'[w] = "starting" /\ task'[w] = t
        /\ \A v \in Workers : v # w =>
               view'[v] = view[v] /\ pc'[v] = pc[v] /\ task'[v] = task[v]
    BY <2>4 DEF TypeInv, TypeOK
  <2>7. RunStarts(w)
    BY <2>2, <2>3, <2>5, <2>6 DEF RunStarts, Active
  <2>8. \A v \in Workers : v # w /\ Executing(v)' => RunGoesOn(v)
    BY <2>5, <2>6 DEF Executing, RunGoesOn, AuditInv, SettledCancel
  <2>9. QED
    BY <2>4, <2>5, <2>7, <2>8, AuditStep
<1>8. QED
  BY <1>4, <1>6, <1>7

LEMMA NextAudit ==
    ASSUME TypeInv, LeaseInv, AuditInv, [Next]_vars
    PROVE  AuditInv'
<1>1. CASE \/ \E t \in Tasks : Create(t) \/ LeaseExpires(t) \/ LeaseOverrun(t)
           \/ \E c \in Clients : CommitCancel(c) \/ \E t \in Tasks : ReadForCancel(c, t)
           \/ UNCHANGED vars
  BY <1>1, ApiAudit, AsideAudit
<1>2. CASE \E w \in Workers : Step(w) \/ RunFails(w) \/ RunBreaks(w) \/ Crash(w) \/ Heartbeat(w)
  BY <1>2, ClaimAudit, QuietStagesAudit, StartAnalysisAudit, ModelAnsweredAudit, FinishAudit,
     SeeCancelAudit, HandlerReadsAudit, SettleAudit, AsideAudit DEF Step, Run
<1>3. QED
  BY <1>1, <1>2 DEF Next

LEMMA InitAudit == Init => AuditInv
<1> SUFFICES ASSUME Init PROVE AuditInv
  OBVIOUS
<1>1. \A t \in Tasks : row[t].status = "absent" /\ audit[t] = "absent"
  BY DEF Init, NoRow, NewRow
<1>2. \A w \in Workers : pc[w] = "idle" /\ ~Executing(w)
  BY DEF Init, Executing
<1>3. \A c \in Clients : api[c] = ApiIdle
  BY DEF Init
<1>4. QED
  BY <1>1, <1>2, <1>3
     DEF AuditInv, AuditFollowsStatus, RunSeesCancel, SettledCancel, RequestSeesCancel

\* The last task_status_changed event of a task names the status of its row
\* (transition_task, finalize_task_cancellation, recover_stale_tasks): the
\* handler's direct assignment of failed is never reached with a row whose
\* status it would change in silence, while no lease expires under a live run.
THEOREM TrailFollowsRows ==
    ASSUME ~LeaseMayExpireUnderOwner
    PROVE  Spec => []AuditFollowsStatus
<1>1. Init => AuditInv
  BY InitAudit
<1>2. TypeInv /\ LeaseInv /\ AuditInv /\ [Next]_vars => AuditInv'
  BY NextAudit
<1>3. AuditInv => AuditFollowsStatus
  BY DEF AuditInv
<1>4. Spec => []TypeInv
  BY InitType, NextType, PTL DEF Spec
<1>5. QED
  BY <1>1, <1>2, <1>3, <1>4, LeaseInvariant, PTL DEF Spec

-----------------------------------------------------------------------------
\* Worker implements TaskQueue.  The holders of a task are the runs that
\* execute it; a step of Worker takes a task (a claim), gives it up, publishes
\* its report or changes nothing the queue can see.

\* The values that Worker gives the variables of TaskQueue.
Holders == [t \in Tasks |-> {w \in Workers : Executing(w) /\ task[w] = t}]
Reported == [t \in Tasks |-> published[t] # {}]

QueueStep == [Queue!Next]_<<Holders, Reported>>

\* The runs in execution stay, and so does what is published.
LEMMA QueueStutters ==
    ASSUME \A v \in Workers : /\ Executing(v)' <=> Executing(v)
                              /\ Executing(v) => task'[v] = task[v],
           published' = published
    PROVE  QueueStep
<1>1. Holders' = Holders /\ Reported' = Reported
  BY DEF Holders, Reported
<1>2. QED
  BY <1>1 DEF QueueStep

\* The run w, alone on its task, stops executing it.
LEMMA HolderLeaves ==
    ASSUME TypeInv, LeaseInv, NEW w \in Workers, Executing(w), ~Executing(w)',
           \A v \in Workers : v # w => /\ Executing(v)' <=> Executing(v)
                                       /\ Executing(v) => task'[v] = task[v]
    PROVE  /\ task[w] \in Tasks
           /\ Holders[task[w]] = {w}
           /\ Holders' = [Holders EXCEPT ![task[w]] = {}]
<1> DEFINE t == task[w]
<1>1. t \in Tasks
  BY ExecutorTypes
<1>2. \A v \in Workers : Executing(v) /\ task[v] = t => v = w
  BY DEF LeaseInv, ExclusiveExecution
<1>3. {v \in Workers : Executing(v) /\ task[v] = t} = {w}
  BY <1>2
<1>4. \A v \in Workers : ~(Executing(v)' /\ task'[v] = t)
  BY <1>2
<1>5. \A u \in Tasks : u # t =>
          {v \in Workers : Executing(v)' /\ task'[v] = u} = {v \in Workers : Executing(v) /\ task[v] = u}
  OBVIOUS
<1>6. Holders[t] = {w} /\ Holders \in [Tasks -> SUBSET Workers]
  BY <1>1, <1>3 DEF Holders
<1>7. Holders' = [u \in Tasks |-> {v \in Workers : Executing(v)' /\ task'[v] = u}]
  BY DEF Holders
<1>8. [Holders EXCEPT ![t] = {}] =
          [u \in Tasks |-> {v \in Workers : Executing(v)' /\ task'[v] = u}]
  BY <1>1, <1>4, <1>5 DEF Holders
<1>9. QED
  BY <1>1, <1>6, <1>7, <1>8

LEMMA QueueGivesUp ==
    ASSUME TypeInv, LeaseInv, NEW w \in Workers, Executing(w), ~Executing(w)',
           \A v \in Workers : v # w => /\ Executing(v)' <=> Executing(v)
                                       /\ Executing(v) => task'[v] = task[v],
           published' = published
    PROVE  QueueStep
<1>1. PICK t \in Tasks : t = task[w]
  BY HolderLeaves
<1>2. /\ Holders[t] = {w}
      /\ Holders' = [Holders EXCEPT ![t] = {}]
  BY <1>1, HolderLeaves
<1>3. Reported' = Reported
  BY DEF Reported
<1>4. Queue!GiveUp(w, t)
  BY <1>2, <1>3 DEF Queue!GiveUp, Holders, Reported
<1>5. Queue!Next
  BY <1>4 DEF Queue!Next
<1>6. QED
  BY <1>5 DEF QueueStep

\* A run publishes its report and stops executing.
LEMMA QueuePublishes ==
    ASSUME TypeInv, LeaseInv, NEW w \in Workers, NEW outcome \in Terminal, Finish(w, outcome)
    PROVE  QueueStep
<1>1. Executing(w) /\ pc \in [Workers -> WorkerStates]
  BY DEF Finish, Executing, TypeInv, TypeOK
<1>2. /\ ~Executing(w)'
      /\ \A v \in Workers : v # w => /\ Executing(v)' <=> Executing(v)
                                     /\ Executing(v) => task'[v] = task[v]
  BY <1>1 DEF Finish, Goto, Executing
<1>3. PICK t \in Tasks : t = task[w]
  BY <1>1, ExecutorTypes
<1>4. /\ Holders[t] = {w}
      /\ Holders' = [Holders EXCEPT ![t] = {}]
  BY <1>1, <1>2, <1>3, HolderLeaves
<1>5. /\ published \in [Tasks -> SUBSET Nat] /\ published[t] = {}
      /\ published' = [published EXCEPT ![t] = {lease[w]}]
  BY <1>1, <1>3, ExecutorTypes, ExecutorRow DEF Finish
<1>6. Reported[t] = FALSE /\ Reported' = [Reported EXCEPT ![t] = TRUE]
  BY <1>5 DEF Reported
<1>7. Queue!Publish(w, t)
  BY <1>4, <1>6 DEF Queue!Publish, Holders, Reported
<1>8. Queue!Next
  BY <1>7 DEF Queue!Next
<1>9. QED
  BY <1>8 DEF QueueStep

\* A claim: nobody executes a created task, and it has no report.
LEMMA QueueTakes ==
    ASSUME TypeInv, LeaseInv, NEW w \in Workers, NEW t \in Tasks, Claim(w, t)
    PROVE  QueueStep
<1>1. /\ ~Executing(w) /\ row[t].status = "created"
      /\ pc \in [Workers -> WorkerStates] /\ task \in [Workers -> 0..NumTasks]
  BY DEF Claim, Executing, Oldest, Candidates, Claimable, TypeInv, TypeOK
<1>2. \A v \in Workers : Executing(v) => task[v] # t
  BY <1>1, NobodyExecutes DEF Claimable
<1>3. published[t] = {}
  BY <1>1 DEF LeaseInv, OpenHasNoResult, Terminal
<1>4. /\ Executing(w)' /\ task'[w] = t
      /\ \A v \in Workers : v # w => (Executing(v)' <=> Executing(v)) /\ task'[v] = task[v]
  BY <1>1 DEF Claim, Executing
<1>5. /\ Holders[t] = {}
      /\ \A u \in Tasks : w \notin Holders[u]
  BY <1>1, <1>2 DEF Holders
<1>6. Holders' = [Holders EXCEPT ![t] = {w}]
  <2>1. {v \in Workers : Executing(v)' /\ task'[v] = t} = {w}
    BY <1>2, <1>4
  <2>2. \A u \in Tasks : u # t =>
          {v \in Workers : Executing(v)' /\ task'[v] = u} = {v \in Workers : Executing(v) /\ task[v] = u}
    BY <1>1, <1>4
  <2>3. Holders' = [u \in Tasks |-> {v \in Workers : Executing(v)' /\ task'[v] = u}]
    BY DEF Holders
  <2>4. [Holders EXCEPT ![t] = {w}] =
          [u \in Tasks |-> {v \in Workers : Executing(v)' /\ task'[v] = u}]
    BY <2>1, <2>2 DEF Holders
  <2>5. QED
    BY <2>3, <2>4
<1>7. Reported[t] = FALSE /\ Reported' = Reported
  BY <1>3 DEF Reported, Claim
<1>8. Queue!Take(w, t)
  BY <1>5, <1>6, <1>7 DEF Queue!Take, Holders, Reported
<1>9. Queue!Next
  BY <1>8 DEF Queue!Next
<1>10. QED
  BY <1>9 DEF QueueStep

\* A stage of the run w that ends in state: it goes on, or gives the task up.
LEMMA QueueStage ==
    ASSUME TypeInv, LeaseInv, NEW w \in Workers, NEW state, Executing(w), Goto(w, state),
           task' = task, published' = published, state # "idle"
    PROVE  QueueStep
<1>1. \A v \in Workers : pc'[v] = IF v = w THEN state ELSE pc[v]
  BY DEF Goto, TypeInv, TypeOK
<1>2. \A v \in Workers : v # w => (Executing(v)' <=> Executing(v))
  BY <1>1 DEF Executing
<1>3. CASE state = "closing"
  <2>1. ~Executing(w)'
    BY <1>1, <1>3 DEF Executing
  <2>2. QED
    BY <1>2, <2>1, QueueGivesUp
<1>4. CASE state # "closing"
  <2>1. \A v \in Workers : Executing(v)' <=> Executing(v)
    BY <1>1, <1>2, <1>4 DEF Executing
  <2>2. QED
    BY <2>1, QueueStutters
<1>5. QED
  BY <1>3, <1>4

LEMMA QueueReset ==
    ASSUME TypeInv, LeaseInv, NEW w \in Workers, Reset(w), published' = published
    PROVE  QueueStep
<1>1. /\ pc'[w] = "idle"
      /\ \A v \in Workers : v # w => pc'[v] = pc[v] /\ task'[v] = task[v]
  BY DEF Reset, TypeInv, TypeOK
<1>2. /\ ~Executing(w)'
      /\ \A v \in Workers : v # w => (Executing(v)' <=> Executing(v)) /\ task'[v] = task[v]
  BY <1>1 DEF Executing
<1>3. CASE Executing(w)
  BY <1>2, <1>3, QueueGivesUp
<1>4. CASE ~Executing(w)
  <2>1. \A v \in Workers : /\ Executing(v)' <=> Executing(v)
                           /\ Executing(v) => task'[v] = task[v]
    BY <1>2, <1>4
  <2>2. QED
    BY <2>1, QueueStutters
<1>5. QED
  BY <1>3, <1>4

\* The queue sees a step of a worker as one of its own, or not at all.
LEMMA QueueSeesStep ==
    ASSUME TypeInv, LeaseInv, NEW w \in Workers,
           Step(w) \/ RunFails(w) \/ RunBreaks(w) \/ Crash(w) \/ Heartbeat(w)
    PROVE  QueueStep
<1>1. CASE \/ Load(w) \/ AllowTool(w) \/ StartAnalysis(w) \/ CallModel(w)
           \/ ModelAnswered(w) \/ LoseLease(w) \/ SettleRaises(w)
  <2>1. /\ Executing(w) /\ task' = task /\ published' = published
        /\ \E state \in WorkerStates \ {"idle"} : Goto(w, state)
    BY <1>1 DEF Load, AllowTool, StartAnalysis, CallModel, ModelAnswered, LoseLease, LeaseLost,
       SettleRaises, Executing, WorkerStates
  <2>2. QED
    BY <2>1, QueueStage
<1>2. CASE SeeCancel(w) \/ \E s \in Steps : PersistTool(w, s)
  <2>1. /\ Executing(w) /\ task' = task /\ published' = published
        /\ \E state \in WorkerStates \ {"idle"} : Goto(w, state)
    BY <1>2 DEF SeeCancel, CancelDue, PersistTool, Executing, WorkerStates
  <2>2. QED
    BY <2>1, QueueStage
<1>3. CASE RunFails(w) \/ RunBreaks(w) \/ HandlerReads(w)
  <2>1. /\ Executing(w) /\ task' = task /\ published' = published
    BY <1>3 DEF RunFails, RunBreaks, HandlerReads, Working, Executing
  <2>2. \E state \in WorkerStates \ {"idle"} : Goto(w, state)
    BY <1>3 DEF RunFails, RunBreaks, HandlerReads, WorkerStates
  <2>3. QED
    BY <2>1, <2>2, QueueStage
<1>4. CASE \/ SettleFailed(w) \/ SettleOverwritten(w) \/ SettleCancelled(w)
           \/ CheckUnexpected(w)
  <2>1. /\ Executing(w) /\ task' = task /\ published' = published /\ Goto(w, "closing")
    BY <1>4 DEF SettleFailed, SettleOverwritten, SettleCancelled, CheckUnexpected,
       HandlerCommits, Executing
  <2>2. QED
    BY <2>1, QueueStage
<1>5. CASE \E outcome \in Terminal : Finish(w, outcome)
  BY <1>5, QueuePublishes
<1>6. CASE Close(w) \/ Crash(w)
  BY <1>6, QueueReset DEF Close, Crash
<1>7. CASE \E t \in Tasks : Claim(w, t)
  BY <1>7, QueueTakes
<1>8. CASE RecoverOnly(w) \/ (\E t \in Tasks : ClaimCancelled(w, t)) \/ Heartbeat(w)
  <2>1. pc' = pc /\ task' = task /\ published' = published
    BY <1>8 DEF RecoverOnly, ClaimCancelled, wvars, Heartbeat, HeartbeatReads, HeartbeatWrites
  <2>2. QED
    BY <2>1, QueueStutters DEF Executing
<1>9. QED
  BY <1>1, <1>2, <1>3, <1>4, <1>5, <1>6, <1>7, <1>8 DEF Step, Run

LEMMA NextQueue ==
    ASSUME TypeInv, LeaseInv, [Next]_vars
    PROVE  [Queue!Next]_<<Holders, Reported>>
<1>1. CASE \/ \E t \in Tasks : Create(t) \/ LeaseExpires(t) \/ LeaseOverrun(t)
           \/ \E c \in Clients : CommitCancel(c) \/ \E t \in Tasks : ReadForCancel(c, t)
           \/ UNCHANGED vars
  <2>1. pc' = pc /\ task' = task /\ published' = published
    BY <1>1 DEF Create, LeaseExpires, LeaseOverrun, CommitCancel, ReadForCancel, vars, wvars
  <2>2. QueueStep
    BY <2>1, QueueStutters DEF Executing
  <2>3. QED
    BY <2>2 DEF QueueStep
<1>2. CASE \E w \in Workers : Step(w) \/ RunFails(w) \/ RunBreaks(w) \/ Crash(w) \/ Heartbeat(w)
  BY <1>2, QueueSeesStep DEF QueueStep
<1>3. QED
  BY <1>1, <1>2 DEF Next

LEMMA InitQueue == Init => Queue!Init
<1> SUFFICES ASSUME Init PROVE Queue!Init
  OBVIOUS
<1>1. \A w \in Workers : ~Executing(w)
  BY DEF Init, Executing
<1>2. \A t \in Tasks : {w \in Workers : Executing(w) /\ task[w] = t} = {}
  BY <1>1
<1>3. \A t \in Tasks : published[t] = {}
  BY DEF Init
<1>4. Holders = [t \in Tasks |-> {}] /\ Reported = [t \in Tasks |-> FALSE]
  BY <1>2, <1>3 DEF Holders, Reported
<1>5. QED
  BY <1>4 DEF Queue!Init, Holders, Reported

\* The workers together keep the promise of the queue: one holder per task,
\* and one report, published by the holder, that ends the task, while no lease
\* expires under a live run.
THEOREM WorkerImplementsTaskQueue ==
    ASSUME ~LeaseMayExpireUnderOwner
    PROVE  Spec => ImplementsTaskQueue
<1>1. Init => Queue!Init
  BY InitQueue
<1>2. TypeInv /\ LeaseInv /\ [Next]_vars =>
        [Queue!Next]_<<[t \in Tasks |-> {w \in Workers : Executing(w) /\ task[w] = t}],
                       [t \in Tasks |-> published[t] # {}]>>
  BY NextQueue DEF Holders, Reported
<1>3. Spec => []TypeInv
  BY InitType, NextType, PTL DEF Spec
<1>4. QED
  BY <1>1, <1>2, <1>3, LeaseInvariant, PTL DEF Spec, ImplementsTaskQueue, Queue!Spec

-----------------------------------------------------------------------------
\* Reports.

Owned == \A t \in Tasks : \A a \in published'[t] \ published[t] : row[t].owner = a

LEMMA FinishIsOwned ==
    ASSUME TypeInv, NEW w \in Workers, NEW outcome, Finish(w, outcome),
           row[task[w]].owner = lease[w]
    PROVE  Owned
<1>1. published' = [published EXCEPT ![task[w]] = @ \cup {lease[w]}]
  BY DEF Finish
<1>2. ASSUME NEW t \in Tasks, NEW a \in published'[t] \ published[t] PROVE row[t].owner = a
  <2>1. published \in [Tasks -> SUBSET Nat]
    BY DEF TypeInv, TypeOK
  <2>2. t = task[w] /\ a = lease[w]
    BY <1>1, <1>2, <2>1
  <2>3. QED
    BY <2>2
<1>3. QED
  BY <1>2 DEF Owned

\* Findings are persisted by Finish alone.
LEMMA OnlyFinishPublishes ==
    ASSUME [Next]_vars, ~Owned
    PROVE  \E w \in Workers, outcome \in Terminal : Finish(w, outcome)
<1>1. published' # published
  BY DEF Owned
<1>2. CASE \/ \E t \in Tasks : Create(t) \/ LeaseExpires(t) \/ LeaseOverrun(t)
           \/ \E c \in Clients : CommitCancel(c) \/ \E t \in Tasks : ReadForCancel(c, t)
           \/ UNCHANGED vars
  BY <1>1, <1>2 DEF Create, LeaseExpires, LeaseOverrun, CommitCancel, ReadForCancel, vars
<1>3. CASE \E w \in Workers : RunFails(w) \/ RunBreaks(w) \/ Crash(w) \/ Heartbeat(w)
  BY <1>1, <1>3 DEF RunFails, RunBreaks, Crash, Heartbeat, HeartbeatReads, HeartbeatWrites
<1>4. CASE \E w \in Workers : Step(w)
  <2>1. PICK w \in Workers : Step(w)
    BY <1>4
  <2>2. /\ ~RecoverOnly(w) /\ \A t \in Tasks : ~ClaimCancelled(w, t) /\ ~Claim(w, t)
        /\ ~Load(w) /\ ~AllowTool(w) /\ \A s \in Steps : ~PersistTool(w, s)
        /\ ~StartAnalysis(w) /\ ~CallModel(w) /\ ~ModelAnswered(w) /\ ~SeeCancel(w)
        /\ ~LoseLease(w) /\ ~HandlerReads(w) /\ ~SettleFailed(w) /\ ~SettleOverwritten(w)
        /\ ~SettleCancelled(w) /\ ~SettleRaises(w) /\ ~CheckUnexpected(w) /\ ~Close(w)
    BY <1>1 DEF RecoverOnly, ClaimCancelled, Claim, Load,
       AllowTool, PersistTool, StartAnalysis, CallModel, ModelAnswered, SeeCancel, LoseLease,
       HandlerReads, SettleFailed, SettleOverwritten, SettleCancelled, SettleRaises,
       CheckUnexpected, HandlerCommits, Close
  <2>3. \E outcome \in Terminal : Finish(w, outcome)
    BY <2>1, <2>2 DEF Step, Run
  <2>4. QED
    BY <2>3
<1>5. QED
  BY <1>2, <1>3, <1>4 DEF Next

\* A run that holds its lease persists findings only as the attempt that owns
\* the row.
LEMMA NextIsOwned ==
    ASSUME TypeInv, LeaseInv, [Next]_vars
    PROVE  Owned
<1>1. ASSUME NEW w \in Workers, NEW outcome \in Terminal, Finish(w, outcome) PROVE Owned
  <2>1. Executing(w)
    BY <1>1 DEF Finish, Executing
  <2>2. row[task[w]].owner = lease[w]
    BY <2>1 DEF LeaseInv, ExecutorHoldsLease
  <2>3. QED
    BY <1>1, <2>2, FinishIsOwned
<1>2. QED
  BY <1>1, OnlyFinishPublishes

\* Only the attempt that owns a row persists its findings, although the worker
\* compares an owner it read long ago, while no lease expires under a live run.
THEOREM ReportsAreOwned ==
    ASSUME ~LeaseMayExpireUnderOwner
    PROVE  Spec => ReportOnlyByOwner
<1>1. Spec => []TypeInv
  BY InitType, NextType, PTL DEF Spec
<1>2. Spec => []LeaseInv
  BY LeaseInvariant
<1>3. TypeInv /\ LeaseInv /\ [Next]_vars => Owned
  BY NextIsOwned
<1>4. QED
  BY <1>1, <1>2, <1>3, PTL DEF Spec, ReportOnlyByOwner, Owned
=============================================================================
