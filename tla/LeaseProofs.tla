----------------------------- MODULE LeaseProofs -----------------------------
(***************************************************************************)
(* The lease invariant of Worker, for every number of workers, cancel      *)
(* clients, tasks, steps and faults, and for both values of                *)
(* expire_on_commit: while no lease expires under a live run, a run in     *)
(* execution owns its row, alone.                                          *)
(*                                                                         *)
(* A step of the run w changes the row of its own task at most.  It either *)
(* goes on with the row still leased (GoesOn), ends (Ends), or is a write  *)
(* from outside (OutsideKeepsLease) or to a row nobody executes (FreeRows);*)
(* one lemma each carries the invariant over, and one lemma per action     *)
(* shows which of the four it is.                                          *)
(***************************************************************************)
EXTENDS WorkerProofs

-----------------------------------------------------------------------------
\* The lease invariant.  A step of the run w leaves the rows of other tasks
\* and the other runs alone; it either goes on or ends the run.

\* The run goes on (or gives up) with its row still leased and unanswered.
GoesOn(w, state, r) ==
    /\ Executing(w) /\ Goto(w, state) /\ state \in WorkerStates
    /\ r \in Row /\ row' = [row EXCEPT ![task[w]] = r]
    /\ r.owner = row[task[w]].owner
    /\ r.hb \in {row[task[w]].hb, "fresh"}
    /\ r.status = row[task[w]].status \/ r.status \in Active
    /\ r.result = row[task[w]].result
    /\ published' = published /\ task' = task /\ lease' = lease
    /\ \A v \in Workers : v # w => view'[v] = view[v] /\ expired'[v] = expired[v]
    /\ view'[w].result = "none"
    /\ state = "settling" /\ view'[w].status \notin Active => r.status \notin Active
    /\ (\/ state \in {"starting", "retrieving", "calling"}
        \/ state = "failing" /\ ~expired'[w]) => view'[w].status \in Active
    /\ expired'[w] => state \in {"failing", "unexpected"}

LEMMA ProgressKeepsLease ==
    ASSUME TypeInv, LeaseInv, NEW w \in Workers, NEW state, NEW r, GoesOn(w, state, r)
    PROVE  LeaseInv'
<1> USE DEF GoesOn
<1> DEFINE t == task[w]
<1>1. t \in Tasks /\ row \in [Tasks -> Row] /\ pc \in [Workers -> WorkerStates]
  BY DEF TypeInv, TypeOK, RunHasTask, Executing
<1>2. /\ row'[t] = r
      /\ \A u \in Tasks : u # t => row'[u] = row[u]
  BY <1>1
<1>3. /\ pc'[w] = state
      /\ \A v \in Workers : v # w => pc'[v] = pc[v]
  BY <1>1 DEF Goto
<1>4. \A v \in Workers : v # w /\ Executing(v) => task[v] # t /\ task[v] \in Tasks
  BY DEF LeaseInv, ExclusiveExecution, TypeInv, RunHasTask, Executing
<1>5. \A v \in Workers : v # w => (Executing(v)' <=> Executing(v))
  BY <1>3 DEF Executing
<1>6. /\ row[t].owner = lease[w] /\ row[t].hb = "fresh"
      /\ row[t].status \notin {"absent", "created"}
      /\ row[t].result = "none" /\ published[t] = {}
  BY DEF LeaseInv, ExecutorHoldsLease, RowOfExecutor
<1>7. ExecutorHoldsLease'
  BY <1>2, <1>4, <1>5, <1>6 DEF LeaseInv, ExecutorHoldsLease
<1>8. ExclusiveExecution'
  BY <1>4, <1>5 DEF LeaseInv, ExclusiveExecution
<1>9. RowOfExecutor'
  BY <1>2, <1>4, <1>5, <1>6 DEF LeaseInv, RowOfExecutor, Active
<1>10. OpenHasNoResult'
  BY <1>1, <1>2, <1>6 DEF LeaseInv, OpenHasNoResult
<1>11. ActiveIsRecoverable'
  BY <1>1, <1>2, <1>6 DEF LeaseInv, ActiveIsRecoverable
<1>12. FindingsOnce'
  BY <1>1, <1>2, <1>6 DEF LeaseInv, FindingsOnce
<1>13. SettledView'
  <2>1. SUFFICES ASSUME NEW v \in Workers, pc'[v] = "settling", view'[v].status \notin Active
                 PROVE  row'[task'[v]].status \notin Active
    BY DEF SettledView
  <2>2. CASE v = w
    BY <2>1, <2>2, <1>2, <1>3
  <2>3. CASE v # w
    BY <2>1, <2>3, <1>2, <1>3, <1>4 DEF LeaseInv, SettledView, Executing
  <2>4. QED
    BY <2>2, <2>3
<1>14. CachedView'
  BY <1>3 DEF LeaseInv, CachedView
<1>15. ExpiredInHandler'
  BY <1>3 DEF LeaseInv, ExpiredInHandler
<1>16. QED
  BY <1>7, <1>8, <1>9, <1>10, <1>11, <1>12, <1>13, <1>14, <1>15 DEF LeaseInv

\* The run ends with the row answered, released or left as it is.
Ends(w, r, reports) ==
    /\ Executing(w) /\ Goto(w, "closing")
    /\ r \in Row /\ row' = [row EXCEPT ![task[w]] = r]
    /\ reports \in SUBSET Nat /\ published' = [published EXCEPT ![task[w]] = reports]
    /\ r.status \in Active => r.hb # "none"
    /\ r.status \notin Terminal => r.result = "none" /\ reports = {}
    /\ \A a, b \in reports : a = b
    /\ reports # {} => r.result = "report"
    /\ task' = task /\ lease' = lease /\ expired' = expired
    /\ ~expired[w]
    /\ \A v \in Workers : v # w => view'[v] = view[v]

LEMMA EndingKeepsLease ==
    ASSUME TypeInv, LeaseInv, NEW w \in Workers, NEW r, NEW reports, Ends(w, r, reports)
    PROVE  LeaseInv'
<1> USE DEF Ends
<1> DEFINE t == task[w]
<1>1. /\ t \in Tasks /\ row \in [Tasks -> Row] /\ pc \in [Workers -> WorkerStates]
      /\ published \in [Tasks -> SUBSET Nat]
  BY DEF TypeInv, TypeOK, RunHasTask, Executing
<1>2. /\ row'[t] = r /\ published'[t] = reports
      /\ \A u \in Tasks : u # t => row'[u] = row[u] /\ published'[u] = published[u]
  BY <1>1
<1>3. /\ pc'[w] = "closing"
      /\ \A v \in Workers : v # w => pc'[v] = pc[v]
  BY <1>1 DEF Goto
<1>4. \A v \in Workers : v # w /\ Executing(v) => task[v] # t /\ task[v] \in Tasks
  BY DEF LeaseInv, ExclusiveExecution, TypeInv, RunHasTask, Executing
<1>5. /\ \A v \in Workers : v # w => (Executing(v)' <=> Executing(v))
      /\ ~Executing(w)'
  BY <1>3 DEF Executing
<1>7. ExecutorHoldsLease'
  BY <1>2, <1>4, <1>5 DEF LeaseInv, ExecutorHoldsLease
<1>8. ExclusiveExecution'
  BY <1>5 DEF LeaseInv, ExclusiveExecution
<1>9. RowOfExecutor'
  BY <1>2, <1>4, <1>5 DEF LeaseInv, RowOfExecutor
<1>10. OpenHasNoResult'
  BY <1>1, <1>2 DEF LeaseInv, OpenHasNoResult
<1>11. ActiveIsRecoverable'
  BY <1>1, <1>2 DEF LeaseInv, ActiveIsRecoverable
<1>12. FindingsOnce'
  BY <1>1, <1>2 DEF LeaseInv, FindingsOnce
<1>13. SettledView'
  BY <1>2, <1>3, <1>4 DEF LeaseInv, SettledView, Executing
<1>14. CachedView'
  BY <1>3 DEF LeaseInv, CachedView
<1>15. ExpiredInHandler'
  BY <1>3 DEF LeaseInv, ExpiredInHandler
<1>16. QED
  BY <1>7, <1>8, <1>9, <1>10, <1>11, <1>12, <1>13, <1>14, <1>15 DEF LeaseInv

\* A write from outside the runs: a cancel request or a heartbeat.
LEMMA OutsideKeepsLease ==
    ASSUME TypeInv, LeaseInv, NEW t \in Tasks,
           NEW r \in Row, row' = [row EXCEPT ![t] = r],
           r.owner = row[t].owner,
           r.hb \in {row[t].hb, "fresh"},
           r.status \in {row[t].status, "cancelled"},
           r.result = row[t].result,
           published' = published, pc' = pc, task' = task, lease' = lease,
           view' = view, expired' = expired
    PROVE  LeaseInv'
<1>1. row \in [Tasks -> Row]
  BY DEF TypeInv, TypeOK
<1>2. /\ row'[t] = r
      /\ \A u \in Tasks : u # t => row'[u] = row[u]
  BY <1>1
<1>3. \A v \in Workers : (Executing(v)' <=> Executing(v)) /\ (Executing(v) => task[v] \in Tasks)
  BY DEF Executing, TypeInv, RunHasTask
<1>4. "cancelled" \notin Active /\ "cancelled" \in Terminal
  BY DEF Active, Terminal
<1>7. ExecutorHoldsLease'
  BY <1>2, <1>3 DEF LeaseInv, ExecutorHoldsLease
<1>8. ExclusiveExecution'
  BY <1>3 DEF LeaseInv, ExclusiveExecution
<1>9. RowOfExecutor'
  BY <1>2, <1>3 DEF LeaseInv, RowOfExecutor
<1>10. OpenHasNoResult'
  BY <1>1, <1>2, <1>4 DEF LeaseInv, OpenHasNoResult
<1>11. ActiveIsRecoverable'
  BY <1>1, <1>2, <1>4 DEF LeaseInv, ActiveIsRecoverable
<1>12. FindingsOnce'
  BY <1>1, <1>2 DEF LeaseInv, FindingsOnce
<1>13. SettledView'
  BY <1>2, <1>3, <1>4 DEF LeaseInv, SettledView, Executing
<1>14. CachedView'
  BY DEF LeaseInv, CachedView
<1>15. ExpiredInHandler'
  BY DEF LeaseInv, ExpiredInHandler
<1>16. QED
  BY <1>7, <1>8, <1>9, <1>10, <1>11, <1>12, <1>13, <1>14, <1>15 DEF LeaseInv

-----------------------------------------------------------------------------
\* The fields the operators on rows leave alone.

LEMMA FlushFields ==
    ASSUME NEW r \in Row, NEW b \in Row, NEW c \in Row
    PROVE  /\ Flush(r, b, c) \in Row
           /\ Flush(r, b, c).status = Column(r.status, b.status, c.status)
           /\ Flush(r, b, c).owner = Column(r.owner, b.owner, c.owner)
           /\ Flush(r, b, c).hb = Column(r.hb, b.hb, c.hb)
           /\ Flush(r, b, c).result = Column(r.result, b.result, c.result)
  BY FlushType DEF Flush

LEMMA StatusFields ==
    ASSUME NEW r \in Row, NEW s \in Statuses
    PROVE  LET x == [r EXCEPT !.status = s]
           IN  /\ x \in Row /\ x.status = s
               /\ x.owner = r.owner /\ x.hb = r.hb /\ x.result = r.result
  BY DEF Row

LEMMA HeartbeatFields ==
    ASSUME NEW r \in Row, NEW h \in {"none", "fresh", "stale"}
    PROVE  LET x == [r EXCEPT !.hb = h]
           IN  /\ x \in Row /\ x.hb = h
               /\ x.owner = r.owner /\ x.status = r.status /\ x.result = r.result
  BY DEF Row

LEMMA ReportFields ==
    ASSUME NEW r \in Row, NEW s \in Statuses
    PROVE  LET x == [ReleaseLease(r) EXCEPT !.status = s, !.result = "report"]
           IN  x \in Row /\ x.status = s /\ x.result = "report"
  BY DEF Row, ReleaseLease

LEMMA FailedFields ==
    ASSUME NEW r \in Row
    PROVE  Failed(r) \in Row /\ Failed(r).status = "failed" /\ Failed(r).result = "failure"
  BY FailedType DEF Row, Failed, ReleaseLease

LEMMA FinalizeFields ==
    ASSUME NEW r \in Row
    PROVE  LET x == FinalizeCancellation(r)
           IN  /\ x \in Row /\ x.status = "cancelled" /\ x.result = r.result
               /\ r.status = "cancelled" => x = r
  BY FinalizeType DEF Row, FinalizeCancellation, ReleaseLease

-----------------------------------------------------------------------------
\* What a run in execution knows about its row and its view.

LEMMA ExecutorTypes ==
    ASSUME TypeInv, NEW w \in Workers, Executing(w)
    PROVE  /\ task[w] \in Tasks
           /\ row[task[w]] \in Row /\ Look(w) \in Row /\ view[w] \in Row
           /\ row \in [Tasks -> Row] /\ view \in [Workers -> Row]
           /\ expired \in [Workers -> BOOLEAN] /\ published \in [Tasks -> SUBSET Nat]
           /\ lease[w] \in Nat
<1>1. pc[w] # "idle"
  BY DEF Executing
<1>2. Look(w) \in Row
  BY <1>1, LookType
<1>3. task[w] \in Tasks
  BY <1>1 DEF TypeInv, RunHasTask
<1>4. QED
  BY <1>2, <1>3 DEF TypeInv, TypeOK

LEMMA ExecutorRow ==
    ASSUME LeaseInv, NEW w \in Workers, Executing(w)
    PROVE  /\ row[task[w]].hb = "fresh"
           /\ row[task[w]].result = "none"
           /\ row[task[w]].status \notin {"absent", "created"}
           /\ published[task[w]] = {}
           /\ Look(w).result = "none" /\ view[w].result = "none"
  BY DEF LeaseInv, ExecutorHoldsLease, RowOfExecutor, Look

LEMMA WorkingFacts ==
    ASSUME LeaseInv, NEW w \in Workers, Working(w)
    PROVE  Executing(w) /\ ~expired[w]
  BY DEF LeaseInv, ExpiredInHandler, Working, Executing

\* A transition changes the status, and none leaves a terminal one.
LEMMA TransitionMoves ==
    ASSUME NEW s \in Statuses, NEW u \in AllowedTransitions[s]
    PROVE  u # s /\ s \notin Terminal
<1>1. AllowedTransitions[s] =
        (CASE s = "created"     -> {"discovering", "cancelled"}
           [] s = "discovering" -> {"analyzing", "failed", "cancelled"}
           [] s = "analyzing"   -> {"reporting", "failed", "cancelled"}
           [] s = "reporting"   -> {"completed", "failed", "cancelled"}
           [] OTHER             -> {})
  BY DEF AllowedTransitions
<1>2. QED
  BY <1>1 DEF Statuses, Claimable, Active, Terminal

LEMMA StateNames ==
    /\ {"idle", "starting", "retrieving", "calling", "analyzing", "thinking", "reporting",
        "failing", "settling", "unexpected", "checking", "closing"} = WorkerStates
    /\ Active \subseteq Statuses /\ Terminal \subseteq Statuses
    /\ "analyzing" \in Active /\ "reporting" \in Active /\ "discovering" \in Active
    /\ Active \cap Terminal = {}
    /\ "cancelled" \in Terminal /\ "failed" \in Terminal
  BY DEF WorkerStates, Active, Terminal, Statuses

\* A step of the run that leaves the table alone.
LEMMA QuietStep ==
    ASSUME TypeInv, LeaseInv, NEW w \in Workers, NEW state \in WorkerStates,
           Executing(w), Goto(w, state), row' = row,
           published' = published, task' = task, lease' = lease,
           \A v \in Workers : v # w => view'[v] = view[v] /\ expired'[v] = expired[v],
           view'[w].result = "none",
           state = "settling" /\ view'[w].status \notin Active
               => row[task[w]].status \notin Active,
           (\/ state \in {"starting", "retrieving", "calling"}
            \/ state = "failing" /\ ~expired'[w]) => view'[w].status \in Active,
           expired'[w] => state \in {"failing", "unexpected"}
    PROVE  LeaseInv'
<1>1. row' = [row EXCEPT ![task[w]] = row[task[w]]] /\ row[task[w]] \in Row
  BY ExecutorTypes
<1>2. GoesOn(w, state, row[task[w]])
  BY <1>1 DEF GoesOn
<1>3. QED
  BY <1>2, ProgressKeepsLease

LEMMA LoadLease == ASSUME TypeInv, LeaseInv, NEW w \in Workers, Load(w) PROVE LeaseInv'
<1>1. Working(w)
  BY DEF Load, Working
<1>2. Executing(w) /\ ~expired[w]
  BY <1>1, WorkingFacts
<1>3. /\ view'[w] = Look(w)
      /\ \A v \in Workers : v # w => view'[v] = view[v]
  BY <1>2, ExecutorTypes DEF Load
<1>4. Look(w).result = "none"
  BY <1>2, ExecutorRow
<1>5. Look(w).status \in Active
  BY <1>2 DEF Load, Look, LeaseInv, CachedView
<1>6. Goto(w, "retrieving") /\ "retrieving" \in WorkerStates
  BY DEF Load, WorkerStates
<1>7. row' = row /\ published' = published /\ task' = task /\ lease' = lease /\ expired' = expired
  BY DEF Load
<1>8. QED
  BY <1>2, <1>3, <1>4, <1>5, <1>6, <1>7, QuietStep

LEMMA AllowToolLease == ASSUME TypeInv, LeaseInv, NEW w \in Workers, AllowTool(w) PROVE LeaseInv'
<1> DEFINE r == [row[task[w]] EXCEPT !.hb = "fresh"]
           x == [Look(w) EXCEPT !.hb = "fresh"]
<1>1. Executing(w) /\ ~expired[w]
  BY WorkingFacts DEF AllowTool, Working
<1>2. /\ r \in Row /\ r.owner = row[task[w]].owner /\ r.hb = "fresh"
      /\ r.status = row[task[w]].status /\ r.result = row[task[w]].result
  BY <1>1, ExecutorTypes, HeartbeatFields
<1>3. x.status = Look(w).status /\ x.result = Look(w).result
  BY <1>1, ExecutorTypes, HeartbeatFields
<1>4. Look(w).status \in Active /\ Look(w).result = "none"
  BY <1>1, ExecutorRow DEF AllowTool, HoldsLease
<1>5. row' = [row EXCEPT ![task[w]] = r]
  BY DEF AllowTool
<1>6. view'[w] = x /\ \A v \in Workers : v # w => view'[v] = view[v]
  BY <1>1, ExecutorTypes DEF AllowTool
<1>7. Goto(w, "calling") /\ "calling" \in WorkerStates
  BY DEF AllowTool, WorkerStates
<1>8. published' = published /\ task' = task /\ lease' = lease /\ expired' = expired
  BY DEF AllowTool
<1> HIDE DEF r, x
<1>9. GoesOn(w, "calling", r)
  BY <1>1, <1>2, <1>3, <1>4, <1>5, <1>6, <1>7, <1>8 DEF GoesOn
<1>10. QED
  BY <1>9, ProgressKeepsLease

LEMMA PersistToolLease ==
    ASSUME TypeInv, LeaseInv, NEW w \in Workers, NEW s \in Steps, PersistTool(w, s)
    PROVE  LeaseInv'
<1>1. Executing(w) /\ ~expired[w]
  BY WorkingFacts DEF PersistTool, Working
<1>2. view'[w] = Look(w) /\ \A v \in Workers : v # w => view'[v] = view[v]
  BY <1>1, ExecutorTypes DEF PersistTool
<1>3. Look(w).result = "none" /\ Look(w).status \in Active
  BY <1>1, ExecutorRow DEF PersistTool, HoldsLease
<1>4. Goto(w, "retrieving") /\ "retrieving" \in WorkerStates
  BY DEF PersistTool, WorkerStates
<1>5. row' = row /\ published' = published /\ task' = task /\ lease' = lease /\ expired' = expired
  BY DEF PersistTool
<1>6. QED
  BY <1>1, <1>2, <1>3, <1>4, <1>5, QuietStep

\* A transition of the run, written over its row.
LEMMA TransitionStep ==
    ASSUME TypeInv, LeaseInv, NEW w \in Workers, Executing(w), ~expired[w],
           NEW b \in Row, b.result = "none",
           NEW s \in Active, NEW state \in {"analyzing", "reporting"}, Goto(w, state),
           row' = [row EXCEPT ![task[w]] = Flush(row[task[w]], b, [b EXCEPT !.status = s])],
           view' = [view EXCEPT ![w] = [b EXCEPT !.status = s]],
           published' = published, task' = task, lease' = lease, expired' = expired
    PROVE  LeaseInv'
<1> DEFINE x == [b EXCEPT !.status = s]
           r == Flush(row[task[w]], b, x)
<1>1. /\ x \in Row /\ x.status = s /\ x.result = "none"
      /\ x.owner = b.owner /\ x.hb = b.hb
  BY StatusFields, StateNames
<1>2. row[task[w]] \in Row /\ row[task[w]].result = "none"
  BY ExecutorTypes, ExecutorRow
<1> HIDE DEF x
<1>3. /\ r \in Row
      /\ r.status = Column(row[task[w]].status, b.status, x.status)
      /\ r.owner = Column(row[task[w]].owner, b.owner, x.owner)
      /\ r.hb = Column(row[task[w]].hb, b.hb, x.hb)
      /\ r.result = Column(row[task[w]].result, b.result, x.result)
  BY <1>1, <1>2, FlushFields
<1>4. /\ r.owner = row[task[w]].owner /\ r.hb = row[task[w]].hb
      /\ r.status = row[task[w]].status \/ r.status \in Active
      /\ r.result = row[task[w]].result
  BY <1>1, <1>2, <1>3 DEF Column
<1>5. row' = [row EXCEPT ![task[w]] = r]
  BY DEF x
<1>6. view'[w] = x /\ \A v \in Workers : v # w => view'[v] = view[v]
  BY ExecutorTypes DEF x
<1>7. state \in WorkerStates
  BY DEF WorkerStates
<1> HIDE DEF r
<1>8. GoesOn(w, state, r)
  BY <1>1, <1>3, <1>4, <1>5, <1>6, <1>7 DEF GoesOn
<1>9. QED
  BY <1>8, ProgressKeepsLease

LEMMA StartAnalysisLease ==
    ASSUME TypeInv, LeaseInv, NEW w \in Workers, StartAnalysis(w) PROVE LeaseInv'
<1>1. Executing(w) /\ ~expired[w]
  BY WorkingFacts DEF StartAnalysis, Working
<1>2. Look(w) \in Row /\ Look(w).result = "none" /\ "analyzing" \in Active
  BY <1>1, ExecutorTypes, ExecutorRow, StateNames
<1>3. /\ row' = [row EXCEPT ![task[w]] =
                    Flush(row[task[w]], Look(w), [Look(w) EXCEPT !.status = "analyzing"])]
      /\ view' = [view EXCEPT ![w] = [Look(w) EXCEPT !.status = "analyzing"]]
  BY DEF StartAnalysis, Commit
<1>4. /\ Goto(w, "analyzing") /\ published' = published /\ task' = task
      /\ lease' = lease /\ expired' = expired
  BY DEF StartAnalysis
<1>5. QED
  BY <1>1, <1>2, <1>3, <1>4, TransitionStep

LEMMA ModelAnsweredLease ==
    ASSUME TypeInv, LeaseInv, NEW w \in Workers, ModelAnswered(w) PROVE LeaseInv'
<1>1. Executing(w) /\ ~expired[w]
  BY WorkingFacts DEF ModelAnswered, Working
<1>2. view[w] \in Row /\ view[w].result = "none" /\ "reporting" \in Active
  BY <1>1, ExecutorTypes, ExecutorRow, StateNames
<1>3. /\ row' = [row EXCEPT ![task[w]] =
                    Flush(row[task[w]], view[w], [view[w] EXCEPT !.status = "reporting"])]
      /\ view' = [view EXCEPT ![w] = [view[w] EXCEPT !.status = "reporting"]]
  BY DEF ModelAnswered
<1>4. /\ Goto(w, "reporting") /\ published' = published /\ task' = task
      /\ lease' = lease /\ expired' = expired
  BY DEF ModelAnswered
<1>5. QED
  BY <1>1, <1>2, <1>3, <1>4, TransitionStep

LEMMA CallModelLease == ASSUME TypeInv, LeaseInv, NEW w \in Workers, CallModel(w) PROVE LeaseInv'
<1>1. Executing(w) /\ ~expired[w]
  BY WorkingFacts DEF CallModel, Working
<1>2. view'[w] = Look(w) /\ \A v \in Workers : v # w => view'[v] = view[v]
  BY <1>1, ExecutorTypes DEF CallModel
<1>3. Look(w).result = "none"
  BY <1>1, ExecutorRow
<1>4. Goto(w, "thinking") /\ "thinking" \in WorkerStates
  BY DEF CallModel, WorkerStates
<1>5. row' = row /\ published' = published /\ task' = task /\ lease' = lease /\ expired' = expired
  BY DEF CallModel
<1>6. QED
  BY <1>1, <1>2, <1>3, <1>4, <1>5, QuietStep

LEMMA FinishLease ==
    ASSUME TypeInv, LeaseInv, NEW w \in Workers, NEW outcome \in Terminal, Finish(w, outcome)
    PROVE  LeaseInv'
<1> DEFINE t == task[w]
           x == [ReleaseLease(Look(w)) EXCEPT !.status = outcome, !.result = "report"]
           r == Flush(row[t], Look(w), x)
           reports == published[t] \cup {lease[w]}
<1>1. Executing(w) /\ ~expired[w]
  BY WorkingFacts DEF Finish, Working
<1>2. /\ t \in Tasks /\ Look(w) \in Row /\ row[t] \in Row
      /\ lease[w] \in Nat /\ Look(w).result = "none" /\ published[t] = {}
  BY <1>1, ExecutorTypes, ExecutorRow
<1>3. outcome # Look(w).status
  BY <1>2, TransitionMoves DEF Finish, Row
<1>4. x \in Row /\ x.status = outcome /\ x.result = "report"
  BY <1>2, ReportFields, StateNames
<1>5. /\ row' = [row EXCEPT ![t] = r] /\ published' = [published EXCEPT ![t] = reports]
      /\ \A v \in Workers : v # w => view'[v] = view[v]
  BY <1>1, ExecutorTypes DEF Finish, Commit
<1> HIDE DEF x
<1>6. /\ r \in Row /\ r.status = Column(row[t].status, Look(w).status, x.status)
      /\ r.result = Column(row[t].result, Look(w).result, x.result)
  BY <1>2, <1>4, FlushFields
<1>7. r.status = outcome /\ r.result = "report"
  BY <1>2, <1>3, <1>4, <1>6 DEF Column
<1>8. reports = {lease[w]} /\ reports \in SUBSET Nat
  BY <1>2
<1>9. /\ Goto(w, "closing") /\ task' = task /\ lease' = lease /\ expired' = expired
  BY DEF Finish
<1> HIDE DEF r, reports
<1>10. r.status \in Terminal /\ r.status \notin Active
  BY <1>7, StateNames
<1>11. Ends(w, r, reports)
  BY <1>1, <1>5, <1>6, <1>7, <1>8, <1>9, <1>10 DEF Ends
<1>12. QED
  BY <1>11, EndingKeepsLease

\* A commit that finalizes the cancellation of the object seen as b.
LEMMA FinalizeStep ==
    ASSUME TypeInv, LeaseInv, NEW w \in Workers, Executing(w), ~expired[w],
           NEW b \in Row, b.result = "none", Goto(w, "closing"),
           row' = [row EXCEPT ![task[w]] = Flush(row[task[w]], b, FinalizeCancellation(b))],
           \A v \in Workers : v # w => view'[v] = view[v],
           published' = published, task' = task, lease' = lease, expired' = expired
    PROVE  LeaseInv'
<1> DEFINE t == task[w]
           x == FinalizeCancellation(b)
           r == Flush(row[t], b, x)
<1>1. /\ x \in Row /\ x.status = "cancelled" /\ x.result = "none"
      /\ b.status = "cancelled" => x = b
  BY FinalizeFields
<1>2. /\ t \in Tasks /\ row[t] \in Row /\ row[t].result = "none" /\ row[t].hb = "fresh"
      /\ published \in [Tasks -> SUBSET Nat] /\ published[t] = {}
  BY ExecutorTypes, ExecutorRow
<1> HIDE DEF x
<1>3. /\ r \in Row /\ r.status = Column(row[t].status, b.status, x.status)
      /\ r.hb = Column(row[t].hb, b.hb, x.hb)
      /\ r.result = Column(row[t].result, b.result, x.result)
  BY <1>1, <1>2, FlushFields
<1>4. r.result = "none" /\ (r.status = "cancelled" \/ r.hb = "fresh")
  BY <1>1, <1>2, <1>3 DEF Column
<1>5. row' = [row EXCEPT ![t] = r]
  BY DEF x
<1>6. published' = [published EXCEPT ![t] = {}] /\ {} \in SUBSET Nat
  BY <1>2
<1> HIDE DEF r
<1>7. Ends(w, r, {})
  BY <1>2, <1>3, <1>4, <1>5, <1>6, StateNames DEF Ends
<1>8. QED
  BY <1>7, EndingKeepsLease

LEMMA SeeCancelLease == ASSUME TypeInv, LeaseInv, NEW w \in Workers, SeeCancel(w) PROVE LeaseInv'
<1>1. Executing(w) /\ ~expired[w]
  BY WorkingFacts DEF SeeCancel, CancelDue, Working
<1>2. Look(w) \in Row /\ Look(w).result = "none"
  BY <1>1, ExecutorTypes, ExecutorRow
<1>3. /\ row' = [row EXCEPT ![task[w]] =
                    Flush(row[task[w]], Look(w), FinalizeCancellation(Look(w)))]
      /\ \A v \in Workers : v # w => view'[v] = view[v]
  BY <1>1, ExecutorTypes DEF SeeCancel, CancelDue, Commit
<1>4. /\ Goto(w, "closing") /\ published' = published /\ task' = task
      /\ lease' = lease /\ expired' = expired
  BY DEF SeeCancel, CancelDue
<1>5. QED
  BY <1>1, <1>2, <1>3, <1>4, FinalizeStep

LEMMA LoseLeaseLease == ASSUME TypeInv, LeaseInv, NEW w \in Workers, LoseLease(w) PROVE LeaseInv'
<1>1. Executing(w) /\ ~expired[w]
  BY WorkingFacts DEF LoseLease, LeaseLost, Working
<1>2. view' = view /\ view[w].result = "none"
  BY <1>1, ExecutorRow DEF LoseLease, LeaseLost
<1>3. Goto(w, "closing") /\ "closing" \in WorkerStates
  BY DEF LoseLease, LeaseLost, WorkerStates
<1>4. row' = row /\ published' = published /\ task' = task /\ lease' = lease /\ expired' = expired
  BY DEF LoseLease, LeaseLost
<1>5. QED
  BY <1>1, <1>2, <1>3, <1>4, QuietStep

-----------------------------------------------------------------------------
\* The run fails, and its handlers settle the task.

LEMMA RunFailsLease == ASSUME TypeInv, LeaseInv, NEW w \in Workers, RunFails(w) PROVE LeaseInv'
<1>1. Executing(w) /\ Working(w)
  BY DEF RunFails, Executing, Working
<1>2. view' = view /\ view[w].result = "none"
  BY <1>1, ExecutorRow DEF RunFails
<1>3. /\ expired'[w] = (pc[w] = "thinking")
      /\ \A v \in Workers : v # w => expired'[v] = expired[v]
  BY <1>1, ExecutorTypes DEF RunFails
<1>4. ~expired'[w] => view[w].status \in Active
  BY <1>3 DEF RunFails, LeaseInv, CachedView
<1>5. Goto(w, "failing") /\ "failing" \in WorkerStates
  BY DEF RunFails, WorkerStates
<1>6. row' = row /\ published' = published /\ task' = task /\ lease' = lease
  BY DEF RunFails
<1>7. QED
  BY <1>1, <1>2, <1>3, <1>4, <1>5, <1>6, QuietStep

LEMMA RunBreaksLease == ASSUME TypeInv, LeaseInv, NEW w \in Workers, RunBreaks(w) PROVE LeaseInv'
<1>1. Executing(w)
  BY WorkingFacts DEF RunBreaks
<1>2. view' = view /\ view[w].result = "none"
  BY <1>1, ExecutorRow DEF RunBreaks
<1>3. \A v \in Workers : v # w => expired'[v] = expired[v]
  BY <1>1, ExecutorTypes DEF RunBreaks
<1>4. Goto(w, "unexpected") /\ "unexpected" \in WorkerStates
  BY DEF RunBreaks, WorkerStates
<1>5. row' = row /\ published' = published /\ task' = task /\ lease' = lease
  BY DEF RunBreaks
<1>6. QED
  BY <1>1, <1>2, <1>3, <1>4, <1>5, QuietStep

LEMMA HandlerReadsLease ==
    ASSUME TypeInv, LeaseInv, NEW w \in Workers, HandlerReads(w) PROVE LeaseInv'
<1> DEFINE state == IF pc[w] = "failing" THEN "settling" ELSE "checking"
<1>1. Executing(w)
  BY DEF HandlerReads, Executing
<1>2. /\ view'[w] = Look(w) /\ expired'[w] = FALSE
      /\ \A v \in Workers : v # w => view'[v] = view[v] /\ expired'[v] = expired[v]
  BY <1>1, ExecutorTypes DEF HandlerReads
<1>3. Look(w).result = "none"
  BY <1>1, ExecutorRow
<1>4. pc[w] = "failing" /\ Look(w).status \notin Active => row[task[w]].status \notin Active
  BY DEF Look, LeaseInv, CachedView
<1>5. Goto(w, state) /\ state \in WorkerStates /\ state \in {"settling", "checking"}
  BY DEF HandlerReads, WorkerStates
<1>6. row' = row /\ published' = published /\ task' = task /\ lease' = lease
  BY DEF HandlerReads
<1>7. state = "settling" => pc[w] = "failing"
  OBVIOUS
<1> HIDE DEF state
<1>8. QED
  BY <1>1, <1>2, <1>3, <1>4, <1>5, <1>6, <1>7, QuietStep

LEMMA HandlerFacts ==
    ASSUME TypeInv, LeaseInv, NEW w \in Workers, pc[w] \in {"settling", "checking"}
    PROVE  Executing(w) /\ ~expired[w]
  BY DEF LeaseInv, ExpiredInHandler, Executing

\* SettleFailed and SettleOverwritten write the same row.
LEMMA SettleStep ==
    ASSUME TypeInv, LeaseInv, NEW w \in Workers, pc[w] = "settling", NEW e,
           HandlerCommits(w, Failed(view[w]), e)
    PROVE  LeaseInv'
<1> DEFINE t == task[w]
           x == Failed(view[w])
           r == Flush(row[t], view[w], x)
<1>1. Executing(w) /\ ~expired[w]
  BY HandlerFacts
<1>2. /\ t \in Tasks /\ row[t] \in Row /\ view[w] \in Row
      /\ published \in [Tasks -> SUBSET Nat] /\ published[t] = {}
      /\ row[t].status \notin {"absent", "created"} /\ view[w].result = "none"
  BY <1>1, ExecutorTypes, ExecutorRow
<1>3. x \in Row /\ x.status = "failed" /\ x.result = "failure"
  BY <1>2, FailedFields
<1>4. row' = [row EXCEPT ![t] = r]
  BY DEF HandlerCommits
<1> HIDE DEF x
<1>5. /\ r \in Row /\ r.status = Column(row[t].status, view[w].status, x.status)
      /\ r.result = Column(row[t].result, view[w].result, x.result)
  BY <1>2, <1>3, FlushFields
<1>6. r.status \notin Active
  BY <1>3, <1>5, StateNames DEF Column, LeaseInv, SettledView
<1>7. r.status \in Terminal
  <2>1. r.status \in Statuses
    BY <1>5 DEF Row
  <2>2. r.status \notin {"absent", "created"}
    BY <1>2, <1>3, <1>5 DEF Column
  <2>3. QED
    BY <1>6, <2>1, <2>2 DEF Statuses, Claimable
<1>8. published' = [published EXCEPT ![t] = {}] /\ {} \in SUBSET Nat
  BY <1>2 DEF HandlerCommits
<1>9. \A v \in Workers : v # w => view'[v] = view[v]
  BY <1>1, ExecutorTypes DEF HandlerCommits
<1>10. Goto(w, "closing") /\ task' = task /\ lease' = lease /\ expired' = expired
  BY DEF HandlerCommits
<1> HIDE DEF r
<1>11. Ends(w, r, {})
  BY <1>1, <1>4, <1>5, <1>6, <1>7, <1>8, <1>9, <1>10 DEF Ends
<1>12. QED
  BY <1>11, EndingKeepsLease

\* A handler that finalizes the cancellation it saw.
LEMMA HandlerFinalizes ==
    ASSUME TypeInv, LeaseInv, NEW w \in Workers, pc[w] \in {"settling", "checking"}, NEW e,
           HandlerCommits(w, FinalizeCancellation(view[w]), e)
    PROVE  LeaseInv'
<1>1. Executing(w) /\ ~expired[w]
  BY HandlerFacts
<1>2. view[w] \in Row /\ view[w].result = "none"
  BY <1>1, ExecutorTypes, ExecutorRow
<1>3. /\ row' = [row EXCEPT ![task[w]] =
                    Flush(row[task[w]], view[w], FinalizeCancellation(view[w]))]
      /\ \A v \in Workers : v # w => view'[v] = view[v]
  BY <1>1, ExecutorTypes DEF HandlerCommits
<1>4. /\ Goto(w, "closing") /\ published' = published /\ task' = task
      /\ lease' = lease /\ expired' = expired
  BY DEF HandlerCommits
<1>5. QED
  BY <1>1, <1>2, <1>3, <1>4, FinalizeStep

LEMMA SettleRaisesLease ==
    ASSUME TypeInv, LeaseInv, NEW w \in Workers, SettleRaises(w) PROVE LeaseInv'
<1>1. Executing(w) /\ ~expired[w]
  BY HandlerFacts DEF SettleRaises
<1>2. view' = view /\ view[w].result = "none"
  BY <1>1, ExecutorRow DEF SettleRaises
<1>3. Goto(w, "closing") /\ "closing" \in WorkerStates
  BY DEF SettleRaises, WorkerStates
<1>4. row' = row /\ published' = published /\ task' = task /\ lease' = lease /\ expired' = expired
  BY DEF SettleRaises
<1>5. QED
  BY <1>1, <1>2, <1>3, <1>4, QuietStep

LEMMA CheckUnexpectedLease ==
    ASSUME TypeInv, LeaseInv, NEW w \in Workers, CheckUnexpected(w) PROVE LeaseInv'
<1> DEFINE t == task[w]
           r == Flush(row[t], view[w], view[w])
<1>1. CASE HandlerCommits(w, FinalizeCancellation(view[w]), "cancelled")
  BY <1>1, HandlerFinalizes DEF CheckUnexpected
<1>2. CASE HandlerCommits(w, view[w], audit[t])
  <2>1. Executing(w) /\ ~expired[w]
    BY HandlerFacts DEF CheckUnexpected
  <2>2. /\ t \in Tasks /\ row[t] \in Row /\ view[w] \in Row
        /\ published \in [Tasks -> SUBSET Nat] /\ published[t] = {}
        /\ row[t].hb = "fresh" /\ row[t].result = "none"
    BY <2>1, ExecutorTypes, ExecutorRow
  <2>3. r \in Row /\ r.hb = "fresh" /\ r.result = "none"
    BY <2>2, FlushFields DEF Column
  <2>4. row' = [row EXCEPT ![t] = r]
    BY <1>2 DEF HandlerCommits
  <2>5. published' = [published EXCEPT ![t] = {}] /\ {} \in SUBSET Nat
    BY <1>2, <2>2 DEF HandlerCommits
  <2>6. \A v \in Workers : v # w => view'[v] = view[v]
    BY <1>2, <2>1, ExecutorTypes DEF HandlerCommits
  <2>7. Goto(w, "closing") /\ task' = task /\ lease' = lease /\ expired' = expired
    BY <1>2 DEF HandlerCommits
  <2> HIDE DEF r
  <2>8. Ends(w, r, {})
    BY <2>1, <2>3, <2>4, <2>5, <2>6, <2>7 DEF Ends
  <2>9. QED
    BY <2>8, EndingKeepsLease
<1>3. QED
  BY <1>1, <1>2 DEF CheckUnexpected

LEMMA ResetLease ==
    ASSUME TypeInv, LeaseInv, NEW w \in Workers, Reset(w), row' = row, published' = published
    PROVE  LeaseInv'
<1>1. /\ pc'[w] = "idle" /\ expired'[w] = FALSE
      /\ \A v \in Workers : v # w => /\ pc'[v] = pc[v] /\ task'[v] = task[v]
                                      /\ lease'[v] = lease[v] /\ view'[v] = view[v]
                                      /\ expired'[v] = expired[v]
  BY DEF Reset, TypeInv, TypeOK
<1>2. /\ ~Executing(w)'
      /\ \A v \in Workers : v # w => (Executing(v)' <=> Executing(v))
  BY <1>1 DEF Executing
<1>3. ExecutorHoldsLease' /\ RowOfExecutor' /\ ExclusiveExecution'
  BY <1>1, <1>2 DEF LeaseInv, ExecutorHoldsLease, RowOfExecutor, ExclusiveExecution
<1>4. OpenHasNoResult' /\ ActiveIsRecoverable' /\ FindingsOnce'
  BY DEF LeaseInv, OpenHasNoResult, ActiveIsRecoverable, FindingsOnce
<1>5. SettledView' /\ CachedView' /\ ExpiredInHandler'
  BY <1>1 DEF LeaseInv, SettledView, CachedView, ExpiredInHandler
<1>6. QED
  BY <1>3, <1>4, <1>5 DEF LeaseInv

-----------------------------------------------------------------------------
\* Rows that nobody executes: created, recovered, expired, cancelled unrun.

LEMMA FreeRows ==
    ASSUME TypeInv, LeaseInv, row' \in [Tasks -> Row],
           \A u \in Tasks : row'[u] # row[u] =>
               /\ \A v \in Workers : Executing(v) => task[v] # u
               /\ row[u].status \notin Terminal
               /\ row'[u].status \in Active => row'[u].hb # "none"
               /\ row'[u].status \notin Terminal => row'[u].result = "none",
           published' = published, pc' = pc, task' = task, lease' = lease,
           view' = view, expired' = expired
    PROVE  LeaseInv'
<1>1. \A v \in Workers : /\ Executing(v)' <=> Executing(v)
                         /\ Executing(v) => task[v] \in Tasks /\ row'[task[v]] = row[task[v]]
  BY DEF Executing, TypeInv, RunHasTask
<1>2. \A u \in Tasks : row'[u] # row[u] => published[u] = {}
  BY DEF LeaseInv, OpenHasNoResult
<1>3. ExecutorHoldsLease' /\ RowOfExecutor' /\ ExclusiveExecution'
  BY <1>1 DEF LeaseInv, ExecutorHoldsLease, RowOfExecutor, ExclusiveExecution
<1>4. OpenHasNoResult'
  BY <1>2 DEF LeaseInv, OpenHasNoResult
<1>5. ActiveIsRecoverable'
  BY DEF LeaseInv, ActiveIsRecoverable
<1>6. FindingsOnce'
  BY <1>2 DEF LeaseInv, FindingsOnce
<1>7. SettledView'
  BY <1>1 DEF LeaseInv, SettledView, Executing
<1>8. CachedView' /\ ExpiredInHandler'
  BY DEF LeaseInv, CachedView, ExpiredInHandler
<1>9. QED
  BY <1>3, <1>4, <1>5, <1>6, <1>7, <1>8 DEF LeaseInv

\* A stale row is nobody's, and neither is a claimable one.
LEMMA NobodyExecutes ==
    ASSUME LeaseInv, NEW t \in Tasks,
           Stale(t) \/ row[t].status \in Claimable \cup {"absent"}
    PROVE  \A v \in Workers : Executing(v) => task[v] # t
  BY DEF LeaseInv, ExecutorHoldsLease, RowOfExecutor, Stale, Claimable

LEMMA RecoveredRows ==
    ASSUME TypeInv, NEW u \in Tasks
    PROVE  \/ Recovered[u] = row[u]
           \/ /\ Stale(u) /\ row[u].status \in Active
              /\ Recovered[u].status = "created" /\ Recovered[u].result = row[u].result
<1>1. row[u] \in Row
  BY DEF TypeInv, TypeOK
<1>2. LET x == [ReleaseLease(row[u]) EXCEPT !.status = "created"]
      IN  x.status = "created" /\ x.result = row[u].result
  BY <1>1 DEF ReleaseLease, Row
<1>3. QED
  BY <1>2 DEF Recovered, Stale

LEMMA ClaimLease ==
    ASSUME TypeInv, LeaseInv, NEW w \in Workers
    PROVE  /\ RecoverOnly(w) => LeaseInv'
           /\ \A t \in Tasks : ClaimCancelled(w, t) => LeaseInv'
           /\ \A t \in Tasks : Claim(w, t) => LeaseInv'
<1>1. Active \cap Terminal = {} /\ "created" \notin Active \cup Terminal
  BY DEF Active, Terminal
<1>2. /\ row \in [Tasks -> Row] /\ Recovered \in [Tasks -> Row]
      /\ \A t \in Tasks : FinalizeCancellation(row[t]) \in Row /\ Claimed(row[t]) \in Row
  BY RecoveredType, FinalizeType, ClaimedType DEF TypeInv, TypeOK
<1>3. \A u \in Tasks : Recovered[u] # row[u] =>
          /\ \A v \in Workers : Executing(v) => task[v] # u
          /\ row[u].status \notin Terminal
          /\ Recovered[u].status = "created" /\ Recovered[u].result = row[u].result
          /\ row[u].result = "none" /\ published[u] = {}
  BY <1>1, RecoveredRows, NobodyExecutes DEF LeaseInv, OpenHasNoResult
<1>4. \A t \in Tasks : Oldest(t) => row[t].status = "created"
  BY DEF Oldest, Candidates, Claimable
<1>5. \A t \in Tasks : row[t].status = "created" =>
          /\ \A v \in Workers : Executing(v) => task[v] # t
          /\ row[t].result = "none" /\ published[t] = {}
  BY <1>1, NobodyExecutes DEF LeaseInv, OpenHasNoResult, Claimable
<1>6. ASSUME RecoverOnly(w) PROVE LeaseInv'
  <2>1. row' = Recovered
    BY <1>6 DEF RecoverOnly
  <2>2. /\ published' = published /\ pc' = pc /\ task' = task /\ lease' = lease
        /\ view' = view /\ expired' = expired
    BY <1>6 DEF RecoverOnly, wvars
  <2>3. QED
    BY <1>1, <1>2, <1>3, <2>1, <2>2, FreeRows
<1>7. ASSUME NEW t \in Tasks, ClaimCancelled(w, t) PROVE LeaseInv'
  <2> DEFINE x == FinalizeCancellation(row[t])
  <2>1. x \in Row /\ x.status = "cancelled"
    BY <1>2, FinalizeFields
  <2>2. row[t].status = "created" /\ "created" \notin Terminal /\ "cancelled" \notin Active
        /\ "cancelled" \in Terminal
    BY <1>1, <1>4, <1>7, StateNames DEF ClaimCancelled
  <2>3. row' = [Recovered EXCEPT ![t] = x]
    BY <1>7 DEF ClaimCancelled
  <2> HIDE DEF x
  <2>4. row' \in [Tasks -> Row] /\ row'[t] = x /\ \A u \in Tasks : u # t => row'[u] = Recovered[u]
    BY <1>2, <2>1, <2>3
  <2>5. /\ published' = published /\ pc' = pc /\ task' = task /\ lease' = lease
        /\ view' = view /\ expired' = expired
    BY <1>7 DEF ClaimCancelled, wvars
  <2>6. \A u \in Tasks : row'[u] # row[u] =>
               /\ \A v \in Workers : Executing(v) => task[v] # u
               /\ row[u].status \notin Terminal
               /\ row'[u].status \in Active => row'[u].hb # "none"
               /\ row'[u].status \notin Terminal => row'[u].result = "none"
    <3>1. SUFFICES ASSUME NEW u \in Tasks, row'[u] # row[u]
                   PROVE  /\ \A v \in Workers : Executing(v) => task[v] # u
                          /\ row[u].status \notin Terminal
                          /\ row'[u].status \in Active => row'[u].hb # "none"
                          /\ row'[u].status \notin Terminal => row'[u].result = "none"
      OBVIOUS
    <3>2. CASE u = t
      BY <3>2, <1>5, <2>1, <2>2, <2>4
    <3>3. CASE u # t
      BY <3>1, <3>3, <1>1, <1>3, <2>4
    <3>4. QED
      BY <3>2, <3>3
  <2>7. QED
    BY <2>4, <2>5, <2>6, FreeRows
<1>8. ASSUME NEW t \in Tasks, Claim(w, t) PROVE LeaseInv'
  <2> DEFINE x == Claimed(row[t])
  <2>1. /\ x \in Row /\ x.status = "discovering" /\ x.hb = "fresh"
        /\ x.result = row[t].result
    BY <1>2, ClaimedType DEF Claimed, Row
  <2>2. /\ row[t].status = "created" /\ row[t].result = "none" /\ published[t] = {}
        /\ \A v \in Workers : Executing(v) => task[v] # t
    BY <1>4, <1>5, <1>8 DEF Claim
  <2>3. "discovering" \in Active /\ "discovering" \notin Terminal
    BY StateNames
  <2>4. /\ row' = [Recovered EXCEPT ![t] = x]
        /\ lease' = [lease EXCEPT ![w] = x.owner] /\ view' = [view EXCEPT ![w] = x]
        /\ pc' = [pc EXCEPT ![w] = "starting"] /\ task' = [task EXCEPT ![w] = t]
        /\ published' = published /\ expired' = expired
        /\ pc[w] = "idle"
    BY <1>8 DEF Claim
  <2> HIDE DEF x
  <2>5. row'[t] = x /\ \A u \in Tasks : u # t => row'[u] = Recovered[u]
    BY <1>2, <2>4
  <2>6. /\ lease'[w] = x.owner /\ view'[w] = x /\ pc'[w] = "starting" /\ task'[w] = t
        /\ \A v \in Workers : v # w => /\ lease'[v] = lease[v] /\ view'[v] = view[v]
                                        /\ pc'[v] = pc[v] /\ task'[v] = task[v]
    BY <2>4 DEF TypeInv, TypeOK
  <2>7. /\ \A v \in Workers : v # w => (Executing(v)' <=> Executing(v))
        /\ \A v \in Workers : Executing(v) => task[v] \in Tasks
    BY <2>6 DEF Executing, TypeInv, RunHasTask
  <2>8. \A v \in Workers : v # w /\ Executing(v) =>
            task[v] # t /\ row'[task[v]] = row[task[v]]
    BY <1>3, <2>2, <2>5, <2>7
  <2>9. ExecutorHoldsLease'
    BY <2>1, <2>5, <2>6, <2>7, <2>8 DEF LeaseInv, ExecutorHoldsLease
  <2>10. ExclusiveExecution'
    BY <2>6, <2>7, <2>8 DEF LeaseInv, ExclusiveExecution
  <2>11. RowOfExecutor'
    <3>1. /\ row'[t].status \notin {"absent", "created"} /\ row'[t].result = "none"
          /\ published'[t] = {} /\ view'[w].result = "none"
      BY <2>1, <2>2, <2>4, <2>5, <2>6
    <3>2. ASSUME NEW v \in Workers, v # w, Executing(v)
          PROVE  /\ row'[task[v]].status \notin {"absent", "created"}
                 /\ row'[task[v]].result = "none"
                 /\ published'[task[v]] = {} /\ view'[v].result = "none"
      BY <3>2, <2>4, <2>6, <2>8 DEF LeaseInv, RowOfExecutor
    <3>3. QED
      BY <3>1, <3>2, <2>6, <2>7 DEF RowOfExecutor
  <2>12. OpenHasNoResult'
    BY <1>3, <2>1, <2>2, <2>4, <2>5 DEF LeaseInv, OpenHasNoResult
  <2>13. ActiveIsRecoverable'
    BY <1>1, <1>3, <2>1, <2>5 DEF LeaseInv, ActiveIsRecoverable
  <2>14. FindingsOnce'
    BY <1>3, <2>2, <2>4, <2>5 DEF LeaseInv, FindingsOnce
  <2>15. SettledView'
    <3>1. SUFFICES ASSUME NEW v \in Workers, pc'[v] = "settling", view'[v].status \notin Active
                   PROVE  row'[task'[v]].status \notin Active
      BY DEF SettledView
    <3>2. v # w
      BY <3>1, <2>6
    <3>3. pc[v] = "settling" /\ view[v].status \notin Active /\ task'[v] = task[v]
      BY <3>1, <3>2, <2>6
    <3>4. row'[task[v]] = row[task[v]]
      BY <3>2, <3>3, <2>8 DEF Executing
    <3>5. QED
      BY <3>3, <3>4 DEF LeaseInv, SettledView
  <2>16. CachedView'
    BY <2>1, <2>3, <2>4, <2>6 DEF LeaseInv, CachedView
  <2>17. ExpiredInHandler'
    BY <2>4, <2>6 DEF LeaseInv, ExpiredInHandler
  <2>18. QED
    BY <2>9, <2>10, <2>11, <2>12, <2>13, <2>14, <2>15, <2>16, <2>17 DEF LeaseInv
<1>9. QED
  BY <1>6, <1>7, <1>8

LEMMA ApiLease ==
    ASSUME TypeInv, LeaseInv
    PROVE  /\ \A t \in Tasks : Create(t) => LeaseInv'
           /\ \A c \in Clients, t \in Tasks : ReadForCancel(c, t) => LeaseInv'
           /\ \A c \in Clients : CommitCancel(c) => LeaseInv'
<1>0. row \in [Tasks -> Row]
  BY DEF TypeInv, TypeOK
<1>1. ASSUME NEW t \in Tasks, Create(t) PROVE LeaseInv'
  <2>1. PICK r \in {NewRow("created", "none"), NewRow("failed", "failure")} :
          row' = [row EXCEPT ![t] = r]
    BY <1>1 DEF Create
  <2>2. /\ r \in Row
        /\ r.status \in Active => r.hb # "none"
        /\ r.status \notin Terminal => r.result = "none"
    <3>1. "created" \in Statuses /\ "failed" \in Statuses /\ "failed" \in Terminal
          /\ "created" \notin Active /\ "failed" \notin Active
      BY DEF Statuses, Claimable, Terminal, Active
    <3>2. NewRow("created", "none") \in Row /\ NewRow("failed", "failure") \in Row
      BY <3>1, NewRowType
    <3>3. /\ NewRow("created", "none").status = "created"
          /\ NewRow("created", "none").result = "none"
          /\ NewRow("failed", "failure").status = "failed"
      BY DEF NewRow
    <3>4. QED
      BY <2>1, <3>1, <3>2, <3>3
  <2>3. row[t].status = "absent" /\ "absent" \notin Terminal
    BY <1>1 DEF Create, Terminal
  <2>4. \A v \in Workers : Executing(v) => task[v] # t
    BY <2>3, NobodyExecutes
  <2>5. row' \in [Tasks -> Row] /\ row'[t] = r /\ \A u \in Tasks : u # t => row'[u] = row[u]
    BY <1>0, <2>1, <2>2
  <2>6. /\ published' = published /\ pc' = pc /\ task' = task /\ lease' = lease
        /\ view' = view /\ expired' = expired
    BY <1>1 DEF Create, wvars
  <2>7. \A u \in Tasks : row'[u] # row[u] => u = t
    BY <2>5
  <2>8. QED
    BY <2>2, <2>3, <2>4, <2>5, <2>6, <2>7, FreeRows
<1>2. ASSUME NEW c \in Clients, NEW t \in Tasks, ReadForCancel(c, t) PROVE LeaseInv'
  <2>1. /\ row' = row /\ published' = published /\ pc' = pc /\ task' = task /\ lease' = lease
        /\ view' = view /\ expired' = expired
    BY <1>2 DEF ReadForCancel, wvars
  <2>2. QED
    BY <1>0, <2>1, FreeRows
<1>3. ASSUME NEW c \in Clients, CommitCancel(c) PROVE LeaseInv'
  <2> DEFINE t == api[c].task
             b == api[c].view
             x == RequestCancellation(b)
             r == Flush(row[t], b, x)
  <2>1. b \in Row /\ x \in Row
    BY RequestType DEF TypeInv, TypeOK
  <2>2. /\ x.owner = b.owner /\ x.hb = b.hb /\ x.result = b.result
        /\ x.status \in {b.status, "cancelled"}
    BY <2>1 DEF RequestCancellation, Row
  <2>3. row' = [row EXCEPT ![t] = r]
    BY <1>3 DEF CommitCancel
  <2>4. /\ published' = published /\ pc' = pc /\ task' = task /\ lease' = lease
        /\ view' = view /\ expired' = expired
    BY <1>3 DEF CommitCancel, wvars
  <2> HIDE DEF x
  <2>5. CASE t \in Tasks
    <3>1. row[t] \in Row
      BY <1>0, <2>5
    <3>2. /\ r \in Row
          /\ r.status = Column(row[t].status, b.status, x.status)
          /\ r.owner = Column(row[t].owner, b.owner, x.owner)
          /\ r.hb = Column(row[t].hb, b.hb, x.hb)
          /\ r.result = Column(row[t].result, b.result, x.result)
      BY <2>1, <3>1, FlushFields
    <3>3. /\ r.owner = row[t].owner /\ r.hb = row[t].hb /\ r.result = row[t].result
          /\ r.status \in {row[t].status, "cancelled"}
      BY <2>2, <3>2 DEF Column
    <3> HIDE DEF r
    <3>4. QED
      BY <2>3, <2>4, <2>5, <3>2, <3>3, OutsideKeepsLease
  <2>6. CASE t \notin Tasks
    <3>1. row' = row
      BY <1>0, <2>3, <2>6
    <3>2. QED
      BY <1>0, <2>4, <3>1, FreeRows
  <2>7. QED
    BY <2>5, <2>6
<1>4. QED
  BY <1>1, <1>2, <1>3

LEMMA TimeLease ==
    ASSUME TypeInv, LeaseInv
    PROVE  /\ \A w \in Workers : Heartbeat(w) => LeaseInv'
           /\ \A t \in Tasks : LeaseExpires(t) => LeaseInv'
<1>0. row \in [Tasks -> Row]
  BY DEF TypeInv, TypeOK
<1>1. ASSUME NEW w \in Workers, HeartbeatReads(w) PROVE LeaseInv'
  <2>1. /\ row' = row /\ published' = published /\ pc' = pc /\ task' = task /\ lease' = lease
        /\ view' = view /\ expired' = expired
    BY <1>1 DEF HeartbeatReads
  <2>2. QED
    BY <1>0, <2>1, FreeRows
<1>2. ASSUME NEW w \in Workers, HeartbeatWrites(w) PROVE LeaseInv'
  <2> DEFINE r == [row[task[w]] EXCEPT !.hb = "fresh"]
  <2>1. /\ published' = published /\ pc' = pc /\ task' = task /\ lease' = lease
        /\ view' = view /\ expired' = expired /\ row' = [row EXCEPT ![task[w]] = r]
    BY <1>2 DEF HeartbeatWrites
  <2>2. CASE task[w] \in Tasks
    <3>1. /\ r \in Row /\ r.hb = "fresh" /\ r.owner = row[task[w]].owner
          /\ r.status = row[task[w]].status /\ r.result = row[task[w]].result
      BY <1>0, <2>2, HeartbeatFields
    <3> HIDE DEF r
    <3>2. QED
      BY <2>1, <2>2, <3>1, OutsideKeepsLease
  <2>3. CASE task[w] \notin Tasks
    <3>1. row' = row
      BY <1>0, <2>1, <2>3
    <3>2. QED
      BY <1>0, <2>1, <3>1, FreeRows
  <2>4. QED
    BY <2>2, <2>3
<1>3. ASSUME NEW t \in Tasks, LeaseExpires(t) PROVE LeaseInv'
  <2> DEFINE r == [row[t] EXCEPT !.hb = "stale"]
  <2>1. /\ published' = published /\ pc' = pc /\ task' = task /\ lease' = lease
        /\ view' = view /\ expired' = expired /\ row' = [row EXCEPT ![t] = r]
    BY <1>3 DEF LeaseExpires, wvars
  <2>2. /\ r \in Row /\ r.hb = "stale"
        /\ r.status = row[t].status /\ r.result = row[t].result
    BY <1>0, HeartbeatFields
  <2>3. row[t].status \in Active /\ row[t].status \notin Terminal
    BY <1>3, StateNames DEF LeaseExpires
  <2>4. \A v \in Workers : Executing(v) => task[v] # t
    BY <1>3 DEF LeaseExpires, Executing
  <2>5. row[t].result = "none"
    BY <2>3 DEF LeaseInv, OpenHasNoResult
  <2> HIDE DEF r
  <2>6. row' \in [Tasks -> Row] /\ row'[t] = r /\ \A u \in Tasks : u # t => row'[u] = row[u]
    BY <1>0, <2>1, <2>2
  <2>7. \A u \in Tasks : row'[u] # row[u] => u = t
    BY <2>6
  <2>8. QED
    BY <2>1, <2>2, <2>3, <2>4, <2>5, <2>6, <2>7, FreeRows
<1>4. QED
  BY <1>1, <1>2, <1>3 DEF Heartbeat

LEMMA StepLease ==
    ASSUME TypeInv, LeaseInv, NEW w \in Workers,
           Step(w) \/ RunFails(w) \/ RunBreaks(w) \/ Crash(w)
    PROVE  LeaseInv'
<1>1. CASE Step(w)
  <2>1. ASSUME SettleFailed(w) \/ SettleOverwritten(w) PROVE LeaseInv'
    BY <2>1, SettleStep DEF SettleFailed, SettleOverwritten
  <2>2. ASSUME SettleCancelled(w) PROVE LeaseInv'
    BY <2>2, HandlerFinalizes DEF SettleCancelled
  <2>3. ASSUME Close(w) PROVE LeaseInv'
    BY <2>3, ResetLease DEF Close
  <2>4. QED
    BY <1>1, <2>1, <2>2, <2>3, ClaimLease, LoadLease, AllowToolLease, PersistToolLease,
       StartAnalysisLease, CallModelLease, ModelAnsweredLease, FinishLease, SeeCancelLease,
       LoseLeaseLease, HandlerReadsLease, SettleRaisesLease, CheckUnexpectedLease DEF Step, Run
<1>2. CASE Crash(w)
  BY <1>2, ResetLease DEF Crash
<1>3. QED
  BY <1>1, <1>2, RunFailsLease, RunBreaksLease

LEMMA InitLease == Init => LeaseInv
<1> SUFFICES ASSUME Init PROVE LeaseInv
  OBVIOUS
<1>1. \A w \in Workers : ~Executing(w) /\ pc[w] = "idle" /\ ~expired[w]
  BY DEF Init, Executing
<1>2. \A t \in Tasks : /\ row[t].status = "absent" /\ row[t].result = "none"
                       /\ published[t] = {}
  BY DEF Init, NoRow, NewRow
<1>3. "absent" \notin Active
  BY DEF Active
<1>4. QED
  BY <1>1, <1>2, <1>3 DEF LeaseInv, ExecutorHoldsLease, ExclusiveExecution, RowOfExecutor,
     OpenHasNoResult, ActiveIsRecoverable, FindingsOnce, SettledView, CachedView, ExpiredInHandler

LEMMA NextLease ==
    ASSUME ~LeaseMayExpireUnderOwner, TypeInv, LeaseInv, [Next]_vars
    PROVE  LeaseInv'
<1>1. CASE \E t \in Tasks : Create(t) \/ LeaseExpires(t) \/ LeaseOverrun(t)
  BY <1>1, ApiLease, TimeLease DEF LeaseOverrun
<1>2. CASE \E c \in Clients : CommitCancel(c) \/ \E t \in Tasks : ReadForCancel(c, t)
  BY <1>2, ApiLease
<1>3. CASE \E w \in Workers : Step(w) \/ RunFails(w) \/ RunBreaks(w) \/ Crash(w) \/ Heartbeat(w)
  BY <1>3, StepLease, TimeLease
<1>4. CASE UNCHANGED vars
  <2>1. /\ row' = row /\ published' = published /\ pc' = pc /\ task' = task /\ lease' = lease
        /\ view' = view /\ expired' = expired
    BY <1>4 DEF vars, wvars
  <2>2. row' \in [Tasks -> Row]
    BY <2>1 DEF TypeInv, TypeOK
  <2>3. QED
    BY <2>1, <2>2, FreeRows
<1>5. QED
  BY <1>1, <1>2, <1>3, <1>4 DEF Next

\* The lease invariant holds as long as no lease expires under the worker
\* that holds it (TASK_LEASE_TIMEOUT above every pause of a live attempt).
THEOREM LeaseInvariant ==
    ASSUME ~LeaseMayExpireUnderOwner
    PROVE  Spec => []LeaseInv
<1>1. TypeInv /\ LeaseInv /\ [Next]_vars => (TypeInv /\ LeaseInv)'
  BY NextType, NextLease
<1>2. Init => TypeInv /\ LeaseInv
  BY InitType, InitLease
<1>3. Spec => [](TypeInv /\ LeaseInv)
  BY <1>1, <1>2, PTL DEF Spec
<1>4. QED
  BY <1>3, PTL

\* The row of a task under execution carries the lease of its run
\* (claim_next_task, recover_stale_tasks and the cancel endpoint together).
THEOREM LeaseHeldWhileExecuting ==
    ASSUME ~LeaseMayExpireUnderOwner
    PROVE  Spec => []ExecutorHoldsLease
<1>1. LeaseInv => ExecutorHoldsLease
  BY DEF LeaseInv
<1>2. QED
  BY <1>1, LeaseInvariant, PTL

\* No two workers ever execute the same task at the same time.
THEOREM ExecutionIsExclusive ==
    ASSUME ~LeaseMayExpireUnderOwner
    PROVE  Spec => []ExclusiveExecution
<1>1. LeaseInv => ExclusiveExecution
  BY DEF LeaseInv
<1>2. QED
  BY <1>1, LeaseInvariant, PTL

\* Recovery can find every abandoned row: an active row has a heartbeat.
THEOREM AbandonedRowsAreRecoverable ==
    ASSUME ~LeaseMayExpireUnderOwner
    PROVE  Spec => []ActiveIsRecoverable
<1>1. LeaseInv => ActiveIsRecoverable
  BY DEF LeaseInv
<1>2. QED
  BY <1>1, LeaseInvariant, PTL

\* At most one attempt persists the findings of a task (persist_findings
\* appends, so a second one would duplicate them), and only with the report.
THEOREM FindingsPersistedOnce ==
    ASSUME ~LeaseMayExpireUnderOwner
    PROVE  Spec => []FindingsOnce
<1>1. LeaseInv => FindingsOnce
  BY DEF LeaseInv
<1>2. QED
  BY <1>1, LeaseInvariant, PTL
=============================================================================
