---------------------------- MODULE PatchProofs -----------------------------
(***************************************************************************)
(* What the lock of the proposal row gives, for every set of requests and  *)
(* proposals: while a decision, an export or a handoff is between its read *)
(* and its commit, nothing else commits, so what it read still holds when  *)
(* it commits.  The types follow: an unlocked request writes what it       *)
(* computed to a row that has changed, and the row stays well formed.      *)
(***************************************************************************)
EXTENDS PatchPlanner, TLAPS

Decision == {"approve", "reject"}

\* No two requests hold the lock.
OneHolder ==
    \A r, q \in Requests : request[r].op \in Locking /\ request[q].op \in Locking => r = q

\* What a request may write that derived it from the row under the lock.
Right(op, package) ==
    /\ op \in Decision => row.status \notin Final
    /\ op = "package" => package.version = Len(packages) + 1
    /\ op = "handoff" =>
           /\ package.version \in 1..Len(packages)
           /\ row.status = "approved"
           /\ packages[package.version].checkpoint = row.checkpoint

LockInv ==
    /\ DOMAIN request = Requests
    /\ \E S : packages \in Seq(S)
    /\ VersionsInOrder
    /\ OneHolder
    /\ \A r \in Requests : Right(request[r].op, request[r].package)

USE DEF Decision, Locking

LEMMA InitLock == Init => LockInv
<1> SUFFICES ASSUME Init PROVE LockInv
  OBVIOUS
<1>1. DOMAIN request = Requests /\ \A r \in Requests : request[r].op = "none"
  BY DEF Init, Idle
<1>2. packages = <<>>
  BY DEF Init
<1>3. packages \in Seq({})
  BY <1>2
<1>4. VersionsInOrder
  BY <1>2 DEF VersionsInOrder
<1>5. OneHolder /\ \A r \in Requests : Right(request[r].op, request[r].package)
  BY <1>1 DEF OneHolder, Right
<1>6. QED
  BY <1>1, <1>3, <1>4, <1>5 DEF LockInv

\* A request may be loaded that takes the lock only when it is free, and
\* that is right about the row.
LEMMA LoadedKeepsLock ==
    ASSUME LockInv, NEW r \in Requests, NEW op, NEW columns, NEW package,
           Right(op, package), Loaded(r, op, columns, package)
    PROVE  LockInv'
<1>1. /\ DOMAIN request' = Requests
      /\ request'[r].op = op /\ request'[r].package = package
      /\ \A q \in Requests \ {r} : request'[q] = request[q]
  BY DEF LockInv, Loaded
<1>2. row' = row /\ packages' = packages
  BY DEF Loaded
<1>3. OneHolder'
  BY <1>1 DEF LockInv, OneHolder, Loaded, Free
<1>4. ASSUME NEW q \in Requests PROVE Right(request[q].op, request[q].package)'
  <2>1. CASE q = r
    BY <1>1, <1>2, <2>1 DEF Right
  <2>2. CASE q # r
    BY <1>1, <1>2, <2>2 DEF LockInv, Right
  <2>3. QED
    BY <2>1, <2>2
<1>5. VersionsInOrder' /\ \E S : packages' \in Seq(S)
  BY <1>2 DEF LockInv, VersionsInOrder
<1>6. QED
  BY <1>1, <1>3, <1>4, <1>5 DEF LockInv

LEMMA LoadKeepsLock == ASSUME LockInv, NEW r \in Requests, Load(r) PROVE LockInv'
<1>1. ASSUME NEW i, AnalyzeImpact(r, i) PROVE LockInv'
  BY <1>1, LoadedKeepsLock DEF AnalyzeImpact, Right
<1>2. ASSUME NEW s, Revalidate(r, s) PROVE LockInv'
  BY <1>2, LoadedKeepsLock DEF Revalidate, Right
<1>3. CASE RevalidateFromTask(r)
  BY <1>3, LoadedKeepsLock DEF RevalidateFromTask, Right
<1>4. CASE Validate(r)
  BY <1>4, LoadedKeepsLock DEF Validate, Right
<1>5. ASSUME NEW k, Checkpoint(r, k) PROVE LockInv'
  BY <1>5, LoadedKeepsLock DEF Checkpoint, Right
<1>6. ASSUME NEW role, Approve(r, role) PROVE LockInv'
  <2>1. row.status \notin Final
    BY <1>6 DEF Approve, Approvable, Final
  <2>2. QED
    BY <1>6, <2>1, LoadedKeepsLock DEF Approve, Right
<1>7. ASSUME NEW role, Reject(r, role) PROVE LockInv'
  BY <1>7, LoadedKeepsLock DEF Reject, Right
<1>8. CASE Export(r)
  BY <1>8, LoadedKeepsLock DEF Export, NextVersion, Right
<1>9. ASSUME NEW n \in 1..Len(packages), Handoff(r, n) PROVE LockInv'
  <2>1. packages[n].version = n
    <3>1. PICK S : packages \in Seq(S)
      BY DEF LockInv
    <3>2. n \in DOMAIN packages
      BY <3>1
    <3>3. QED
      BY <3>2 DEF LockInv, VersionsInOrder
  <2>2. Right("handoff", packages[n])
    BY <1>9, <2>1 DEF Handoff, Right
  <2>3. QED
    BY <1>9, <2>2, LoadedKeepsLock DEF Handoff
<1>10. QED
  BY <1>1, <1>2, <1>3, <1>4, <1>5, <1>6, <1>7, <1>8, <1>9 DEF Load

\* A commit finds the row free, so it leaves nobody with the lock.
LEMMA CommitKeepsLock == ASSUME LockInv, NEW r \in Requests, Commit(r) PROVE LockInv'
<1>1. /\ DOMAIN request' = Requests
      /\ \A q \in Requests : request'[q].op \notin Locking
  BY DEF LockInv, Commit, Free, Idle
<1>2. OneHolder' /\ \A q \in Requests : Right(request[q].op, request[q].package)'
  BY <1>1 DEF OneHolder, Right
<1>3. PICK S : packages \in Seq(S)
  BY DEF LockInv
<1>4. CASE packages' = packages
  BY <1>1, <1>2, <1>4 DEF LockInv, VersionsInOrder
<1>5. CASE request[r].op = "package"
  <2> DEFINE p == request[r].package
             T == S \cup {p}
  <2>1. packages' = Append(packages, p) /\ p.version = Len(packages) + 1
    BY <1>5 DEF Commit, LockInv, Right
  <2>2. packages \in Seq(T) /\ p \in T
    BY <1>3
  <2> HIDE DEF p, T
  <2>3. /\ packages' \in Seq(T) /\ Len(packages') = Len(packages) + 1
        /\ packages'[Len(packages) + 1] = p
        /\ \A n \in 1..Len(packages) : packages'[n] = packages[n]
    BY <2>1, <2>2
  <2>4. DOMAIN packages = 1..Len(packages) /\ DOMAIN packages' = 1..(Len(packages) + 1)
        /\ Len(packages) \in Nat
    BY <2>2, <2>3
  <2>5. VersionsInOrder'
    BY <2>1, <2>3, <2>4 DEF LockInv, VersionsInOrder
  <2>6. QED
    BY <1>1, <1>2, <2>3, <2>5 DEF LockInv
<1>6. QED
  BY <1>4, <1>5 DEF Commit

LEMMA RollbackKeepsLock == ASSUME LockInv, NEW r \in Requests, Rollback(r) PROVE LockInv'
<1>1. /\ DOMAIN request' = Requests /\ request'[r].op = "none"
      /\ \A q \in Requests \ {r} : request'[q] = request[q]
      /\ row' = row /\ packages' = packages
  BY DEF LockInv, Rollback, Idle
<1>2. OneHolder'
  BY <1>1 DEF LockInv, OneHolder
<1>3. ASSUME NEW q \in Requests PROVE Right(request[q].op, request[q].package)'
  BY <1>1 DEF LockInv, Right
<1>4. VersionsInOrder' /\ \E S : packages' \in Seq(S)
  BY <1>1 DEF LockInv, VersionsInOrder
<1>5. QED
  BY <1>1, <1>2, <1>3, <1>4 DEF LockInv

LEMMA NextLock == LockInv /\ [Next]_vars => LockInv'
<1> SUFFICES ASSUME LockInv, [Next]_vars PROVE LockInv'
  OBVIOUS
<1>1. CASE UNCHANGED vars
  <2>1. request' = request /\ row' = row /\ packages' = packages
    BY <1>1 DEF vars
  <2>2. \A q \in Requests : Right(request[q].op, request[q].package)'
    BY <2>1 DEF LockInv, Right
  <2>3. QED
    BY <2>1, <2>2 DEF LockInv, VersionsInOrder, OneHolder
<1>2. QED
  BY <1>1, LoadKeepsLock, CommitKeepsLock, RollbackKeepsLock DEF Next

\* The invariant of the lock, in every state of the requests.
THEOREM LockInvariant == Spec => []LockInv
  BY InitLock, NextLock, PTL DEF Spec

-----------------------------------------------------------------------------
\* The versions of the packages of a proposal have no gaps and no duplicates,
\* although download_patch_package derives each from the last one it read.
THEOREM VersionsAreInOrder == Spec => []VersionsInOrder
<1>1. LockInv => VersionsInOrder
  BY DEF LockInv
<1>2. QED
  BY <1>1, LockInvariant, PTL

\* approve_patch_proposal and reject_patch_proposal never commit over a final
\* decision.
THEOREM DecisionsAreExclusive == Spec => DecisionsExclude
<1>1. LockInv /\ [Next]_vars => [decisions' # decisions => row.status \notin Final]_vars
  <2> SUFFICES ASSUME LockInv, Next, decisions' # decisions PROVE row.status \notin Final
    BY DEF vars
  <2>1. PICK r \in Requests : Commit(r)
    BY DEF Next, Load, Rollback, AnalyzeImpact, Revalidate, RevalidateFromTask, Validate,
       Checkpoint, Approve, Reject, Export, Handoff, Loaded
  <2>2. request[r].op \in Decision
    BY <2>1 DEF Commit
  <2>3. QED
    BY <2>2 DEF LockInv, Right
<1>2. QED
  BY <1>1, LockInvariant, PTL DEF Spec, DecisionsExclude

\* create_manual_patch_handoff records only a package that carries the
\* checkpoint the approved proposal has at that moment.
THEOREM HandoffsAreCurrent == Spec => HandoffIsCurrent
<1> DEFINE Current ==
        \A n \in handoffs' \ handoffs :
            row.status = "approved" /\ packages[n].checkpoint = row.checkpoint
<1>1. LockInv /\ [Next]_vars => [Current]_vars
  <2> SUFFICES ASSUME LockInv, Next, NEW n \in handoffs' \ handoffs
               PROVE  row.status = "approved" /\ packages[n].checkpoint = row.checkpoint
    BY DEF vars
  <2>1. PICK r \in Requests : Commit(r)
    BY DEF Next, Load, Rollback, AnalyzeImpact, Revalidate, RevalidateFromTask, Validate,
       Checkpoint, Approve, Reject, Export, Handoff, Loaded
  <2>2. request[r].op = "handoff" /\ n = request[r].package.version
    BY <2>1 DEF Commit
  <2>3. QED
    BY <2>2 DEF LockInv, Right
<1>2. QED
  BY <1>1, LockInvariant, PTL DEF Spec, HandoffIsCurrent

-----------------------------------------------------------------------------
\* Types.  An update carries columns of the row with values a request may
\* give them, and one that makes the proposal checkpointed or approved leaves
\* it with a checkpoint, whatever commits before it.

Columns == {"status", "source", "validation", "checkpoint", "impact", "role"}

WellFormed(u) ==
    /\ DOMAIN u \subseteq Columns
    /\ "status" \in DOMAIN u => u["status"] \in {"checkpointed"} \cup Final
    /\ "source" \in DOMAIN u => u["source"] \in {"valid", "stale"}
    /\ "validation" \in DOMAIN u => u["validation"] \in {"valid", "invalid"}
    /\ "checkpoint" \in DOMAIN u => u["checkpoint"] \in {"proposal", "git"}
    /\ "impact" \in DOMAIN u => u["impact"] \in {"candidate", "evidenced"}
    /\ "role" \in DOMAIN u => u["role"] \in Roles
    /\ "status" \in DOMAIN u /\ u["status"] \in {"checkpointed", "approved"} =>
           "checkpoint" \in DOMAIN u \/ row.checkpoint # "none"

Package == [version : Nat, status : Final, checkpoint : {"proposal", "git"}]

TypeInv ==
    /\ proposal \in Proposals
    /\ row \in Row
    /\ row.status \in {"checkpointed", "approved"} => row.checkpoint # "none"
    /\ packages \in Seq(Package)
    /\ decisions \in Seq(Final)
    /\ handoffs \subseteq DOMAIN packages
    /\ \A r \in Requests :
           /\ WellFormed(request[r].update)
           /\ request[r].op = "package" => request[r].package \in Package

LEMMA RowColumns ==
    ASSUME NEW r \in Row
    PROVE  DOMAIN r = Columns
  BY DEF Row, Columns

LEMMA WrittenRow ==
    ASSUME row \in Row, NEW u, WellFormed(u)
    PROVE  /\ Written(u) \in Row
           /\ \A f \in Columns : Written(u)[f] = IF f \in DOMAIN u THEN u[f] ELSE row[f]
           /\ Written(u).status = IF "status" \in DOMAIN u THEN u["status"] ELSE row.status
           /\ Written(u).checkpoint = IF "checkpoint" \in DOMAIN u THEN u["checkpoint"]
                                      ELSE row.checkpoint
<1>1. DOMAIN row = Columns
  BY RowColumns
<1>2. Written(u) = [f \in Columns |-> IF f \in DOMAIN u THEN u[f] ELSE row[f]]
  BY <1>1 DEF Written
<1>3. \A f \in Columns : Written(u)[f] = IF f \in DOMAIN u THEN u[f] ELSE row[f]
  BY <1>2
<1>4. Written(u) = [status |-> Written(u)["status"], source |-> Written(u)["source"],
                    validation |-> Written(u)["validation"],
                    checkpoint |-> Written(u)["checkpoint"],
                    impact |-> Written(u)["impact"], role |-> Written(u)["role"]]
  BY <1>2 DEF Columns
<1>5. /\ Written(u)["status"] \in {"proposed", "checkpointed"} \cup Final
      /\ Written(u)["source"] \in {"unverified", "valid", "stale"}
      /\ Written(u)["validation"] \in {"unvalidated", "valid", "invalid"}
      /\ Written(u)["checkpoint"] \in {"none", "proposal", "git"}
      /\ Written(u)["impact"] \in {"none", "candidate", "evidenced"}
      /\ Written(u)["role"] \in Roles \cup {"none"}
  BY <1>3 DEF WellFormed, Row, Columns
<1>6. Written(u) \in Row
  BY <1>4, <1>5 DEF Row
<1>7. QED
  BY <1>3, <1>6 DEF Columns

LEMMA InitTypes == Init => TypeInv
<1> SUFFICES ASSUME Init PROVE TypeInv
  OBVIOUS
<1>1. row \in Row /\ row.status = "proposed"
  BY DEF Init, Row
<1>2. packages \in Seq(Package) /\ decisions \in Seq(Final)
  BY DEF Init
<1>3. \A r \in Requests : request[r].op = "none" /\ request[r].update = <<>>
  BY DEF Init, Idle
<1>4. DOMAIN <<>> = {}
  OBVIOUS
<1>5. \A r \in Requests : WellFormed(request[r].update)
  BY <1>3, <1>4 DEF WellFormed
<1>6. proposal \in Proposals /\ handoffs \subseteq DOMAIN packages
  BY DEF Init
<1>7. QED
  BY <1>1, <1>2, <1>3, <1>5, <1>6 DEF TypeInv

\* The columns that a request changes are among those it computed.
LEMMA ChangedColumns ==
    ASSUME NEW columns
    PROVE  /\ DOMAIN Changed(columns) \subseteq DOMAIN columns
           /\ \A f \in DOMAIN columns :
                  f \notin DOMAIN Changed(columns) => columns[f] = row[f]
           /\ \A f \in DOMAIN Changed(columns) : Changed(columns)[f] = columns[f]
  BY DEF Changed

\* A loaded request that is well formed keeps the types.
LEMMA LoadedKeepsTypes ==
    ASSUME LockInv, TypeInv, NEW r \in Requests, NEW op, NEW columns, NEW package,
           WellFormed(Changed(columns)), op = "package" => package \in Package,
           Loaded(r, op, columns, package)
    PROVE  TypeInv'
<1>1. /\ request'[r].op = op /\ request'[r].package = package
      /\ request'[r].update = Changed(columns)
      /\ \A q \in Requests \ {r} : request'[q] = request[q]
  BY DEF LockInv, Loaded
<1>2. /\ proposal' = proposal /\ row' = row /\ packages' = packages
      /\ decisions' = decisions /\ handoffs' = handoffs
  BY DEF Loaded
<1>3. ASSUME NEW q \in Requests
      PROVE  /\ WellFormed(request[q].update)'
             /\ request'[q].op = "package" => request'[q].package \in Package
  <2>1. CASE q = r
    BY <1>1, <1>2, <2>1 DEF WellFormed
  <2>2. CASE q # r
    BY <1>1, <1>2, <2>2 DEF TypeInv, WellFormed
  <2>3. QED
    BY <2>1, <2>2
<1>4. QED
  BY <1>2, <1>3 DEF TypeInv

LEMMA LoadKeepsTypes == ASSUME LockInv, TypeInv, NEW r \in Requests, Load(r) PROVE TypeInv'
<1>1. ASSUME NEW i \in {"candidate", "evidenced"}, AnalyzeImpact(r, i) PROVE TypeInv'
  <2>1. WellFormed(Changed([impact |-> i]))
    BY ChangedColumns DEF WellFormed, Columns
  <2>2. QED
    BY <1>1, <2>1, LoadedKeepsTypes DEF AnalyzeImpact
<1>2. ASSUME NEW s \in {"valid", "stale"}, Loaded(r, "revalidate", [source |-> s], <<>>)
      PROVE  TypeInv'
  <2>1. WellFormed(Changed([source |-> s]))
    BY ChangedColumns DEF WellFormed, Columns
  <2>2. QED
    BY <1>2, <2>1, LoadedKeepsTypes
<1>3. CASE Validate(r)
  <2>1. \A v \in {"valid", "invalid"} : WellFormed(Changed([validation |-> v]))
    <3>1. SUFFICES ASSUME NEW v \in {"valid", "invalid"}
                   PROVE  WellFormed(Changed([validation |-> v]))
      OBVIOUS
    <3>2. QED
      BY ChangedColumns DEF WellFormed, Columns
  <2>2. PICK v \in {"valid", "invalid"} : Loaded(r, "validate", [validation |-> v], <<>>)
    BY <1>3 DEF Validate
  <2>3. QED
    BY <2>1, <2>2, LoadedKeepsTypes
<1>4. ASSUME NEW k \in {"proposal", "git"}, Checkpoint(r, k) PROVE TypeInv'
  <2> DEFINE c == [checkpoint |-> k, status |-> "checkpointed"]
  <2>1. "checkpoint" \in DOMAIN Changed(c) \/ row.checkpoint # "none"
    BY ChangedColumns
  <2>2. WellFormed(Changed(c))
    BY <2>1, ChangedColumns DEF WellFormed, Columns
  <2>3. QED
    BY <1>4, <2>2, LoadedKeepsTypes DEF Checkpoint
<1>5. ASSUME NEW role \in Roles, Approve(r, role) PROVE TypeInv'
  <2> DEFINE c == [status |-> "approved", role |-> role]
  <2>1. row.checkpoint # "none"
    BY <1>5 DEF Approve, Approvable, TypeInv, Row, Final
  <2>2. WellFormed(Changed(c))
    BY <2>1, ChangedColumns DEF WellFormed, Columns, Final
  <2>3. QED
    BY <1>5, <2>2, LoadedKeepsTypes DEF Approve
<1>6. ASSUME NEW role \in Roles, Reject(r, role) PROVE TypeInv'
  <2> DEFINE c == [status |-> "rejected", role |-> role]
  <2>1. WellFormed(Changed(c))
    BY ChangedColumns DEF WellFormed, Columns, Final
  <2>2. QED
    BY <1>6, <2>1, LoadedKeepsTypes DEF Reject
<1>7. WellFormed(Changed(<<>>))
  BY ChangedColumns DEF WellFormed, Columns
<1>8. CASE Export(r)
  <2> DEFINE p == [version |-> NextVersion, status |-> row.status, checkpoint |-> row.checkpoint]
  <2>1. Len(packages) \in Nat /\ row.status = "approved"
    BY <1>8 DEF TypeInv, Export
  <2>2. row.checkpoint \in {"proposal", "git"}
    BY <2>1 DEF TypeInv, Row
  <2>3. p \in Package
    BY <2>1, <2>2 DEF Package, NextVersion, Final
  <2>4. QED
    BY <1>7, <1>8, <2>3, LoadedKeepsTypes DEF Export
<1>9. ASSUME NEW n \in 1..Len(packages), Handoff(r, n) PROVE TypeInv'
  BY <1>7, <1>9, LoadedKeepsTypes DEF Handoff
<1>10. QED
  BY <1>1, <1>2, <1>3, <1>4, <1>5, <1>6, <1>8, <1>9 DEF Load, Revalidate, RevalidateFromTask

LEMMA CommitKeepsTypes == ASSUME LockInv, TypeInv, NEW r \in Requests, Commit(r) PROVE TypeInv'
<1> DEFINE u == request[r].update
           p == request[r].package
<1>1. /\ row' = Written(u) /\ proposal' = proposal
      /\ packages' = IF request[r].op = "package" THEN Append(packages, p) ELSE packages
      /\ decisions' \in {decisions, Append(decisions, "approved"), Append(decisions, "rejected")}
      /\ handoffs' = IF request[r].op = "handoff" THEN handoffs \cup {p.version} ELSE handoffs
      /\ \A q \in Requests : request'[q] = IF q = r THEN Idle ELSE request[q]
  BY DEF Commit, LockInv
<1>2. WellFormed(u) /\ row \in Row
  BY DEF TypeInv
<1>3. row' \in Row /\ (row'.status \in {"checkpointed", "approved"} => row'.checkpoint # "none")
  BY <1>1, <1>2, WrittenRow DEF TypeInv, WellFormed
<1>4. row.checkpoint # "none" => row'.checkpoint # "none"
  BY <1>1, <1>2, WrittenRow DEF WellFormed
<1>5. packages' \in Seq(Package) /\ DOMAIN packages \subseteq DOMAIN packages'
  BY <1>1 DEF TypeInv
<1>6. decisions' \in Seq(Final)
  <2>1. decisions \in Seq(Final) /\ "approved" \in Final /\ "rejected" \in Final
    BY DEF TypeInv, Final
  <2>2. Append(decisions, "approved") \in Seq(Final) /\ Append(decisions, "rejected") \in Seq(Final)
    BY <2>1
  <2>3. QED
    BY <1>1, <2>1, <2>2
<1>7. handoffs' \subseteq DOMAIN packages'
  BY <1>1, <1>5 DEF TypeInv, LockInv, Right
<1>8. DOMAIN <<>> = {} /\ Idle.update = <<>> /\ Idle.op = "none"
  BY DEF Idle
<1>9. ASSUME NEW q \in Requests
      PROVE  /\ WellFormed(request[q].update)'
             /\ request'[q].op = "package" => request'[q].package \in Package
  <2>1. CASE q = r
    BY <1>1, <1>8, <2>1 DEF WellFormed
  <2>2. CASE q # r
    BY <1>1, <1>4, <2>2 DEF TypeInv, WellFormed
  <2>3. QED
    BY <2>1, <2>2
<1>10. QED
  BY <1>1, <1>3, <1>5, <1>6, <1>7, <1>9 DEF TypeInv

LEMMA RollbackKeepsTypes == ASSUME LockInv, TypeInv, NEW r \in Requests, Rollback(r) PROVE TypeInv'
<1>1. /\ \A q \in Requests : request'[q] = IF q = r THEN Idle ELSE request[q]
      /\ row' = row /\ proposal' = proposal /\ packages' = packages
      /\ decisions' = decisions /\ handoffs' = handoffs
  BY DEF Rollback, LockInv
<1>2. DOMAIN <<>> = {} /\ Idle.update = <<>> /\ Idle.op = "none"
  BY DEF Idle
<1>3. ASSUME NEW q \in Requests
      PROVE  /\ WellFormed(request[q].update)'
             /\ request'[q].op = "package" => request'[q].package \in Package
  <2>1. CASE q = r
    BY <1>1, <1>2, <2>1 DEF WellFormed
  <2>2. CASE q # r
    BY <1>1, <2>2 DEF TypeInv, WellFormed
  <2>3. QED
    BY <2>1, <2>2
<1>4. QED
  BY <1>1, <1>3 DEF TypeInv

LEMMA NextTypes == LockInv /\ TypeInv /\ [Next]_vars => TypeInv'
<1> SUFFICES ASSUME LockInv, TypeInv, [Next]_vars PROVE TypeInv'
  OBVIOUS
<1>1. CASE UNCHANGED vars
  BY <1>1 DEF vars, TypeInv, WellFormed
<1>2. QED
  BY <1>1, LoadKeepsTypes, CommitKeepsTypes, RollbackKeepsTypes DEF Next

\* The row, the packages, the decisions and what every request is about to
\* write keep their types; a package carries a final status and a checkpoint.
THEOREM TypeCorrect == Spec => []TypeOK
<1>1. TypeInv => TypeOK
  <2> SUFFICES ASSUME TypeInv PROVE TypeOK
    OBVIOUS
  <2>1. \A n \in DOMAIN packages : packages[n] \in Package
    BY DEF TypeInv
  <2>2. \A n \in DOMAIN decisions : decisions[n] \in Final
    BY DEF TypeInv
  <2>3. \A r \in Requests : /\ DOMAIN request[r].update \subseteq DOMAIN row
                            /\ Written(request[r].update) \in Row
    BY WrittenRow, RowColumns DEF TypeInv, WellFormed
  <2>4. QED
    BY <2>1, <2>2, <2>3 DEF TypeInv, TypeOK, Package
<1>2. Spec => []TypeInv
  BY InitTypes, NextTypes, LockInvariant, PTL DEF Spec
<1>3. QED
  BY <1>1, <1>2, PTL

-----------------------------------------------------------------------------
\* Approvals.  What an approval checked under the lock is still true of the
\* row when it commits, because an unlocked UPDATE waits until then.

Sound(op, u) ==
    /\ op = "approve" =>
           /\ row.source = "valid" /\ row.validation = "valid" /\ row.checkpoint # "none"
           /\ AllowedIn(proposal.environment, Written(u).role, row.impact)
    /\ op = "reject" => Written(u).status = "rejected"

ApprovalInv == \A r \in Requests : Sound(request[r].op, request[r].update)

LEMMA LoadedKeepsApprovals ==
    ASSUME LockInv, ApprovalInv, NEW r \in Requests, NEW op, NEW columns, NEW package,
           Sound(op, Changed(columns)), Loaded(r, op, columns, package)
    PROVE  ApprovalInv'
<1>1. /\ request'[r].op = op /\ request'[r].update = Changed(columns)
      /\ \A q \in Requests \ {r} : request'[q] = request[q]
      /\ row' = row /\ proposal' = proposal
  BY DEF LockInv, Loaded
<1>2. ASSUME NEW q \in Requests PROVE Sound(request[q].op, request[q].update)'
  <2>1. CASE q = r
    BY <1>1, <2>1 DEF Sound, Written
  <2>2. CASE q # r
    BY <1>1, <2>2 DEF ApprovalInv, Sound, Written
  <2>3. QED
    BY <2>1, <2>2
<1>3. QED
  BY <1>2 DEF ApprovalInv

LEMMA LoadKeepsApprovals ==
    ASSUME LockInv, TypeInv, ApprovalInv, NEW r \in Requests, Load(r)
    PROVE  ApprovalInv'
<1>1. ASSUME NEW op, op \notin Decision, NEW columns, NEW package, Loaded(r, op, columns, package)
      PROVE  ApprovalInv'
  BY <1>1, LoadedKeepsApprovals DEF Sound
<1>2. ASSUME NEW role \in Roles, Approve(r, role) PROVE ApprovalInv'
  <2> DEFINE c == [status |-> "approved", role |-> role]
  <2>1. row.checkpoint # "none"
    BY <1>2 DEF Approve, Approvable, TypeInv, Row, Final
  <2>2. DOMAIN row = Columns
    BY RowColumns DEF TypeInv
  <2>3. Written(Changed(c)).role = role
    BY <2>2, ChangedColumns DEF Written, Columns
  <2>4. Sound("approve", Changed(c))
    BY <1>2, <2>1, <2>3 DEF Approve, Approvable, Sound
  <2>5. QED
    BY <1>2, <2>4, LoadedKeepsApprovals DEF Approve
<1>3. ASSUME NEW role \in Roles, Reject(r, role) PROVE ApprovalInv'
  <2> DEFINE c == [status |-> "rejected", role |-> role]
  <2>1. DOMAIN row = Columns
    BY RowColumns DEF TypeInv
  <2>2. Written(Changed(c)).status = "rejected"
    BY <2>1, ChangedColumns DEF Written, Columns
  <2>3. QED
    BY <1>3, <2>2, LoadedKeepsApprovals DEF Reject, Sound
<1>4. QED
  BY <1>1, <1>2, <1>3 DEF Load, AnalyzeImpact, Revalidate, RevalidateFromTask, Validate,
     Checkpoint, Export, Handoff

\* Nobody with the lock is left when a request commits.
LEMMA CommitKeepsApprovals ==
    ASSUME LockInv, NEW r \in Requests, Commit(r)
    PROVE  ApprovalInv'
<1>1. \A q \in Requests : request'[q].op \notin Locking
  BY DEF LockInv, Commit, Free, Idle
<1>2. QED
  BY <1>1 DEF ApprovalInv, Sound

LEMMA NextApprovals == LockInv /\ TypeInv /\ ApprovalInv /\ [Next]_vars => ApprovalInv'
<1> SUFFICES ASSUME LockInv, TypeInv, ApprovalInv, [Next]_vars PROVE ApprovalInv'
  OBVIOUS
<1>1. CASE UNCHANGED vars
  BY <1>1 DEF vars, ApprovalInv, Sound, Written
<1>2. CASE \E r \in Requests : Rollback(r)
  <2>1. PICK r \in Requests : Rollback(r)
    BY <1>2
  <2>2. /\ \A q \in Requests : request'[q] = IF q = r THEN Idle ELSE request[q]
        /\ row' = row /\ proposal' = proposal /\ Idle.op = "none"
    BY <2>1 DEF Rollback, LockInv, Idle
  <2>3. QED
    BY <2>2 DEF ApprovalInv, Sound, Written
<1>3. QED
  BY <1>1, <1>2, LoadKeepsApprovals, CommitKeepsApprovals DEF Next

\* approve_patch_proposal commits only over a proposal whose source and
\* validation are valid, that has a checkpoint, and whose impact the decider
\* may approve in its environment.
THEOREM ApprovalsAreCurrent == Spec => ApprovalIsCurrent
<1> DEFINE Current ==
        Len(decisions') > Len(decisions) /\ row'.status = "approved" =>
            /\ row.source = "valid" /\ row.validation = "valid" /\ row.checkpoint # "none"
            /\ AllowedIn(proposal.environment, row'.role, row.impact)
<1>1. Init => ApprovalInv
  <2> SUFFICES ASSUME Init PROVE ApprovalInv
    OBVIOUS
  <2>1. \A r \in Requests : request[r].op = "none"
    BY DEF Init, Idle
  <2>2. QED
    BY <2>1 DEF ApprovalInv, Sound
<1>2. LockInv /\ TypeInv /\ ApprovalInv /\ [Next]_vars => [Current]_vars
  <2> SUFFICES ASSUME LockInv, TypeInv, ApprovalInv, Next,
                      Len(decisions') > Len(decisions), row'.status = "approved"
               PROVE  /\ row.source = "valid" /\ row.validation = "valid"
                      /\ row.checkpoint # "none"
                      /\ AllowedIn(proposal.environment, row'.role, row.impact)
    BY DEF vars
  <2>1. decisions' # decisions
    <3>1. Len(decisions) \in Nat
      BY DEF TypeInv
    <3>2. QED
      BY <3>1
  <2>2. PICK r \in Requests : Commit(r)
    BY <2>1 DEF Next, Load, Rollback, AnalyzeImpact, Revalidate, RevalidateFromTask, Validate,
       Checkpoint, Approve, Reject, Export, Handoff, Loaded
  <2>3. request[r].op \in Decision /\ row' = Written(request[r].update)
    BY <2>1, <2>2 DEF Commit
  <2>4. request[r].op = "approve"
    BY <2>3 DEF ApprovalInv, Sound
  <2>5. QED
    BY <2>3, <2>4 DEF ApprovalInv, Sound
<1>3. Spec => []TypeInv
  BY InitTypes, NextTypes, LockInvariant, PTL DEF Spec
<1>4. Spec => []ApprovalInv
  BY <1>1, <1>3, NextApprovals, LockInvariant, PTL DEF Spec
<1>5. QED
  BY <1>2, <1>3, <1>4, LockInvariant, PTL DEF Spec, ApprovalIsCurrent
=============================================================================
