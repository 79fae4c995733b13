------------------------------ MODULE Traffic ------------------------------
(***************************************************************************)
(* The monthly traffic budget (backend/app/services/traffic.py) and the    *)
(* two kinds of external call that draw on it: the MCP calls of the        *)
(* retrieval loop (services/retrieval.py over mcp/connector.py) and the    *)
(* model calls of the adapter (modeling/adapter.py).                       *)
(*                                                                         *)
(* A call reserves the largest volume it may take, goes out, and finalizes *)
(* the reservation with the volume it took.  reserve and finalize are      *)
(* transactions of their own that lock the row of the month, so each is    *)
(* one action, except that the first reservation of a month finds no row   *)
(* to lock: two callers can read nothing and both insert.                  *)
(*                                                                         *)
(* Sizes are in small units.  The request sizes, a limit on one MCP result *)
(* and on one model response, and the slack the adapter adds for the chunk *)
(* that overruns the limit keep the roles they have in the code.           *)
(***************************************************************************)
EXTENDS Integers, FiniteSets, Functions

CONSTANTS Callers,      \* worker processes: one external call at a time each
          HardLimit,    \* traffic_hard_limit_bytes
          MaxTask,      \* max_task_mcp_bytes
          MaxResult,    \* max_mcp_result_bytes
          MaxResponse,  \* max_model_response_bytes
          ChunkSize,    \* chunk_size of iter_bytes, and slack of the reservation
          RequestSizes, \* sizes a request may have
          MaxRetries,   \* retries of the tool contract, and model_retries
          NumMonths,    \* bound on the months
          MaxCrashes    \* bound on crashes

ASSUME CallersFinite == IsFiniteSet(Callers)

ASSUME ConstantsOK ==
    /\ HardLimit \in Nat /\ MaxTask \in Nat
    /\ MaxResult \in Nat /\ MaxResponse \in Nat /\ ChunkSize \in Nat \ {0}
    /\ RequestSizes \subseteq Nat \ {0}
    /\ MaxRetries \in Nat /\ NumMonths \in Nat \ {0} /\ MaxCrashes \in Nat

Months == 1..NumMonths
Kinds == {"mcp", "model"}

VARIABLES
    ledger,    \* traffic_usage: the row of each month
    month,     \* the current month (traffic_period)
    pc,        \* what a caller is doing
    call,      \* its call, with the reservation once it has one
    spent,     \* task_traffic_bytes of its run
    earlier,   \* MCP bytes charged to earlier runs of its task
    abandoned, \* reservations of a month that nobody will finalize
    recorded,  \* so far every failed MCP call became a tool_calls row
    crashes

ghosts == <<abandoned, recorded, crashes>>
vars == <<ledger, month, pc, call, spent, earlier, ghosts>>

NoCall == [kind |-> "mcp", size |-> 0, attempt |-> 0, month |-> 0, bytes |-> 0]

Init ==
    /\ ledger = [m \in Months |-> [present |-> FALSE, used |-> 0, reserved |-> 0]]
    /\ month = 1
    /\ pc = [c \in Callers |-> "idle"]
    /\ call = [c \in Callers |-> NoCall]
    /\ spent = [c \in Callers |-> 0]
    /\ earlier = [c \in Callers |-> 0]
    /\ abandoned = [m \in Months |-> 0]
    /\ recorded = TRUE
    /\ crashes = 0

-----------------------------------------------------------------------------
\* What a call reserves.
Amount(kind, size) ==
    IF kind = "mcp" THEN size + MaxResult ELSE size + MaxResponse + ChunkSize

\* Variant: open reservations are not counted.
FitsUsed(m, bytes) == ledger[m].used + bytes <= HardLimit

Fits(m, bytes) == ledger[m].used + ledger[m].reserved + bytes <= HardLimit

\* Variant: the limit ignores the request and the result to come.
TaskAllowsSpent(c, size) == spent[c] < MaxTask

\* The retrieval checks the limit of a task, against what its own run has
\* spent, before it reserves.
TaskAllows(c, size) == spent[c] + Amount("mcp", size) <= MaxTask

\* The call an idle caller may start now; a model call takes no account of
\* the limit of the task.
NewCalls(c) ==
    {k \in [kind : Kinds, size : RequestSizes, attempt : {0}, month : {month}, bytes : {0}] :
        k.kind = "mcp" => TaskAllows(c, k.size)}

\* The next attempt of a model call, which reserves again.
NextAttempt(c) == [kind |-> "model", size |-> call[c].size,
                   attempt |-> call[c].attempt + 1, month |-> month, bytes |-> 0]

\* The reservation is made and the request sent.
Send(c, k) ==
    /\ call' = [call EXCEPT ![c] = [k EXCEPT !.bytes = Amount(k.kind, k.size)]]
    /\ pc' = [pc EXCEPT ![c] = "calling"]

\* The call is over; bytes is what the run has spent when it goes on, 0 when
\* it ended with the call.
End(c, bytes) ==
    /\ pc' = [pc EXCEPT ![c] = "idle"]
    /\ call' = [call EXCEPT ![c] = NoCall]
    /\ spent' = [spent EXCEPT ![c] = bytes]

\* The call ends its task.
TaskEnds(c) == End(c, 0) /\ earlier' = [earlier EXCEPT ![c] = 0]

\* The run breaks off.  Its task stays active, for recovery to start another
\* run of it, which counts from 0.
RunEnds(c) == End(c, 0) /\ earlier' = [earlier EXCEPT ![c] = @ + spent[c]]

\* reserve() with the row of the month there.
Reserve(c, k) ==
    /\ ledger[k.month].present
    /\ Fits(k.month, Amount(k.kind, k.size))
    /\ ledger' = [ledger EXCEPT ![k.month].reserved = @ + Amount(k.kind, k.size)]
    /\ Send(c, k)
    /\ UNCHANGED <<month, spent, earlier, ghosts>>

\* MONTHLY_TRAFFIC_LIMIT_EXCEEDED: the call does not start.
Refuse(c, k) ==
    /\ ledger[k.month].present
    /\ ~Fits(k.month, Amount(k.kind, k.size))
    /\ TaskEnds(c)
    /\ UNCHANGED <<ledger, month, ghosts>>

\* reserve() without the row: nothing to lock, so it goes on to insert one.
ReadAbsent(c, k) ==
    /\ ~ledger[k.month].present
    /\ call' = [call EXCEPT ![c] = k]
    /\ pc' = [pc EXCEPT ![c] = "inserting"]
    /\ UNCHANGED <<ledger, month, spent, earlier, ghosts>>

Insert(c) ==
    LET k == call[c]
        bytes == Amount(k.kind, k.size)
    IN  /\ pc[c] = "inserting"
        /\ ~ledger[k.month].present
        /\ bytes <= HardLimit
        /\ ledger' = [ledger EXCEPT ![k.month] =
                         [present |-> TRUE, used |-> 0, reserved |-> bytes]]
        /\ Send(c, k)
        /\ UNCHANGED <<month, spent, earlier, ghosts>>

\* The limit is below one call: the insert is rolled back with the refusal.
InsertRefused(c) ==
    /\ pc[c] = "inserting"
    /\ ~ledger[call[c].month].present
    /\ Amount(call[c].kind, call[c].size) > HardLimit
    /\ TaskEnds(c)
    /\ UNCHANGED <<ledger, month, ghosts>>

\* Another caller inserted the row meanwhile: IntegrityError, and the attempt
\* at the task ends as an unexpected failure.
InsertConflict(c) ==
    /\ pc[c] = "inserting"
    /\ ledger[call[c].month].present
    /\ RunEnds(c)
    /\ UNCHANGED <<ledger, month, ghosts>>

\* TASK_TRAFFIC_LIMIT_EXCEEDED: no reservation is asked for.
TaskLimitReached(c) ==
    /\ pc[c] = "idle"
    /\ \E s \in RequestSizes : ~TaskAllows(c, s)
    /\ TaskEnds(c)
    /\ UNCHANGED <<ledger, month, ghosts>>

-----------------------------------------------------------------------------
\* A reservation of a row becomes actual use of it.
Settled(l, bytes, actual) ==
    [l EXCEPT !.reserved = l.reserved - bytes, !.used = l.used + actual]

\* Variants of finalize: it settles in the current month; it keeps the
\* reservation.
ChargedNow(k, actual) ==
    [ledger EXCEPT ![month] = Settled(ledger[month], k.bytes, actual)]
ChargedOnly(k, actual) == [ledger EXCEPT ![k.month].used = @ + actual]

\* finalize() settles in the month of the reservation.
Charged(k, actual) ==
    [ledger EXCEPT ![k.month] = Settled(ledger[k.month], k.bytes, actual)]

\* finalize() raises unless the reservation covers the actual volume and the
\* row covers the reservation.
Finalizes(k, actual) ==
    /\ actual \in 0..k.bytes
    /\ ledger[k.month].reserved >= k.bytes
    /\ ledger' = Charged(k, actual)

Calling(c, kind) == pc[c] = "calling" /\ call[c].kind = kind

\* The result of an MCP call, within the limit of one result.
McpAnswers(c, result) ==
    /\ Calling(c, "mcp")
    /\ Finalizes(call[c], call[c].size + result)
    /\ End(c, spent[c] + call[c].size + result)
    /\ UNCHANGED <<month, earlier, abandoned, recorded, crashes>>

\* A larger result: finalize raises ValueError before the size of the result
\* is looked at.  The retrieval fails as RETRIEVAL_FAILED, without its failed
\* call and with the reservation open.
McpAnswersTooMuch(c) ==
    /\ Calling(c, "mcp")
    /\ abandoned' = [abandoned EXCEPT ![call[c].month] = @ + call[c].bytes]
    /\ recorded' = FALSE
    /\ TaskEnds(c)
    /\ UNCHANGED <<ledger, month, crashes>>

\* The connector sends an idempotent call again.
McpRetries(c) ==
    /\ Calling(c, "mcp")
    /\ call[c].attempt < MaxRetries
    /\ call' = [call EXCEPT ![c].attempt = @ + 1]
    /\ UNCHANGED <<ledger, month, pc, spent, earlier, ghosts>>

\* Timed out, or failed for good: one request is charged, however many the
\* connector sent, and the failed call recorded.
McpFails(c) ==
    /\ Calling(c, "mcp")
    /\ Finalizes(call[c], call[c].size)
    /\ TaskEnds(c)
    /\ UNCHANGED <<month, abandoned, recorded, crashes>>

ModelAnswers(c, response) ==
    /\ Calling(c, "model")
    /\ Finalizes(call[c], call[c].size + response)
    /\ TaskEnds(c)
    /\ UNCHANGED <<month, abandoned, recorded, crashes>>

\* The chunk that passes the limit ends the response.
ModelAnswersTooMuch(c, over) ==
    LET response == MaxResponse + over
    IN  /\ Calling(c, "model")
        /\ Finalizes(call[c], call[c].size + response)
        /\ TaskEnds(c)
        /\ UNCHANGED <<month, abandoned, recorded, crashes>>

\* An error: the body of an error status is charged with the request; a body
\* that is not JSON, or cut by a timeout, is not.
ModelError(c, received) ==
    /\ Calling(c, "model")
    /\ Finalizes(call[c], call[c].size + received)

\* An error for good.
ModelFails(c, received) ==
    /\ ModelError(c, received)
    /\ TaskEnds(c)
    /\ UNCHANGED <<month, abandoned, recorded, crashes>>

\* A retryable error: the reservation is finalized before the pause.
ModelBacksOff(c, received) ==
    /\ ModelError(c, received)
    /\ call[c].attempt < MaxRetries
    /\ call' = [call EXCEPT ![c].bytes = 0]
    /\ pc' = [pc EXCEPT ![c] = "backoff"]
    /\ UNCHANGED <<month, spent, earlier, abandoned, recorded, crashes>>

\* The pause does not fit before the deadline of the task.
BackoffTimesOut(c) ==
    /\ pc[c] = "backoff"
    /\ TaskEnds(c)
    /\ UNCHANGED <<ledger, month, ghosts>>

\* The worker dies, in a call or between two: nobody knows its reservation
\* any more.
Crash(c) ==
    /\ pc[c] # "idle" \/ spent[c] # 0
    /\ crashes < MaxCrashes
    /\ crashes' = crashes + 1
    /\ abandoned' = IF pc[c] = "calling"
                    THEN [abandoned EXCEPT ![call[c].month] = @ + call[c].bytes]
                    ELSE abandoned
    /\ RunEnds(c)
    /\ UNCHANGED <<ledger, month, recorded>>

MonthEnds ==
    /\ month < NumMonths
    /\ month' = month + 1
    /\ UNCHANGED <<ledger, pc, call, spent, earlier, ghosts>>

-----------------------------------------------------------------------------
\* The steps that bring a call under way to its end.
Proceed(c) ==
    \/ Insert(c) \/ InsertRefused(c) \/ InsertConflict(c)
    \/ \E r \in 0..MaxResult : McpAnswers(c, r)
    \/ McpAnswersTooMuch(c) \/ McpRetries(c) \/ McpFails(c)
    \/ \E r \in 0..MaxResponse : ModelAnswers(c, r)
    \/ \E r \in 1..ChunkSize : ModelAnswersTooMuch(c, r)
    \/ \E r \in 0..MaxResponse : ModelFails(c, r) \/ ModelBacksOff(c, r)
    \/ BackoffTimesOut(c)

Start(c, k) == Reserve(c, k) \/ Refuse(c, k) \/ ReadAbsent(c, k)

Ask(c) ==
    \/ pc[c] = "idle" /\ \E k \in NewCalls(c) : Start(c, k)
    \/ pc[c] = "backoff" /\ Start(c, NextAttempt(c))
    \/ TaskLimitReached(c)

Next == MonthEnds \/ \E c \in Callers : Ask(c) \/ Proceed(c) \/ Crash(c)

Spec == Init /\ [][Next]_vars

-----------------------------------------------------------------------------
Call == [kind : Kinds, size : RequestSizes \cup {0}, attempt : 0..MaxRetries,
         month : 0..NumMonths, bytes : Nat]

TypeOK ==
    /\ ledger \in [Months -> [present : BOOLEAN, used : Nat, reserved : Nat]]
    /\ month \in Months
    /\ pc \in [Callers -> {"idle", "inserting", "calling", "backoff"}]
    /\ call \in [Callers -> Call]
    /\ spent \in [Callers -> Nat]
    /\ earlier \in [Callers -> Nat]
    /\ abandoned \in [Months -> Nat]
    /\ recorded \in BOOLEAN
    /\ crashes \in 0..MaxCrashes

\* No month accounts for more than the hard limit, whatever is in flight.
WithinHardLimit ==
    \A m \in Months : ledger[m].used + ledger[m].reserved <= HardLimit

\* What each caller holds of a month.
Holding(m) ==
    [c \in Callers |-> IF pc[c] = "calling" /\ call[c].month = m THEN call[c].bytes ELSE 0]

\* The open reservations of a month are those of the calls in flight and of
\* the callers that are gone: every error path of a call returns its own, and
\* finalize always finds what it returns.
ReservationsAccounted ==
    \A m \in Months : ledger[m].reserved = abandoned[m] + SumFunction(Holding(m))

\* The MCP calls of one run stay within the limit of a task, although a call
\* is admitted before the size of its result is known.
RunWithinLimit == \A c \in Callers : spent[c] <= MaxTask

\* All MCP calls of a task, those of its earlier runs included, stay within
\* the limit of the task (README: MAX_TASK_MCP_BYTES).
TaskWithinLimit == \A c \in Callers : earlier[c] + spent[c] <= MaxTask

\* A failed MCP call of a living worker leaves a failed tool_calls row.
FailedCallsRecorded == recorded

-----------------------------------------------------------------------------
\* What the limits rest on, besides the types.

\* A call under way is a request of some month.
CallUnderWay ==
    \A c \in Callers : pc[c] # "idle" =>
        call[c].size \in RequestSizes /\ call[c].month \in Months

\* Only a model call with attempts left pauses.
MayRetry ==
    \A c \in Callers : pc[c] = "backoff" =>
        call[c].kind = "model" /\ call[c].attempt < MaxRetries

\* An MCP call under way was admitted by the limit of a task.
Admitted ==
    \A c \in Callers : pc[c] # "idle" /\ call[c].kind = "mcp" => TaskAllows(c, call[c].size)

TrafficInv ==
    TypeOK /\ WithinHardLimit /\ RunWithinLimit /\ CallUnderWay /\ MayRetry /\ Admitted
=============================================================================
