--------------------------- MODULE TrafficProofs ---------------------------
(***************************************************************************)
(* Theorems about Traffic, for every number of callers, months, crashes    *)
(* and retries and for all limits and sizes.                               *)
(***************************************************************************)
EXTENDS Traffic, DataFacts

USE ConstantsOK DEF Months, Kinds, TaskEnds, RunEnds

-----------------------------------------------------------------------------
LedgerType == [Months -> [present : BOOLEAN, used : Nat, reserved : Nat]]

LEMMA AmountType ==
    ASSUME NEW kind \in Kinds, NEW size \in RequestSizes
    PROVE  Amount(kind, size) \in Nat
  BY DEF Amount

LEMMA NoCallType == NoCall \in Call
  BY DEF NoCall, Call

LEMMA CallFields ==
    ASSUME NEW k \in Call
    PROVE  /\ k.kind \in Kinds /\ k.size \in RequestSizes \cup {0}
           /\ k.attempt \in 0..MaxRetries /\ k.month \in 0..NumMonths /\ k.bytes \in Nat
  BY DEF Call

\* A reservation that fits leaves the ledger well typed and within the limit.
LEMMA ReserveKeepsLimit ==
    ASSUME TypeOK, WithinHardLimit, NEW m \in Months, NEW bytes \in Nat, Fits(m, bytes),
           ledger' = [ledger EXCEPT ![m].reserved = @ + bytes]
    PROVE  ledger' \in LedgerType /\ WithinHardLimit'
<1> DEFINE new == [ledger[m] EXCEPT !.reserved = @ + bytes]
<1>1. ledger \in LedgerType
  BY DEF TypeOK, LedgerType
<1>2. /\ new \in [present : BOOLEAN, used : Nat, reserved : Nat]
      /\ new.used = ledger[m].used /\ new.reserved = ledger[m].reserved + bytes
  <2>1. ledger[m] \in [present : BOOLEAN, used : Nat, reserved : Nat]
    BY <1>1 DEF LedgerType
  <2>2. ledger[m].reserved + bytes \in Nat
    BY <2>1
  <2>3. QED
    BY <2>1, <2>2
<1>3. ledger' = [ledger EXCEPT ![m] = new]
  OBVIOUS
<1> HIDE DEF new
<1>4. ledger' \in LedgerType
  BY <1>1, <1>2, <1>3 DEF LedgerType
<1>5. ledger'[m] = new /\ \A n \in Months : n # m => ledger'[n] = ledger[n]
  BY <1>1, <1>3 DEF LedgerType
<1>6. new.used + new.reserved <= HardLimit
  BY <1>1, <1>2 DEF Fits, LedgerType
<1>7. QED
  BY <1>4, <1>5, <1>6 DEF WithinHardLimit

\* Finalizing a reservation never adds to what the month accounts for.
LEMMA FinalizeKeepsLimit ==
    ASSUME TypeOK, WithinHardLimit, NEW k \in Call, k.month \in Months,
           NEW actual, Finalizes(k, actual)
    PROVE  ledger' \in LedgerType /\ WithinHardLimit'
<1> DEFINE m == k.month
           new == Settled(ledger[m], k.bytes, actual)
<1>1. ledger \in LedgerType /\ k.bytes \in Nat
  BY CallFields DEF TypeOK, LedgerType
<1>2. /\ ledger[m] \in [present : BOOLEAN, used : Nat, reserved : Nat]
      /\ actual \in Nat /\ actual <= k.bytes /\ ledger[m].reserved >= k.bytes
  BY <1>1 DEF Finalizes, LedgerType
<1>3. ledger[m].reserved - k.bytes \in Nat /\ ledger[m].used + actual \in Nat
  BY <1>1, <1>2
<1>4. /\ new \in [present : BOOLEAN, used : Nat, reserved : Nat]
      /\ new.used = ledger[m].used + actual /\ new.reserved = ledger[m].reserved - k.bytes
  <2>1. ASSUME NEW l \in [present : BOOLEAN, used : Nat, reserved : Nat],
               NEW x \in Nat, NEW y \in Nat
        PROVE  LET n == [l EXCEPT !.reserved = x, !.used = y]
               IN  /\ n \in [present : BOOLEAN, used : Nat, reserved : Nat]
                   /\ n.used = y /\ n.reserved = x
    OBVIOUS
  <2>2. QED
    BY <1>2, <1>3, <2>1 DEF Settled
<1>5. ledger' = [ledger EXCEPT ![m] = new]
  BY DEF Finalizes, Charged
<1> HIDE DEF new
<1>6. ledger' \in LedgerType
  BY <1>1, <1>4, <1>5 DEF LedgerType
<1>7. ledger'[m] = new /\ \A n \in Months : n # m => ledger'[n] = ledger[n]
  BY <1>1, <1>5 DEF LedgerType
<1>8. new.used + new.reserved <= HardLimit
  BY <1>1, <1>2, <1>4 DEF WithinHardLimit
<1>9. QED
  BY <1>6, <1>7, <1>8 DEF WithinHardLimit

-----------------------------------------------------------------------------
\* What holds of the callers, the ledger apart.
CallerInv ==
    /\ pc \in [Callers -> {"idle", "inserting", "calling", "backoff"}]
    /\ call \in [Callers -> Call]
    /\ spent \in [Callers -> Nat]
    /\ earlier \in [Callers -> Nat]
    /\ RunWithinLimit /\ CallUnderWay /\ MayRetry /\ Admitted

\* The ghosts and the ledger, the callers apart.
LedgerInv ==
    /\ ledger \in LedgerType /\ WithinHardLimit
    /\ month \in Months
    /\ abandoned \in [Months -> Nat]
    /\ recorded \in BOOLEAN
    /\ crashes \in 0..MaxCrashes

LEMMA InvParts == TrafficInv <=> CallerInv /\ LedgerInv
  BY DEF TrafficInv, CallerInv, LedgerInv, LedgerType, TypeOK

LEMMA InvNextParts == ASSUME TrafficInv' PROVE CallerInv' /\ LedgerInv'
  BY DEF TrafficInv, CallerInv, LedgerInv, LedgerType, TypeOK

LEMMA InvPartsNext == ASSUME CallerInv', LedgerInv' PROVE TrafficInv'
  BY DEF TrafficInv, CallerInv, LedgerInv, LedgerType, TypeOK

\* Where the bytes of a run go when it ends.
EarlierMoves(c) ==
    \/ earlier' = earlier
    \/ earlier' = [earlier EXCEPT ![c] = 0]
    \/ earlier' = [earlier EXCEPT ![c] = @ + spent[c]]

\* A call that ends leaves its caller idle, within the limit of the run.
LEMMA EndKeepsCallers ==
    ASSUME CallerInv, NEW c \in Callers, NEW bytes \in Nat, bytes <= MaxTask, End(c, bytes),
           EarlierMoves(c)
    PROVE  CallerInv'
<1>1. /\ pc'[c] = "idle" /\ spent'[c] = bytes
      /\ \A d \in Callers : d # c => /\ pc'[d] = pc[d] /\ call'[d] = call[d]
                                      /\ spent'[d] = spent[d]
  BY DEF End, CallerInv
<1>2. /\ pc' \in [Callers -> {"idle", "inserting", "calling", "backoff"}]
      /\ call' \in [Callers -> Call] /\ spent' \in [Callers -> Nat]
  BY NoCallType DEF End, CallerInv
<1>e. earlier' \in [Callers -> Nat]
  BY DEF EarlierMoves, CallerInv
<1>3. RunWithinLimit' /\ CallUnderWay'
  BY <1>1 DEF CallerInv, RunWithinLimit, CallUnderWay
<1>4. MayRetry'
  BY <1>1 DEF CallerInv, MayRetry
<1>5. Admitted'
  BY <1>1 DEF CallerInv, Admitted, TaskAllows
<1>6. QED
  BY <1>2, <1>e, <1>3, <1>4, <1>5 DEF CallerInv

COROLLARY RunOverKeepsCallers ==
    ASSUME CallerInv, NEW c \in Callers, TaskEnds(c) \/ RunEnds(c)
    PROVE  CallerInv'
<1>1. 0 \in Nat /\ 0 <= MaxTask /\ End(c, 0) /\ EarlierMoves(c)
  BY DEF EarlierMoves
<1>2. QED
  BY <1>1, EndKeepsCallers

\* The caller goes on with the call k.
LEMMA CallKeepsCallers ==
    ASSUME CallerInv, NEW c \in Callers, NEW k \in Call,
           NEW state \in {"inserting", "calling", "backoff"},
           k.size \in RequestSizes, k.month \in Months,
           state = "backoff" => k.kind = "model" /\ k.attempt < MaxRetries,
           k.kind = "mcp" => TaskAllows(c, k.size),
           call' = [call EXCEPT ![c] = k], pc' = [pc EXCEPT ![c] = state], spent' = spent,
           earlier' = earlier
    PROVE  CallerInv'
<1>1. /\ pc'[c] = state /\ call'[c] = k
      /\ \A d \in Callers : d # c => pc'[d] = pc[d] /\ call'[d] = call[d]
  BY DEF CallerInv
<1>2. /\ pc' \in [Callers -> {"idle", "inserting", "calling", "backoff"}]
      /\ call' \in [Callers -> Call] /\ spent' \in [Callers -> Nat]
      /\ earlier' \in [Callers -> Nat]
  BY DEF CallerInv
<1>3. RunWithinLimit' /\ CallUnderWay'
  BY <1>1 DEF CallerInv, RunWithinLimit, CallUnderWay
<1>4. MayRetry'
  BY <1>1 DEF CallerInv, MayRetry
<1>5. Admitted'
  BY <1>1 DEF CallerInv, Admitted, TaskAllows
<1>6. QED
  BY <1>2, <1>3, <1>4, <1>5 DEF CallerInv

\* The reservation asked for belongs to a well-formed call.
LEMMA SendKeepsCallers ==
    ASSUME CallerInv, NEW c \in Callers, NEW k \in Call,
           k.size \in RequestSizes, k.month \in Months,
           k.kind = "mcp" => TaskAllows(c, k.size), Send(c, k), UNCHANGED <<spent, earlier>>
    PROVE  CallerInv'
<1> DEFINE n == [k EXCEPT !.bytes = Amount(k.kind, k.size)]
<1>1. k.kind \in Kinds /\ Amount(k.kind, k.size) \in Nat
  BY CallFields, AmountType
<1>2. n \in Call /\ n.kind = k.kind /\ n.size = k.size /\ n.month = k.month
  BY <1>1 DEF Call
<1>3. call' = [call EXCEPT ![c] = n] /\ pc' = [pc EXCEPT ![c] = "calling"]
  BY DEF Send
<1> HIDE DEF n
<1>4. QED
  BY <1>2, <1>3, CallKeepsCallers

-----------------------------------------------------------------------------
LEMMA UnderWay ==
    ASSUME CallerInv, NEW c \in Callers, pc[c] # "idle"
    PROVE  /\ call[c] \in Call /\ call[c].size \in RequestSizes /\ call[c].month \in Months
           /\ call[c].kind = "mcp" => TaskAllows(c, call[c].size)
  BY DEF CallerInv, CallUnderWay, Admitted

LEMMA SpentType ==
    ASSUME CallerInv, NEW c \in Callers
    PROVE  spent[c] \in Nat
  BY DEF CallerInv

\* Asking for a reservation, of a new call or of the next attempt.
LEMMA StartKeepsInv ==
    ASSUME TrafficInv, NEW c \in Callers, NEW k \in Call,
           k.size \in RequestSizes, k.month \in Months,
           k.kind = "mcp" => TaskAllows(c, k.size), Start(c, k)
    PROVE  TrafficInv'
<1>0. CallerInv /\ LedgerInv /\ TypeOK /\ WithinHardLimit /\ 0 <= MaxTask
  BY InvParts DEF TrafficInv
<1>1. CASE Reserve(c, k)
  <2>1. CallerInv'
    BY <1>0, <1>1, SendKeepsCallers DEF Reserve
  <2>2. Amount(k.kind, k.size) \in Nat
    BY AmountType, CallFields
  <2>3. ledger' \in LedgerType /\ WithinHardLimit'
    BY <1>0, <1>1, <2>2, ReserveKeepsLimit DEF Reserve
  <2>4. LedgerInv'
    BY <1>0, <1>1, <2>3 DEF LedgerInv, Reserve, ghosts
  <2>5. QED
    BY <2>1, <2>4, InvPartsNext
<1>2. CASE Refuse(c, k)
  <2>1. CallerInv'
    BY <1>0, <1>2, RunOverKeepsCallers DEF Refuse
  <2>2. LedgerInv'
    BY <1>0, <1>2 DEF LedgerInv, LedgerType, Refuse, ghosts, WithinHardLimit
  <2>3. QED
    BY <2>1, <2>2, InvPartsNext
<1>3. CASE ReadAbsent(c, k)
  <2>1. CallerInv'
    BY <1>0, <1>3, CallKeepsCallers DEF ReadAbsent
  <2>2. LedgerInv'
    BY <1>0, <1>3 DEF LedgerInv, LedgerType, ReadAbsent, ghosts, WithinHardLimit
  <2>3. QED
    BY <2>1, <2>2, InvPartsNext
<1>4. QED
  BY <1>1, <1>2, <1>3 DEF Start

LEMMA AskKeepsInv == ASSUME TrafficInv, NEW c \in Callers, Ask(c) PROVE TrafficInv'
<1>0. CallerInv /\ LedgerInv /\ month \in Months
  BY InvParts DEF LedgerInv
<1>1. ASSUME pc[c] = "idle", NEW k \in NewCalls(c), Start(c, k) PROVE TrafficInv'
  <2>1. /\ k \in Call /\ k.size \in RequestSizes /\ k.month \in Months
        /\ k.kind = "mcp" => TaskAllows(c, k.size)
    BY <1>0 DEF NewCalls, Call
  <2>2. QED
    BY <1>1, <2>1, StartKeepsInv
<1>2. ASSUME pc[c] = "backoff", Start(c, NextAttempt(c)) PROVE TrafficInv'
  <2> DEFINE k == NextAttempt(c)
  <2>1. call[c] \in Call /\ call[c].kind = "model" /\ call[c].attempt < MaxRetries
        /\ call[c].size \in RequestSizes
    BY <1>0, <1>2, UnderWay DEF CallerInv, MayRetry
  <2>2. call[c].attempt + 1 \in 0..MaxRetries
    BY <2>1, CallFields
  <2>3. k \in Call /\ k.kind = "model" /\ k.size = call[c].size /\ k.month = month
    BY <1>0, <2>1, <2>2 DEF NextAttempt, Call
  <2> HIDE DEF k
  <2>4. QED
    BY <1>0, <1>2, <2>1, <2>3, StartKeepsInv DEF k
<1>3. ASSUME TaskLimitReached(c) PROVE TrafficInv'
  <2>1. CallerInv'
    BY <1>0, <1>3, RunOverKeepsCallers DEF TaskLimitReached
  <2>2. LedgerInv'
    BY <1>0, <1>3 DEF LedgerInv, LedgerType, TaskLimitReached, ghosts, WithinHardLimit
  <2>3. QED
    BY <2>1, <2>2, InvPartsNext
<1>4. QED
  BY <1>1, <1>2, <1>3 DEF Ask

\* The first reservation of a month, on a row read as absent.
LEMMA InsertKeepsInv ==
    ASSUME TrafficInv, NEW c \in Callers, Insert(c) \/ InsertRefused(c) \/ InsertConflict(c)
    PROVE  TrafficInv'
<1>0. CallerInv /\ LedgerInv
  BY InvParts
<1>1. CASE Insert(c)
  <2> DEFINE k == call[c]
             bytes == Amount(k.kind, k.size)
             new == [present |-> TRUE, used |-> 0, reserved |-> bytes]
  <2>1. /\ k \in Call /\ k.size \in RequestSizes /\ k.month \in Months
        /\ k.kind = "mcp" => TaskAllows(c, k.size)
    BY <1>0, <1>1, UnderWay DEF Insert
  <2>2. CallerInv'
    BY <1>0, <1>1, <2>1, SendKeepsCallers DEF Insert
  <2>3. bytes \in Nat /\ bytes <= HardLimit
    BY <1>1, <2>1, AmountType, CallFields DEF Insert
  <2>4. ledger' = [ledger EXCEPT ![k.month] = new]
    BY <1>1 DEF Insert
  <2>5. new \in [present : BOOLEAN, used : Nat, reserved : Nat]
        /\ new.used + new.reserved <= HardLimit
    BY ONLY <2>3
  <2> HIDE DEF new
  <2>6. ledger' \in LedgerType
    BY <1>0, <2>4, <2>5 DEF LedgerInv, LedgerType
  <2>7. \A m \in Months : ledger'[m] = new \/ ledger'[m] = ledger[m]
    BY <1>0, <2>4 DEF LedgerInv, LedgerType
  <2>8. WithinHardLimit'
    BY <1>0, <2>5, <2>7 DEF LedgerInv, WithinHardLimit
  <2>9. LedgerInv'
    BY <1>0, <1>1, <2>6, <2>8 DEF LedgerInv, Insert, ghosts
  <2>10. QED
    BY <2>2, <2>9, InvPartsNext
<1>2. CASE InsertRefused(c) \/ InsertConflict(c)
  <2>1. CallerInv'
    BY <1>0, <1>2, RunOverKeepsCallers DEF InsertRefused, InsertConflict
  <2>2. LedgerInv'
    BY <1>0, <1>2 DEF LedgerInv, LedgerType, InsertRefused, InsertConflict, ghosts, WithinHardLimit
  <2>3. QED
    BY <2>1, <2>2, InvPartsNext
<1>3. QED
  BY <1>1, <1>2

\* A call that finalizes its reservation and ends.
LEMMA SettledCallEnds ==
    ASSUME TrafficInv, NEW c \in Callers, pc[c] = "calling",
           NEW actual, Finalizes(call[c], actual),
           NEW bytes \in Nat, bytes <= MaxTask, End(c, bytes), EarlierMoves(c),
           UNCHANGED <<month, abandoned, recorded, crashes>>
    PROVE  TrafficInv'
<1>0. CallerInv /\ LedgerInv /\ TypeOK /\ WithinHardLimit
  BY InvParts DEF TrafficInv
<1>1. call[c] \in Call /\ call[c].month \in Months
  BY <1>0, UnderWay
<1>2. ledger' \in LedgerType /\ WithinHardLimit'
  BY <1>0, <1>1, FinalizeKeepsLimit
<1>3. CallerInv'
  BY <1>0, EndKeepsCallers
<1>4. LedgerInv'
  BY <1>0, <1>2 DEF LedgerInv
<1>5. QED
  BY <1>3, <1>4, InvPartsNext

\* The same, for a call that ends the attempt at the task.
COROLLARY SettledCallFails ==
    ASSUME TrafficInv, NEW c \in Callers, pc[c] = "calling",
           NEW actual, Finalizes(call[c], actual),
           TaskEnds(c), UNCHANGED <<month, abandoned, recorded, crashes>>
    PROVE  TrafficInv'
<1>1. 0 \in Nat /\ 0 <= MaxTask
  OBVIOUS
<1>2. QED
  BY <1>1, SettledCallEnds DEF EarlierMoves

LEMMA McpKeepsInv ==
    ASSUME TrafficInv, NEW c \in Callers
    PROVE  /\ \A r \in 0..MaxResult : McpAnswers(c, r) => TrafficInv'
           /\ McpAnswersTooMuch(c) => TrafficInv'
           /\ McpRetries(c) => TrafficInv'
           /\ McpFails(c) => TrafficInv'
<1>0. CallerInv /\ LedgerInv
  BY InvParts
<1>1. ASSUME NEW r \in 0..MaxResult, McpAnswers(c, r) PROVE TrafficInv'
  <2>1. /\ call[c].size \in RequestSizes /\ TaskAllows(c, call[c].size)
        /\ spent[c] \in Nat
    BY <1>0, <1>1, UnderWay, SpentType DEF McpAnswers, Calling
  <2>2. /\ spent[c] + call[c].size + r \in Nat
        /\ spent[c] + call[c].size + r <= MaxTask
    <3>1. spent[c] + (call[c].size + MaxResult) <= MaxTask
      BY <2>1 DEF TaskAllows, Amount
    <3>2. call[c].size \in Nat
      BY <2>1
    <3>3. QED
      BY <2>1, <3>1, <3>2
  <2>3. QED
    BY <1>1, <2>2, SettledCallEnds DEF McpAnswers, Calling, EarlierMoves
<1>2. ASSUME McpAnswersTooMuch(c) PROVE TrafficInv'
  <2>1. call[c] \in Call /\ call[c].month \in Months /\ call[c].bytes \in Nat
    BY <1>0, <1>2, UnderWay, CallFields DEF McpAnswersTooMuch, Calling
  <2>2. CallerInv'
    BY <1>0, <1>2, RunOverKeepsCallers DEF McpAnswersTooMuch
  <2>3. abandoned' \in [Months -> Nat]
    BY <1>0, <1>2, <2>1 DEF LedgerInv, McpAnswersTooMuch
  <2>4. LedgerInv'
    BY <1>0, <1>2, <2>3 DEF LedgerInv, LedgerType, McpAnswersTooMuch, WithinHardLimit
  <2>5. QED
    BY <2>2, <2>4, InvPartsNext
<1>3. ASSUME McpRetries(c) PROVE TrafficInv'
  <2> DEFINE k == [call[c] EXCEPT !.attempt = @ + 1]
  <2>1. /\ call[c] \in Call /\ call[c].size \in RequestSizes /\ call[c].month \in Months
        /\ TaskAllows(c, call[c].size) /\ call[c].attempt < MaxRetries
    BY <1>0, <1>3, UnderWay DEF McpRetries, Calling
  <2>2. call[c].attempt + 1 \in 0..MaxRetries
    BY <2>1, CallFields
  <2>3. k \in Call /\ k.size = call[c].size /\ k.month = call[c].month
    BY <2>1, <2>2 DEF Call
  <2>4. /\ call' = [call EXCEPT ![c] = k] /\ pc' = [pc EXCEPT ![c] = "calling"]
        /\ spent' = spent /\ earlier' = earlier
    BY <1>0, <1>3 DEF McpRetries, Calling, CallerInv
  <2> HIDE DEF k
  <2>5. CallerInv'
    BY <1>0, <2>1, <2>3, <2>4, CallKeepsCallers
  <2>6. LedgerInv'
    BY <1>0, <1>3 DEF LedgerInv, LedgerType, McpRetries, ghosts, WithinHardLimit
  <2>7. QED
    BY <2>5, <2>6, InvPartsNext
<1>4. ASSUME McpFails(c) PROVE TrafficInv'
  BY <1>4, SettledCallFails DEF McpFails, Calling
<1>5. QED
  BY <1>1, <1>2, <1>3, <1>4

LEMMA ModelKeepsInv ==
    ASSUME TrafficInv, NEW c \in Callers
    PROVE  /\ \A r \in 0..MaxResponse : ModelAnswers(c, r) => TrafficInv'
           /\ \A r \in 1..ChunkSize : ModelAnswersTooMuch(c, r) => TrafficInv'
           /\ \A r \in 0..MaxResponse : ModelFails(c, r) => TrafficInv'
           /\ \A r \in 0..MaxResponse : ModelBacksOff(c, r) => TrafficInv'
           /\ BackoffTimesOut(c) => TrafficInv'
<1>0. CallerInv /\ LedgerInv /\ TypeOK /\ WithinHardLimit
  BY InvParts DEF TrafficInv
<1>1. ASSUME NEW r \in 0..MaxResponse, ModelAnswers(c, r) PROVE TrafficInv'
  BY <1>1, SettledCallFails DEF ModelAnswers, Calling
<1>2. ASSUME NEW r \in 1..ChunkSize, ModelAnswersTooMuch(c, r) PROVE TrafficInv'
  BY <1>2, SettledCallFails DEF ModelAnswersTooMuch, Calling
<1>3. ASSUME NEW r \in 0..MaxResponse, ModelFails(c, r) PROVE TrafficInv'
  BY <1>3, SettledCallFails DEF ModelFails, ModelError, Calling
<1>4. ASSUME NEW r \in 0..MaxResponse, ModelBacksOff(c, r) PROVE TrafficInv'
  <2> DEFINE k == [call[c] EXCEPT !.bytes = 0]
  <2>1. /\ call[c] \in Call /\ call[c].size \in RequestSizes /\ call[c].month \in Months
        /\ call[c].kind = "model" /\ call[c].attempt < MaxRetries
    BY <1>0, <1>4, UnderWay DEF ModelBacksOff, ModelError, Calling
  <2>2. /\ k \in Call /\ k.size = call[c].size /\ k.month = call[c].month
        /\ k.kind = call[c].kind /\ k.attempt = call[c].attempt
    BY <2>1 DEF Call
  <2>3. /\ call' = [call EXCEPT ![c] = k] /\ pc' = [pc EXCEPT ![c] = "backoff"]
        /\ spent' = spent /\ earlier' = earlier
    BY <1>4 DEF ModelBacksOff
  <2> HIDE DEF k
  <2>4. CallerInv'
    BY <1>0, <2>1, <2>2, <2>3, CallKeepsCallers
  <2>5. ledger' \in LedgerType /\ WithinHardLimit'
    BY <1>0, <1>4, <2>1, FinalizeKeepsLimit DEF ModelBacksOff, ModelError
  <2>6. LedgerInv'
    BY <1>0, <1>4, <2>5 DEF LedgerInv, ModelBacksOff
  <2>7. QED
    BY <2>4, <2>6, InvPartsNext
<1>5. ASSUME BackoffTimesOut(c) PROVE TrafficInv'
  <2>1. CallerInv'
    BY <1>0, <1>5, RunOverKeepsCallers DEF BackoffTimesOut
  <2>2. LedgerInv'
    BY <1>0, <1>5 DEF LedgerInv, LedgerType, BackoffTimesOut, ghosts, WithinHardLimit
  <2>3. QED
    BY <2>1, <2>2, InvPartsNext
<1>6. QED
  BY <1>1, <1>2, <1>3, <1>4, <1>5

LEMMA CrashKeepsInv == ASSUME TrafficInv, NEW c \in Callers, Crash(c) PROVE TrafficInv'
<1>0. CallerInv /\ LedgerInv
  BY InvParts
<1>1. pc[c] = "calling" => call[c].month \in Months /\ call[c].bytes \in Nat
  BY <1>0, UnderWay, CallFields
<1>2. CallerInv'
  BY <1>0, RunOverKeepsCallers DEF Crash
<1>3. abandoned' \in [Months -> Nat]
  BY <1>0, <1>1 DEF LedgerInv, Crash
<1>4. crashes' \in 0..MaxCrashes
  BY <1>0 DEF LedgerInv, Crash
<1>5. LedgerInv'
  BY <1>0, <1>3, <1>4 DEF LedgerInv, LedgerType, Crash, WithinHardLimit
<1>6. QED
  BY <1>2, <1>5, InvPartsNext

LEMMA InitInv == Init => TrafficInv
<1> SUFFICES ASSUME Init PROVE TrafficInv
  OBVIOUS
<1>1. LedgerInv
  BY DEF Init, LedgerInv, LedgerType, WithinHardLimit
<1>2. \A c \in Callers : pc[c] = "idle" /\ spent[c] = 0 /\ call[c] = NoCall
  BY DEF Init
<1>3. /\ pc \in [Callers -> {"idle", "inserting", "calling", "backoff"}]
      /\ call \in [Callers -> Call] /\ spent \in [Callers -> Nat]
      /\ earlier \in [Callers -> Nat]
  BY NoCallType DEF Init
<1>4. RunWithinLimit /\ CallUnderWay /\ MayRetry /\ Admitted
  BY <1>2 DEF RunWithinLimit, CallUnderWay, MayRetry, Admitted
<1>5. QED
  BY <1>1, <1>3, <1>4, InvParts DEF CallerInv

LEMMA NextInv == TrafficInv /\ [Next]_vars => TrafficInv'
<1> SUFFICES ASSUME TrafficInv, [Next]_vars PROVE TrafficInv'
  OBVIOUS
<1>0. CallerInv /\ LedgerInv
  BY InvParts
<1>1. CASE MonthEnds
  <2>1. month' \in Months
    BY <1>0, <1>1 DEF LedgerInv, MonthEnds
  <2>2. LedgerInv'
    BY <1>0, <1>1, <2>1 DEF LedgerInv, LedgerType, MonthEnds, ghosts, WithinHardLimit
  <2>3. CallerInv'
    BY <1>0, <1>1 DEF CallerInv, MonthEnds, RunWithinLimit, CallUnderWay, MayRetry, Admitted,
       TaskAllows
  <2>4. QED
    BY <2>2, <2>3, InvPartsNext
<1>2. ASSUME NEW c \in Callers, Proceed(c) PROVE TrafficInv'
  BY <1>2, InsertKeepsInv, McpKeepsInv, ModelKeepsInv DEF Proceed
<1>3. CASE UNCHANGED vars
  <2>1. LedgerInv'
    BY <1>0, <1>3 DEF LedgerInv, LedgerType, vars, ghosts, WithinHardLimit
  <2>2. CallerInv'
    BY <1>0, <1>3 DEF CallerInv, vars, RunWithinLimit, CallUnderWay, MayRetry, Admitted, TaskAllows
  <2>3. QED
    BY <2>1, <2>2, InvPartsNext
<1>4. QED
  BY <1>1, <1>2, <1>3, AskKeepsInv, CrashKeepsInv DEF Next

\* Types, the limits and what they rest on, in every state of the callers.
THEOREM TrafficInvariant == Spec => []TrafficInv
  BY InitInv, NextInv, PTL DEF Spec

\* No month ever accounts for more than traffic_hard_limit_bytes: reserve
\* counts the open reservations under the lock of the row, and finalize never
\* charges more than it returns.
THEOREM HardLimitHolds == Spec => []WithinHardLimit
<1>1. TrafficInv => WithinHardLimit
  BY DEF TrafficInv
<1>2. QED
  BY <1>1, TrafficInvariant, PTL

\* The MCP calls of one run never carry more than max_task_mcp_bytes: the
\* retrieval admits a call with its largest result.  The runs of a task
\* together may pass that limit, since each of them counts from 0.
THEOREM RunLimitHolds == Spec => []RunWithinLimit
<1>1. TrafficInv => RunWithinLimit
  BY DEF TrafficInv
<1>2. QED
  BY <1>1, TrafficInvariant, PTL

\* Every variable keeps its type; in particular reserved_bytes never falls
\* below zero.
THEOREM TypeCorrect == Spec => []TypeOK
<1>1. TrafficInv => TypeOK
  BY DEF TrafficInv
<1>2. QED
  BY <1>1, TrafficInvariant, PTL
-----------------------------------------------------------------------------
\* The open reservations: a row that is not there has none.
AbsentIsEmpty == \A m \in Months : ~ledger[m].present => ledger[m].reserved = 0

AccountInv == ReservationsAccounted /\ AbsentIsEmpty

LEMMA HoldingType ==
    ASSUME CallerInv, NEW m \in Months
    PROVE  Holding(m) \in [Callers -> Nat]
  BY CallFields DEF CallerInv, Holding

LEMMA HoldingNextType ==
    ASSUME CallerInv', NEW m \in Months
    PROVE  Holding(m)' \in [Callers -> Nat]
  BY CallFields DEF CallerInv, Holding

\* What a caller holds, and what it will.
Held(c, m) == IF pc[c] = "calling" /\ call[c].month = m THEN call[c].bytes ELSE 0

\* One term of a sum moves.
LEMMA OneTermMoves ==
    ASSUME NEW S, IsFiniteSet(S), NEW f, NEW g, NEW c \in S, Ints(f, S), Ints(g, S),
           DOMAIN f = S, DOMAIN g = S, \A d \in S \ {c} : f[d] = g[d]
    PROVE  /\ SumFunction(f) \in Int /\ SumFunction(g) \in Int
           /\ SumFunction(g) + f[c] = SumFunction(f) + g[c]
<1>1. SumFunction(g) = SumFunction(f) - f[c] + g[c]
  BY SumChange DEF SumFunction
<1>2. SumFunction(f) \in Int /\ SumFunction(g) \in Int /\ f[c] \in Int /\ g[c] \in Int
  BY SumType DEF SumFunction, Ints
<1>3. QED
  BY <1>1, <1>2

\* One caller moves; the ledger and what is abandoned move with it.
LEMMA OneMoves ==
    ASSUME CallerInv, CallerInv', ReservationsAccounted, NEW c \in Callers,
           \A d \in Callers : d # c => pc'[d] = pc[d] /\ call'[d] = call[d],
           ledger \in LedgerType, ledger' \in LedgerType,
           abandoned \in [Months -> Nat], abandoned' \in [Months -> Nat],
           \A m \in Months : ledger'[m].reserved + abandoned[m] + Held(c, m) =
                               ledger[m].reserved + abandoned'[m] + Held(c, m)'
    PROVE  ReservationsAccounted'
<1> SUFFICES ASSUME NEW m \in Months
             PROVE  ledger'[m].reserved = abandoned'[m] + SumFunction(Holding(m)')
  BY DEF ReservationsAccounted
<1>1. PICK f \in [Callers -> Nat] : f = Holding(m)
  BY HoldingType
<1>2. PICK g \in [Callers -> Nat] : g = Holding(m)'
  BY HoldingNextType
<1>3. f[c] = Held(c, m) /\ g[c] = Held(c, m)'
  BY <1>1, <1>2 DEF Holding, Held
<1>4. \A d \in Callers \ {c} : f[d] = g[d]
  BY <1>1, <1>2 DEF Holding
<1>5. ledger[m].reserved = abandoned[m] + SumFunction(f)
  BY <1>1 DEF ReservationsAccounted
<1>6. /\ SumFunction(f) \in Int /\ SumFunction(g) \in Int
      /\ SumFunction(g) + f[c] = SumFunction(f) + g[c]
  <2>1. Ints(f, Callers) /\ Ints(g, Callers) /\ DOMAIN f = Callers /\ DOMAIN g = Callers
    BY DEF Ints
  <2>2. QED
    BY <1>4, <2>1, OneTermMoves, CallersFinite
<1>7. /\ ledger[m].reserved \in Nat /\ ledger'[m].reserved \in Nat
      /\ abandoned[m] \in Nat /\ abandoned'[m] \in Nat /\ f[c] \in Nat /\ g[c] \in Nat
  BY DEF LedgerType
<1>8. ledger'[m].reserved + abandoned[m] + f[c] = ledger[m].reserved + abandoned'[m] + g[c]
  BY <1>3
<1>9. ledger'[m].reserved = abandoned'[m] + SumFunction(g)
  <2>1. PICK l \in Nat, ln \in Nat, a \in Nat, an \in Nat, h \in Nat, hn \in Nat :
            /\ l = ledger[m].reserved /\ ln = ledger'[m].reserved
            /\ a = abandoned[m] /\ an = abandoned'[m] /\ h = f[c] /\ hn = g[c]
    BY <1>7
  <2>2. PICK sum \in Int, sumn \in Int : sum = SumFunction(f) /\ sumn = SumFunction(g)
    BY <1>6
  <2>3. l = a + sum /\ sumn + h = sum + hn /\ ln + a + h = l + an + hn
    BY <1>5, <1>6, <1>8, <2>1, <2>2
  <2>4. ln = an + sumn
    BY ONLY <2>3
  <2>5. QED
    BY <2>1, <2>2, <2>4
<1>10. QED
  BY <1>2, <1>9

\* Reservations, and who holds them, stay as they are.
LEMMA NothingMoves ==
    ASSUME AccountInv, CallerInv, CallerInv', LedgerInv, NEW c \in Callers,
           \A d \in Callers : d # c => pc'[d] = pc[d] /\ call'[d] = call[d],
           \A m \in Months : Held(c, m)' = Held(c, m),
           ledger' = ledger, abandoned' = abandoned
    PROVE  AccountInv'
<1>1. ledger \in LedgerType /\ abandoned \in [Months -> Nat]
  BY DEF LedgerInv
<1>2. ReservationsAccounted'
  <2>1. \A m \in Months : ledger'[m].reserved + abandoned[m] + Held(c, m) =
                            ledger[m].reserved + abandoned'[m] + Held(c, m)'
    OBVIOUS
  <2>2. QED
    BY <1>1, <2>1, OneMoves DEF AccountInv
<1>3. QED
  BY <1>2 DEF AccountInv, AbsentIsEmpty

\* A call ends, or pauses, and holds nothing more.
LEMMA EndFrees ==
    ASSUME CallerInv, NEW c \in Callers, NEW bytes, End(c, bytes)
    PROVE  /\ \A d \in Callers : d # c => pc'[d] = pc[d] /\ call'[d] = call[d]
           /\ \A m \in Months : Held(c, m)' = 0
  BY DEF End, CallerInv, Held

LEMMA SendHolds ==
    ASSUME CallerInv, NEW c \in Callers, NEW k \in Call, Send(c, k)
    PROVE  /\ \A d \in Callers : d # c => pc'[d] = pc[d] /\ call'[d] = call[d]
           /\ \A m \in Months : Held(c, m)' = IF k.month = m THEN Amount(k.kind, k.size) ELSE 0
<1> DEFINE n == [k EXCEPT !.bytes = Amount(k.kind, k.size)]
<1>1. n.month = k.month /\ n.bytes = Amount(k.kind, k.size)
  BY DEF Call
<1>2. call' = [call EXCEPT ![c] = n] /\ pc' = [pc EXCEPT ![c] = "calling"]
  BY DEF Send
<1> HIDE DEF n
<1>3. QED
  BY <1>1, <1>2 DEF CallerInv, Held

\* reserve, of a new call or of the next attempt.
LEMMA StartKeepsAccount ==
    ASSUME TrafficInv, TrafficInv', AccountInv, NEW c \in Callers, NEW k \in Call,
           k.size \in RequestSizes, k.month \in Months, pc[c] # "calling", Start(c, k)
    PROVE  AccountInv'
<1>0. CallerInv /\ LedgerInv /\ CallerInv' /\ LedgerInv'
  BY InvParts, InvNextParts
<1>1. \A m \in Months : Held(c, m) = 0
  BY DEF Held
<1>2. CASE Reserve(c, k)
  <2> DEFINE a == Amount(k.kind, k.size)
  <2>1. a \in Nat
    BY AmountType, CallFields
  <2>2. /\ \A d \in Callers : d # c => pc'[d] = pc[d] /\ call'[d] = call[d]
        /\ \A m \in Months : Held(c, m)' = IF k.month = m THEN a ELSE 0
    BY <1>0, <1>2, SendHolds DEF Reserve
  <2>3. /\ ledger' = [ledger EXCEPT ![k.month].reserved = @ + a]
        /\ abandoned' = abandoned /\ ledger[k.month].present
    BY <1>2 DEF Reserve, ghosts
  <2> HIDE DEF a
  <2>4. /\ ledger \in LedgerType /\ ledger' \in LedgerType /\ abandoned \in [Months -> Nat]
        /\ abandoned' \in [Months -> Nat]
    BY <1>0 DEF LedgerInv
  <2>5. \A m \in Months : /\ ledger'[m].present = ledger[m].present
                           /\ ledger'[m].reserved =
                                  ledger[m].reserved + IF k.month = m THEN a ELSE 0
    <3>1. ASSUME NEW m \in Months PROVE ledger[m].reserved + 0 = ledger[m].reserved
      <4>1. ledger[m].reserved \in Nat
        BY <2>4 DEF LedgerType
      <4>2. QED
        BY <4>1
    <3>2. QED
      BY <2>3, <2>4, <3>1 DEF LedgerType
  <2>6. \A m \in Months : ledger'[m].reserved + abandoned[m] + Held(c, m) =
                            ledger[m].reserved + abandoned'[m] + Held(c, m)'
    <3> SUFFICES ASSUME NEW m \in Months
                 PROVE  ledger'[m].reserved + abandoned[m] + Held(c, m) =
                            ledger[m].reserved + abandoned'[m] + Held(c, m)'
      OBVIOUS
    <3>1. ledger[m].reserved \in Nat /\ abandoned[m] \in Nat
      BY <2>4 DEF LedgerType
    <3>2. QED
      BY <1>1, <2>1, <2>2, <2>3, <2>5, <3>1
  <2>7. ReservationsAccounted'
    BY <1>0, <2>2, <2>4, <2>6, OneMoves DEF AccountInv
  <2>8. AbsentIsEmpty'
    <3> SUFFICES ASSUME NEW m \in Months, ~ledger'[m].present PROVE ledger'[m].reserved = 0
      BY DEF AbsentIsEmpty
    <3>1. ~ledger[m].present /\ k.month # m
      BY <2>3, <2>5
    <3>2. QED
      BY <2>5, <3>1 DEF AccountInv, AbsentIsEmpty
  <2>9. QED
    BY <2>7, <2>8 DEF AccountInv
<1>3. CASE Refuse(c, k)
  <2>1. /\ \A d \in Callers : d # c => pc'[d] = pc[d] /\ call'[d] = call[d]
        /\ \A m \in Months : Held(c, m)' = 0
    BY <1>0, <1>3, EndFrees DEF Refuse
  <2>2. QED
    BY <1>0, <1>1, <1>3, <2>1, NothingMoves DEF Refuse, ghosts
<1>4. CASE ReadAbsent(c, k)
  <2>1. /\ \A d \in Callers : d # c => pc'[d] = pc[d] /\ call'[d] = call[d]
        /\ \A m \in Months : Held(c, m)' = 0
    BY <1>0, <1>4 DEF ReadAbsent, CallerInv, Held
  <2>2. QED
    BY <1>0, <1>1, <1>4, <2>1, NothingMoves DEF ReadAbsent, ghosts
<1>5. QED
  BY <1>2, <1>3, <1>4 DEF Start

LEMMA AskKeepsAccount ==
    ASSUME TrafficInv, TrafficInv', AccountInv, NEW c \in Callers, Ask(c)
    PROVE  AccountInv'
<1>0. CallerInv /\ LedgerInv /\ CallerInv' /\ month \in Months
  BY InvParts, InvNextParts DEF LedgerInv
<1>1. ASSUME pc[c] = "idle", NEW k \in NewCalls(c), Start(c, k) PROVE AccountInv'
  <2>1. k \in Call /\ k.size \in RequestSizes /\ k.month \in Months
    BY <1>0 DEF NewCalls, Call
  <2>2. QED
    BY <1>1, <2>1, StartKeepsAccount
<1>2. ASSUME pc[c] = "backoff", Start(c, NextAttempt(c)) PROVE AccountInv'
  <2> DEFINE k == NextAttempt(c)
  <2>1. call[c] \in Call /\ call[c].attempt < MaxRetries /\ call[c].size \in RequestSizes
    BY <1>0, <1>2, UnderWay DEF CallerInv, MayRetry
  <2>2. call[c].attempt + 1 \in 0..MaxRetries
    BY <2>1, CallFields
  <2>3. k \in Call /\ k.size \in RequestSizes /\ k.month \in Months
    BY <1>0, <2>1, <2>2 DEF NextAttempt, Call
  <2> HIDE DEF k
  <2>4. QED
    BY <1>2, <2>3, StartKeepsAccount DEF k
<1>3. ASSUME TaskLimitReached(c) PROVE AccountInv'
  <2>1. /\ \A d \in Callers : d # c => pc'[d] = pc[d] /\ call'[d] = call[d]
        /\ \A m \in Months : Held(c, m)' = Held(c, m)
    BY <1>0, <1>3, EndFrees DEF TaskLimitReached, Held
  <2>2. QED
    BY <1>0, <1>3, <2>1, NothingMoves DEF TaskLimitReached, ghosts
<1>4. QED
  BY <1>1, <1>2, <1>3 DEF Ask
\* The insert of a row, whose reservations were none.
LEMMA InsertKeepsAccount ==
    ASSUME TrafficInv, TrafficInv', AccountInv, NEW c \in Callers,
           Insert(c) \/ InsertRefused(c) \/ InsertConflict(c)
    PROVE  AccountInv'
<1>0. CallerInv /\ LedgerInv /\ CallerInv' /\ LedgerInv'
  BY InvParts, InvNextParts
<1>1. \A m \in Months : Held(c, m) = 0
  BY DEF Held, Insert, InsertRefused, InsertConflict
<1>2. CASE Insert(c)
  <2> DEFINE k == call[c]
             a == Amount(k.kind, k.size)
             new == [present |-> TRUE, used |-> 0, reserved |-> a]
  <2>1. k \in Call /\ k.size \in RequestSizes /\ k.month \in Months
    BY <1>0, <1>2, UnderWay DEF Insert
  <2>2. a \in Nat
    BY <2>1, AmountType, CallFields
  <2>3. /\ \A d \in Callers : d # c => pc'[d] = pc[d] /\ call'[d] = call[d]
        /\ \A m \in Months : Held(c, m)' = IF k.month = m THEN a ELSE 0
    BY <1>0, <1>2, <2>1, SendHolds DEF Insert
  <2>4. /\ ledger' = [ledger EXCEPT ![k.month] = new]
        /\ abandoned' = abandoned /\ ~ledger[k.month].present
    BY <1>2 DEF Insert, ghosts
  <2>5. new.present /\ new.reserved = a
    OBVIOUS
  <2> HIDE DEF a, k, new
  <2>6. /\ ledger \in LedgerType /\ ledger' \in LedgerType /\ abandoned \in [Months -> Nat]
        /\ abandoned' \in [Months -> Nat]
    BY <1>0 DEF LedgerInv
  <2>7. ledger[k.month].reserved = 0
    BY <2>1, <2>4 DEF AccountInv, AbsentIsEmpty
  <2>8. \A m \in Months : ledger'[m] = IF m = k.month THEN new ELSE ledger[m]
    BY <2>4, <2>6 DEF LedgerType
  <2>9. \A m \in Months : ledger'[m].reserved + abandoned[m] + Held(c, m) =
                            ledger[m].reserved + abandoned'[m] + Held(c, m)'
    <3> SUFFICES ASSUME NEW m \in Months
                 PROVE  ledger'[m].reserved + abandoned[m] + Held(c, m) =
                            ledger[m].reserved + abandoned'[m] + Held(c, m)'
      OBVIOUS
    <3>1. ledger[m].reserved \in Nat /\ abandoned[m] \in Nat
      BY <2>6 DEF LedgerType
    <3>2. ledger'[m].reserved = IF m = k.month THEN a ELSE ledger[m].reserved
      BY <2>5, <2>8
    <3>3. QED
      BY <1>1, <2>2, <2>3, <2>4, <2>7, <3>1, <3>2
  <2>10. ReservationsAccounted'
    BY <1>0, <2>3, <2>6, <2>9, OneMoves DEF AccountInv
  <2>11. AbsentIsEmpty'
    BY <2>5, <2>8 DEF AccountInv, AbsentIsEmpty
  <2>12. QED
    BY <2>10, <2>11 DEF AccountInv
<1>3. CASE InsertRefused(c) \/ InsertConflict(c)
  <2>1. /\ \A d \in Callers : d # c => pc'[d] = pc[d] /\ call'[d] = call[d]
        /\ \A m \in Months : Held(c, m)' = 0
    BY <1>0, <1>3, EndFrees DEF InsertRefused, InsertConflict
  <2>2. QED
    BY <1>0, <1>1, <1>3, <2>1, NothingMoves DEF InsertRefused, InsertConflict, ghosts
<1>4. QED
  BY <1>2, <1>3

\* finalize returns the reservation of the call, which holds it no more.
LEMMA FinalizeKeepsAccount ==
    ASSUME TrafficInv, TrafficInv', AccountInv, NEW c \in Callers, pc[c] = "calling",
           NEW actual, Finalizes(call[c], actual), abandoned' = abandoned,
           \A d \in Callers : d # c => pc'[d] = pc[d] /\ call'[d] = call[d],
           \A m \in Months : Held(c, m)' = 0
    PROVE  AccountInv'
<1>0. CallerInv /\ LedgerInv /\ CallerInv' /\ LedgerInv'
  BY InvParts, InvNextParts
<1> DEFINE k == call[c]
           l == ledger[k.month]
<1>1. k \in Call /\ k.month \in Months /\ k.bytes \in Nat
  BY <1>0, UnderWay, CallFields
<1>2. /\ ledger \in LedgerType /\ ledger' \in LedgerType /\ abandoned \in [Months -> Nat]
      /\ abandoned' \in [Months -> Nat]
  BY <1>0 DEF LedgerInv
<1>3. \A m \in Months : Held(c, m) = IF k.month = m THEN k.bytes ELSE 0
  BY DEF Held
<1>4. /\ ledger' = [ledger EXCEPT ![k.month] = Settled(l, k.bytes, actual)]
      /\ actual \in 0..k.bytes /\ l.reserved >= k.bytes
  BY DEF Finalizes, Charged
<1>5. l \in [present : BOOLEAN, used : Nat, reserved : Nat]
  BY <1>1, <1>2 DEF LedgerType
<1>6. /\ Settled(l, k.bytes, actual).reserved = l.reserved - k.bytes
      /\ Settled(l, k.bytes, actual).present = l.present
  BY <1>5 DEF Settled
<1>7. \A m \in Months : ledger'[m] = IF m = k.month THEN Settled(l, k.bytes, actual) ELSE ledger[m]
  BY <1>2, <1>4 DEF LedgerType
<1>8. \A m \in Months : ledger'[m].reserved + abandoned[m] + Held(c, m) =
                          ledger[m].reserved + abandoned'[m] + Held(c, m)'
  <2> SUFFICES ASSUME NEW m \in Months
               PROVE  ledger'[m].reserved + abandoned[m] + Held(c, m) =
                          ledger[m].reserved + abandoned'[m] + Held(c, m)'
    OBVIOUS
  <2>1. ledger[m].reserved \in Nat /\ abandoned[m] \in Nat
    BY <1>2 DEF LedgerType
  <2>2. ledger'[m].reserved = IF m = k.month THEN ledger[m].reserved - k.bytes ELSE ledger[m].reserved
    BY <1>6, <1>7
  <2> HIDE DEF k, l
  <2>3. QED
    BY <1>1, <1>3, <2>1, <2>2
<1>9. ReservationsAccounted'
  BY <1>0, <1>2, <1>8, OneMoves DEF AccountInv
<1>10. AbsentIsEmpty'
  <2> SUFFICES ASSUME NEW m \in Months, ~ledger'[m].present PROVE ledger'[m].reserved = 0
    BY DEF AbsentIsEmpty
  <2>1. ledger[m].reserved = 0
    BY <1>6, <1>7 DEF AccountInv, AbsentIsEmpty
  <2>2. CASE m = k.month
    <3>1. l.reserved = 0 /\ k.bytes = 0
      BY <1>1, <1>4, <2>1, <2>2
    <3>2. QED
      BY <1>6, <1>7, <2>2, <3>1
  <2>3. CASE m # k.month
    BY <1>7, <2>1, <2>3
  <2>4. QED
    BY <2>2, <2>3
<1>11. QED
  BY <1>9, <1>10 DEF AccountInv

LEMMA SettledCallAccounted ==
    ASSUME TrafficInv, TrafficInv', AccountInv, NEW c \in Callers, pc[c] = "calling",
           NEW actual, Finalizes(call[c], actual), NEW bytes, End(c, bytes),
           UNCHANGED <<month, abandoned, recorded, crashes>>
    PROVE  AccountInv'
<1>0. CallerInv
  BY InvParts
<1>1. /\ \A d \in Callers : d # c => pc'[d] = pc[d] /\ call'[d] = call[d]
      /\ \A m \in Months : Held(c, m)' = 0
  BY <1>0, EndFrees
<1>2. QED
  BY <1>1, FinalizeKeepsAccount

\* A caller that is gone, or gave up, leaves its reservation behind.
LEMMA AbandonKeepsAccount ==
    ASSUME TrafficInv, TrafficInv', AccountInv, NEW c \in Callers, pc[c] = "calling",
           abandoned' = [abandoned EXCEPT ![call[c].month] = @ + call[c].bytes],
           ledger' = ledger, End(c, 0)
    PROVE  AccountInv'
<1>0. CallerInv /\ LedgerInv /\ CallerInv' /\ LedgerInv'
  BY InvParts, InvNextParts
<1> DEFINE k == call[c]
<1>1. k \in Call /\ k.month \in Months /\ k.bytes \in Nat
  BY <1>0, UnderWay, CallFields
<1>2. /\ ledger \in LedgerType /\ ledger' \in LedgerType /\ abandoned \in [Months -> Nat]
      /\ abandoned' \in [Months -> Nat]
  BY <1>0 DEF LedgerInv
<1>3. \A m \in Months : Held(c, m) = IF k.month = m THEN k.bytes ELSE 0
  BY DEF Held
<1>4. /\ \A d \in Callers : d # c => pc'[d] = pc[d] /\ call'[d] = call[d]
      /\ \A m \in Months : Held(c, m)' = 0
  BY <1>0, EndFrees
<1>5. \A m \in Months : ledger'[m].reserved + abandoned[m] + Held(c, m) =
                          ledger[m].reserved + abandoned'[m] + Held(c, m)'
  <2> SUFFICES ASSUME NEW m \in Months
               PROVE  ledger'[m].reserved + abandoned[m] + Held(c, m) =
                          ledger[m].reserved + abandoned'[m] + Held(c, m)'
    OBVIOUS
  <2>1. ledger[m].reserved \in Nat /\ abandoned[m] \in Nat
    BY <1>2 DEF LedgerType
  <2>2. abandoned'[m] = IF m = k.month THEN abandoned[m] + k.bytes ELSE abandoned[m]
    BY <1>2
  <2> HIDE DEF k
  <2>3. QED
    BY <1>1, <1>3, <1>4, <2>1, <2>2
<1>6. ReservationsAccounted'
  BY <1>0, <1>2, <1>4, <1>5, OneMoves DEF AccountInv
<1>7. QED
  BY <1>6 DEF AccountInv, AbsentIsEmpty

LEMMA McpKeepsAccount ==
    ASSUME TrafficInv, TrafficInv', AccountInv, NEW c \in Callers
    PROVE  /\ \A r \in 0..MaxResult : McpAnswers(c, r) => AccountInv'
           /\ McpAnswersTooMuch(c) => AccountInv'
           /\ McpRetries(c) => AccountInv'
           /\ McpFails(c) => AccountInv'
<1>0. CallerInv /\ LedgerInv /\ CallerInv'
  BY InvParts, InvNextParts
<1>1. ASSUME NEW r \in 0..MaxResult, McpAnswers(c, r) PROVE AccountInv'
  BY <1>1, SettledCallAccounted DEF McpAnswers, Calling
<1>2. ASSUME McpAnswersTooMuch(c) PROVE AccountInv'
  BY <1>2, AbandonKeepsAccount DEF McpAnswersTooMuch, Calling
<1>3. ASSUME McpRetries(c) PROVE AccountInv'
  <2>1. call[c] \in Call
    BY <1>0 DEF CallerInv
  <2>2. call'[c] = [call[c] EXCEPT !.attempt = @ + 1]
    BY <1>0, <1>3 DEF McpRetries, CallerInv
  <2>3. call'[c].month = call[c].month /\ call'[c].bytes = call[c].bytes
    BY <2>1, <2>2 DEF Call
  <2>4. \A d \in Callers : d # c => pc'[d] = pc[d] /\ call'[d] = call[d]
    BY <1>3 DEF McpRetries
  <2>5. \A m \in Months : Held(c, m)' = Held(c, m)
    BY <1>3, <2>3 DEF McpRetries, Held
  <2>6. QED
    BY <1>0, <1>3, <2>4, <2>5, NothingMoves DEF McpRetries, ghosts
<1>4. ASSUME McpFails(c) PROVE AccountInv'
  BY <1>4, SettledCallAccounted DEF McpFails, Calling
<1>5. QED
  BY <1>1, <1>2, <1>3, <1>4

LEMMA ModelKeepsAccount ==
    ASSUME TrafficInv, TrafficInv', AccountInv, NEW c \in Callers
    PROVE  /\ \A r \in 0..MaxResponse : ModelAnswers(c, r) => AccountInv'
           /\ \A r \in 1..ChunkSize : ModelAnswersTooMuch(c, r) => AccountInv'
           /\ \A r \in 0..MaxResponse : ModelFails(c, r) => AccountInv'
           /\ \A r \in 0..MaxResponse : ModelBacksOff(c, r) => AccountInv'
           /\ BackoffTimesOut(c) => AccountInv'
<1>0. CallerInv /\ LedgerInv /\ CallerInv'
  BY InvParts, InvNextParts
<1>1. ASSUME NEW r \in 0..MaxResponse, ModelAnswers(c, r) PROVE AccountInv'
  BY <1>1, SettledCallAccounted DEF ModelAnswers, Calling
<1>2. ASSUME NEW r \in 1..ChunkSize, ModelAnswersTooMuch(c, r) PROVE AccountInv'
  BY <1>2, SettledCallAccounted DEF ModelAnswersTooMuch, Calling
<1>3. ASSUME NEW r \in 0..MaxResponse, ModelFails(c, r) PROVE AccountInv'
  BY <1>3, SettledCallAccounted DEF ModelFails, ModelError, Calling
<1>4. ASSUME NEW r \in 0..MaxResponse, ModelBacksOff(c, r) PROVE AccountInv'
  <2>1. \A d \in Callers : d # c => pc'[d] = pc[d] /\ call'[d] = call[d]
    BY <1>4 DEF ModelBacksOff
  <2>2. \A m \in Months : Held(c, m)' = 0
    BY <1>0, <1>4 DEF ModelBacksOff, Held, CallerInv
  <2>3. pc[c] = "calling" /\ abandoned' = abandoned /\ Finalizes(call[c], call[c].size + r)
    BY <1>4 DEF ModelBacksOff, ModelError, Calling
  <2>4. QED
    BY <2>1, <2>2, <2>3, FinalizeKeepsAccount
<1>5. ASSUME BackoffTimesOut(c) PROVE AccountInv'
  <2>1. /\ \A d \in Callers : d # c => pc'[d] = pc[d] /\ call'[d] = call[d]
        /\ \A m \in Months : Held(c, m)' = Held(c, m)
    BY <1>0, <1>5, EndFrees DEF BackoffTimesOut, Held
  <2>2. QED
    BY <1>0, <1>5, <2>1, NothingMoves DEF BackoffTimesOut, ghosts
<1>6. QED
  BY <1>1, <1>2, <1>3, <1>4, <1>5

LEMMA CrashKeepsAccount ==
    ASSUME TrafficInv, TrafficInv', AccountInv, NEW c \in Callers, Crash(c)
    PROVE  AccountInv'
<1>0. CallerInv /\ LedgerInv /\ CallerInv'
  BY InvParts, InvNextParts
<1>1. CASE pc[c] = "calling"
  BY <1>1, AbandonKeepsAccount DEF Crash
<1>2. CASE pc[c] # "calling"
  <2>1. /\ \A d \in Callers : d # c => pc'[d] = pc[d] /\ call'[d] = call[d]
        /\ \A m \in Months : Held(c, m)' = Held(c, m)
    BY <1>0, <1>2, EndFrees DEF Crash, Held
  <2>2. QED
    BY <1>0, <1>2, <2>1, NothingMoves DEF Crash
<1>3. QED
  BY <1>1, <1>2

LEMMA InitAccount == Init => AccountInv
<1> SUFFICES ASSUME Init PROVE AccountInv
  OBVIOUS
<1>1. \A m \in Months : ledger[m].reserved = 0 /\ abandoned[m] = 0
  BY DEF Init
<1>2. ASSUME NEW m \in Months PROVE SumFunction(Holding(m)) = 0
  <2>1. DOMAIN Holding(m) = Callers /\ \A c \in Callers : Holding(m)[c] = 0
    BY DEF Init, Holding
  <2>2. QED
    BY <2>1, SumOfZeros, CallersFinite DEF SumFunction
<1>3. QED
  BY <1>1, <1>2 DEF AccountInv, ReservationsAccounted, AbsentIsEmpty

LEMMA NextAccount == TrafficInv /\ TrafficInv' /\ AccountInv /\ [Next]_vars => AccountInv'
<1> SUFFICES ASSUME TrafficInv, TrafficInv', AccountInv, [Next]_vars PROVE AccountInv'
  OBVIOUS
<1>1. CASE MonthEnds
  BY <1>1 DEF MonthEnds, ghosts, AccountInv, ReservationsAccounted, AbsentIsEmpty, Holding
<1>2. ASSUME NEW c \in Callers, Proceed(c) PROVE AccountInv'
  BY <1>2, InsertKeepsAccount, McpKeepsAccount, ModelKeepsAccount DEF Proceed
<1>3. CASE UNCHANGED vars
  BY <1>3 DEF vars, ghosts, AccountInv, ReservationsAccounted, AbsentIsEmpty, Holding
<1>4. QED
  BY <1>1, <1>2, <1>3, AskKeepsAccount, CrashKeepsAccount DEF Next

\* The reservations of a month are always those of the calls in flight and of
\* the callers that are gone: finalize, in whatever month it runs and on
\* whichever path a call ends, returns exactly what its call reserved.
THEOREM ReservationsAreAccounted == Spec => []ReservationsAccounted
<1>1. Init => AccountInv
  BY InitAccount
<1>2. TrafficInv /\ TrafficInv' /\ AccountInv /\ [Next]_vars => AccountInv'
  BY NextAccount
<1>3. AccountInv => ReservationsAccounted
  BY DEF AccountInv
<1>4. QED
  BY <1>1, <1>2, <1>3, TrafficInvariant, PTL DEF Spec
=============================================================================
