-------------------------- MODULE RetrievalProofs ---------------------------
(***************************************************************************)
(* Theorems about Retrieval, for all modules, texts, requests, policies    *)
(* and limits, and any number of tasks, edits and faults.                  *)
(***************************************************************************)
EXTENDS Retrieval, DataFacts

-----------------------------------------------------------------------------
\* Types.

Request == [agent : SourceAware \cup {"other"}, method : BOOLEAN,
            object : Modules \cup {NoModule}, plan : Seq(Calls)]

\* Of no module there is neither checksum nor source.
Sourced(e) ==
    e.call.module = NoModule =>
        /\ e.call.tool \notin SourceTools
        /\ e.call.tool = "get_source_checksum" => e.answer.text = 0

Row == {e \in [call : Calls, answer : AnswerSet] : Sourced(e)}

\* A checksum is that of a text the module had since the task was created.
SumSeen(e) ==
    e.call.tool = "get_source_checksum" /\ e.answer.text # 0 =>
        e.call.module \in Modules /\ e.answer.text \in seen[e.call.module]

RowSeen(e) ==
    /\ SumSeen(e)
    /\ e.call.tool \in SourceTools =>
           e.call.module \in Modules /\ e.answer.text \in seen[e.call.module]

Vias == {"server", "reused", "cache"}
Entry == {e \in [call : Calls, answer : AnswerSet, via : Vias] : Sourced(e)}
Item == [module : Modules, checksum : Texts, answer : AnswerSet]
Policies == Toolsets \cup {{}}
Phases == Ended \cup {"waiting", "running"}
Task == [no : 0..MaxTasks, phase : Phases, tools : Policies, plan : Seq(Calls),
         kept : SUBSET Claims, request : Request]
RunType == [tools : Policies, known : Nat, pending : Seq(Calls), calls : Seq(Entry)]
CacheType == [items : Seq(Item), bytes : Int]

TypeInv ==
    /\ text \in [Modules -> Texts] /\ seen \in [Modules -> SUBSET Texts]
    /\ published \in Toolsets
    /\ task \in Task
    /\ task.plan = Normalized(task.request, task.tools)
    /\ stored \in Seq(Row)
    /\ run \in RunType /\ run.known <= Len(stored)
    /\ cache \in CacheType /\ CacheIsBounded
    /\ mixed \subseteq Modules
    /\ faults \in 0..MaxFaults

LEMMA Limits ==
    /\ MaxCalls \in Nat /\ MaxReads \in Nat /\ MaxEntries \in Nat /\ MaxBytes \in Nat
    /\ MaxTasks \in Nat /\ MaxFaults \in Nat /\ Texts \subseteq Nat \ {0}
    /\ Requests \subseteq Request /\ Edited \subseteq Modules
  BY ConstantsOK DEF Request

LEMMA TextsAreNumbers == \A t \in Texts \cup {0} : t \in Nat /\ t \in Int
<1>1. Texts \subseteq Nat
  BY Limits
<1>2. QED
  BY <1>1

LEMMA ToolNames ==
    /\ SourceNavigation \subseteq Tools
    /\ SourceTools \subseteq SourceNavigation /\ V09Automation \subseteq SourceNavigation
    /\ "get_edt_metadata_summary" \in Tools /\ "search_code" \in Tools
    /\ "get_source_checksum" \in Tools /\ "estimate_tool_payload" \in Tools
    /\ "read_method_source" \in SourceTools /\ "read_source" \in SourceTools
    /\ "resolve_symbol" \in Tools /\ "find_references" \in Tools
  BY DEF SourceNavigation, V09Automation, SourceTools, Tools

LEMMA CallType ==
    ASSUME NEW tool \in Tools, NEW m \in Modules \cup {NoModule}
    PROVE  Call(tool, m) \in Calls
  BY DEF Call, Calls

LEMMA CallFields ==
    ASSUME NEW c \in Calls
    PROVE  c.tool \in Tools /\ c.module \in Modules \cup {NoModule}
  BY DEF Calls

LEMMA OneCall ==
    ASSUME NEW tool \in Tools, NEW m \in Modules \cup {NoModule}
    PROVE  <<Call(tool, m)>> \in Seq(Calls)
  BY CallType

LEMMA SummaryType ==
    ASSUME NEW r \in Request, NEW p \in Seq(Calls), NEW tools
    PROVE  WithSummary(p, r, tools) \in Seq(Calls)
<1>1. Call("get_edt_metadata_summary", r.object) \in Calls
  BY CallType, ToolNames DEF Request
<1>2. Append(p, Call("get_edt_metadata_summary", r.object)) \in Seq(Calls)
  BY <1>1, AppendProperties
<1>3. QED
  BY <1>2 DEF WithSummary

LEMMA MethodPlanType ==
    ASSUME NEW r \in Request, NEW tools
    PROVE  MethodPlan(r, tools) \in Seq(Calls)
<1> DEFINE kept == {call \in ToSet(r.plan) :
                       /\ call.tool \notin SourceNavigation
                       /\ ~Superseded(call, r, tools)}
<1>1. MethodPlan(r, tools)
          = <<Call("resolve_symbol", r.object)>> \o WithSummary(Within(r.plan, kept), r, tools)
  BY DEF MethodPlan
<1> HIDE DEF kept
<1>2. r.plan \in Seq(Calls) /\ r.object \in Modules \cup {NoModule}
  BY DEF Request
<1>3. <<Call("resolve_symbol", r.object)>> \in Seq(Calls)
  BY <1>2, OneCall, ToolNames
<1>4. WithSummary(Within(r.plan, kept), r, tools) \in Seq(Calls)
  BY <1>2, WithinType, SummaryType
<1>5. QED
  BY <1>1, <1>3, <1>4, ConcatProperties

LEMMA SearchPlanType ==
    ASSUME NEW r \in Request, NEW tools
    PROVE  SearchPlan(r, tools) \in Seq(Calls)
<1>1. r.plan \in Seq(Calls)
  BY DEF Request
<1>2. \A S : Within(r.plan, S) \in Seq(Calls)
  BY <1>1, WithinType
<1>3. ASSUME NEW p \in Seq(Calls) PROVE Append(p, Call("search_code", NoModule)) \in Seq(Calls)
  BY CallType, ToolNames, AppendProperties
<1>4. QED
  BY <1>2, <1>3, SummaryType DEF SearchPlan

LEMMA SourceToolType ==
    ASSUME NEW r, NEW tools
    PROVE  SourceTool(r, tools) \in SourceTools /\ SourceTool(r, tools) \in Tools
  BY ToolNames DEF SourceTool

LEMMA NormalizedType ==
    ASSUME NEW r \in Request, NEW tools
    PROVE  Normalized(r, tools) \in Seq(Calls)
<1>1. r.plan \in Seq(Calls) /\ r.object \in Modules \cup {NoModule}
  BY DEF Request
<1>2. <<Call(SourceTool(r, tools), r.object)>> \in Seq(Calls)
  BY <1>1, OneCall, SourceToolType
<1>3. ASSUME NEW p \in Seq(Calls) PROVE WithSource(p, r, tools) \in Seq(Calls)
  <2>1. <<Call(SourceTool(r, tools), r.object)>> \o p \in Seq(Calls)
    BY <1>2, ConcatProperties
  <2>2. QED
    BY <2>1 DEF WithSource
<1>4. QED
  BY <1>1, <1>3, MethodPlanType, SearchPlanType DEF Normalized

-----------------------------------------------------------------------------
\* The rounds of the loop.  Between an answer of the server and its row nothing
\* else of the retrieval moves, so all but reply, asked and wasted moves as if
\* the two were one step: an answer that was right for a text seen by then.

Given(c) == {answer \in AnswerSet : /\ [call |-> c, answer |-> answer] \in Row
                                    /\ RowSeen([call |-> c, answer |-> answer])}

Recorded(c) ==
    /\ Takes(c)
    /\ Cached(c) = {} /\ Rows(c) = {}
    /\ \E answer \in Given(c) :
           /\ Answered(c, answer, "server")
           /\ stored' = Append(stored, [call |-> c, answer |-> answer])
           /\ cache' = IF Kept(c) THEN Put(c.module, Checksum(c.module), answer) ELSE cache
           /\ mixed' = IF Kept(c) /\ Checksum(c.module) # answer.text
                       THEN mixed \cup {c.module} ELSE mixed
    /\ UNCHANGED <<text, seen, published, faults>>

Round ==
    \/ \E m \in Edited : ModuleChanges(m)
    \/ PolicyChanges
    \/ \E request \in Requests : CreateTask(request)
    \/ StartRun
    \/ \E c \in ToSet(run.pending) : HitCache(c) \/ Reuse(c) \/ Recorded(c)
    \/ Stop
    \/ Lose
    \/ Analyze

loop == <<text, seen, published, task, stored, run, cache, mixed, faults>>

-----------------------------------------------------------------------------
\* One turn of the loop: the head of the queue gets an answer, and steps are
\* put in its place, unless the task fails.

Answer(c, answer, via) == [call |-> c, answer |-> answer, via |-> via]

Taken(c, answer, via, steps) ==
    /\ Takes(c)
    /\ run' = [run EXCEPT !.calls = Append(@, Answer(c, answer, via)),
                          !.pending = steps \o Tail(@)]
    /\ \/ steps = <<>>
       \/ steps = New(Navigation(c, answer), run'.calls, Tail(run.pending))
    /\ \/ task' = [task EXCEPT !.phase = "failed"]
       \/ /\ task' = task
          /\ \/ via = "cache" /\ steps = <<>> /\ c.tool = "read_method_source"
             \/ /\ ~OverLimit(run'.calls, run'.pending)
                /\ Navigates /\ c.tool = "estimate_tool_payload" => answer.good

LEMMA TaskFields ==
    ASSUME TypeInv
    PROVE  /\ task.no \in 0..MaxTasks /\ task.phase \in Phases /\ task.tools \in Policies
           /\ task.plan \in Seq(Calls) /\ task.kept \subseteq Claims
           /\ task.request \in Request
  BY DEF TypeInv, Task

LEMMA RunFields ==
    ASSUME TypeInv
    PROVE  /\ run.tools \in Policies /\ run.known \in Nat /\ run.pending \in Seq(Calls)
           /\ run.calls \in Seq(Entry)
  BY DEF TypeInv, RunType

LEMMA PhaseChange ==
    ASSUME TypeInv, NEW phase \in Phases, task' = [task EXCEPT !.phase = phase]
    PROVE  /\ task' \in Task /\ task'.phase = phase
           /\ task'.no = task.no /\ task'.tools = task.tools /\ task'.plan = task.plan
           /\ task'.kept = task.kept /\ task'.request = task.request
  BY DEF TypeInv, Task

LEMMA NavigationType ==
    ASSUME TypeInv, NEW c, NEW answer \in AnswerSet
    PROVE  Navigation(c, answer) \in Seq(Calls)
<1>1. answer.found # NoModule => answer.found \in Modules
  BY DEF AnswerSet
<1>2. ASSUME NEW m \in Modules PROVE Chain(m) \in Seq(Calls)
  <2>1. /\ Call("get_source_checksum", m) \in Calls
        /\ Call("estimate_tool_payload", m) \in Calls
        /\ Call("read_method_source", m) \in Calls
        /\ Call("find_references", NoModule) \in Calls
        /\ Call(SourceTool(task.request, run.tools), m) \in Calls
    BY CallType, ToolNames, SourceToolType
  <2>2. QED
    BY <2>1 DEF Chain
<1>3. <<Call("search_code", NoModule)>> \in Seq(Calls)
  BY OneCall, ToolNames
<1>4. QED
  BY <1>1, <1>2, <1>3 DEF Navigation

LEMMA NewType ==
    ASSUME NEW steps \in Seq(Calls), NEW calls, NEW queue
    PROVE  New(steps, calls, queue) \in Seq(Calls)
  BY WithinType DEF New

LEMMA AnswerTaken ==
    ASSUME TypeInv, NEW c, NEW answer \in AnswerSet, NEW via,
           Takes(c), Answered(c, answer, via)
    PROVE  \E steps \in Seq(Calls) : Taken(c, answer, via, steps)
<1> DEFINE calls == Append(run.calls, Answer(c, answer, via))
           rest == Tail(run.pending)
           steps == New(Navigation(c, answer), calls, rest)
           tooLarge == Navigates /\ c.tool = "estimate_tool_payload" /\ ~answer.good
           refused == tooLarge \/ OverLimit(calls, steps \o rest)
<1>1. /\ run' = [run EXCEPT !.calls = calls,
                            !.pending = IF refused THEN rest ELSE steps \o rest]
      /\ task' = IF refused THEN [task EXCEPT !.phase = "failed"] ELSE task
  BY DEF Answered, Answer, Enqueue
<1>2. run.pending \in Seq(Calls) /\ run.pending # <<>>
  BY RunFields DEF Takes
<1>3. rest \in Seq(Calls) /\ steps \in Seq(Calls) /\ <<>> \in Seq(Calls)
  BY <1>2, HeadAndRest, NavigationType, NewType
<1>4. <<>> \o rest = rest
  BY <1>3, ConcatEmptySeq
<1>5. run'.calls = calls /\ run'.pending = IF refused THEN rest ELSE steps \o rest
  BY <1>1 DEF TypeInv, RunType
<1>6. CASE refused
  <2>1. Taken(c, answer, via, <<>>)
    <3> HIDE DEF steps, refused, rest, calls
    <3>1. run' = [run EXCEPT !.calls = calls, !.pending = <<>> \o rest]
      BY <1>1, <1>4, <1>6
    <3>2. QED
      BY <1>1, <1>6, <3>1 DEF Taken, calls, rest
  <2>2. QED
    BY <1>3, <2>1
<1>7. CASE ~refused
  <2>1. Taken(c, answer, via, steps)
    <3>1. run' = [run EXCEPT !.calls = calls, !.pending = steps \o rest] /\ task' = task
      BY <1>1, <1>7
    <3>2. ~OverLimit(run'.calls, run'.pending) /\ ~tooLarge
      BY <1>5, <1>7
    <3>3. steps = New(Navigation(c, answer), run'.calls, rest)
      BY <1>5
    <3> HIDE DEF steps, refused
    <3>4. QED
      BY <3>1, <3>2, <3>3 DEF Taken
  <2>2. QED
    BY <1>3, <2>1
<1>8. QED
  BY <1>6, <1>7

\* What a turn of the loop does to the fields.
LEMMA TakenFields ==
    ASSUME TypeInv, NEW c, NEW answer, NEW via, NEW steps \in Seq(Calls),
           Answer(c, answer, via) \in Entry, Taken(c, answer, via, steps)
    PROVE  /\ run' \in RunType /\ run'.tools = run.tools /\ run'.known = run.known
           /\ run'.calls = Append(run.calls, Answer(c, answer, via))
           /\ run'.pending = steps \o Tail(run.pending)
           /\ c \in Calls /\ Tail(run.pending) \in Seq(Calls)
           /\ run.pending = <<c>> \o Tail(run.pending)
           /\ Len(run.pending) = Len(Tail(run.pending)) + 1
           /\ task' \in Task /\ task.phase = "running" /\ task'.phase \in {"running", "failed"}
           /\ task'.no = task.no /\ task'.tools = task.tools /\ task'.plan = task.plan
           /\ task'.kept = task.kept /\ task'.request = task.request
<1> DEFINE calls == Append(run.calls, Answer(c, answer, via))
           queue == steps \o Tail(run.pending)
<1>1. run.pending \in Seq(Calls) /\ run.pending # <<>> /\ c = Head(run.pending)
  BY RunFields DEF Taken, Takes
<1>2. /\ c \in Calls /\ Tail(run.pending) \in Seq(Calls)
      /\ run.pending = <<c>> \o Tail(run.pending)
      /\ Len(run.pending) = Len(Tail(run.pending)) + 1
  BY <1>1, HeadAndRest
<1>3. calls \in Seq(Entry) /\ queue \in Seq(Calls)
  BY <1>2, RunFields, AppendProperties, ConcatProperties
<1>4. run' = [run EXCEPT !.calls = calls, !.pending = queue]
  BY DEF Taken
<1> HIDE DEF calls, queue
<1>5. /\ run' \in RunType /\ run'.tools = run.tools /\ run'.known = run.known
      /\ run'.calls = calls /\ run'.pending = queue
  BY <1>3, <1>4 DEF TypeInv, RunType
<1>6. /\ task' \in Task /\ task.phase = "running" /\ task'.phase \in {"running", "failed"}
      /\ task'.no = task.no /\ task'.tools = task.tools /\ task'.plan = task.plan
      /\ task'.kept = task.kept /\ task'.request = task.request
  <2>1. CASE task' = task
    BY <2>1 DEF Taken, Takes, TypeInv
  <2>2. CASE task' = [task EXCEPT !.phase = "failed"]
    BY <2>2, PhaseChange DEF Taken, Takes, Phases, Ended
  <2>3. QED
    BY <2>1, <2>2 DEF Taken
<1>7. QED
  BY <1>2, <1>5, <1>6 DEF calls, queue

LEMMA RowIndex ==
    ASSUME TypeInv, NEW c, Rows(c) # {}
    PROVE  /\ Max(Rows(c)) \in DOMAIN stored /\ Max(Rows(c)) \in 1..run.known
           /\ stored[Max(Rows(c))] \in Row /\ stored[Max(Rows(c))].call = c
<1>1. run.known \in Nat /\ Rows(c) \in SUBSET (1..run.known)
  BY RunFields DEF Rows
<1>2. Max(Rows(c)) \in Rows(c)
  BY <1>1, MaxOfIndices
<1>3. Len(stored) \in Nat /\ DOMAIN stored = 1..Len(stored) /\ run.known <= Len(stored)
  BY LenProperties DEF TypeInv
<1>4. Max(Rows(c)) \in 1..Len(stored)
  BY <1>1, <1>2, <1>3
<1>5. QED
  BY <1>1, <1>2, <1>3, <1>4, ElementOfSeq DEF TypeInv, Rows

-----------------------------------------------------------------------------
\* The cache.

Sizes(items) == [i \in DOMAIN items |-> items[i].answer.text]

Unique(items) ==
    \A i, j \in DOMAIN items :
        /\ items[i].module = items[j].module
        /\ items[i].checksum = items[j].checksum
        => i = j

LEMMA ItemFields ==
    ASSUME NEW x \in Item
    PROVE  /\ x.module \in Modules /\ x.checksum \in Texts /\ x.answer \in AnswerSet
           /\ x.answer.text \in Nat /\ x.answer.text \in Int
<1>1. x.module \in Modules /\ x.checksum \in Texts /\ x.answer \in AnswerSet
  BY DEF Item
<1>2. x.answer.text \in Texts \cup {0}
  BY <1>1 DEF AnswerSet
<1>3. QED
  BY <1>1, <1>2, TextsAreNumbers

LEMMA SizesType ==
    ASSUME NEW items \in Seq(Item)
    PROVE  /\ Sizes(items) \in Seq(Int) /\ Len(Sizes(items)) = Len(items)
           /\ \A i \in 1..Len(items) : Sizes(items)[i] = items[i].answer.text
           /\ Bytes(items) = SumFunction(Sizes(items))
<1>1. Len(items) \in Nat /\ DOMAIN items = 1..Len(items)
  BY LenProperties
<1>2. \A i \in 1..Len(items) : items[i].answer.text \in Int
  BY ElementOfSeq, ItemFields
<1>3. Sizes(items) \in [1..Len(items) -> Int]
  BY <1>1, <1>2 DEF Sizes
<1>4. Sizes(items) \in Seq(Int)
  BY <1>1, <1>3, SeqDef
<1>5. QED
  BY <1>1, <1>3, <1>4, LenProperties DEF Bytes, Sizes

LEMMA BytesOfAppend ==
    ASSUME NEW items \in Seq(Item), NEW x \in Item
    PROVE  Bytes(Append(items, x)) = Bytes(items) + x.answer.text /\ Bytes(items) \in Int
<1> DEFINE t == Append(items, x)
           u == Append(Sizes(items), x.answer.text)
           n == Len(items)
<1>1. x.answer.text \in Int
  BY ItemFields
<1>2. /\ t \in Seq(Item) /\ n \in Nat /\ Len(t) = n + 1 /\ t[n + 1] = x
      /\ \A i \in 1..n : t[i] = items[i]
  BY AppendProperties, LenProperties
<1>3. /\ Sizes(items) \in Seq(Int) /\ Len(Sizes(items)) = n
      /\ \A i \in 1..n : Sizes(items)[i] = items[i].answer.text
  BY SizesType
<1>4. /\ u \in Seq(Int) /\ Len(u) = n + 1 /\ u[n + 1] = x.answer.text
      /\ \A i \in 1..n : u[i] = Sizes(items)[i]
  BY <1>1, <1>3, AppendProperties
<1> HIDE DEF t, u
<1>5. /\ Sizes(t) \in Seq(Int) /\ Len(Sizes(t)) = n + 1
      /\ \A i \in 1..(n + 1) : Sizes(t)[i] = t[i].answer.text
  BY <1>2, SizesType
<1>6. ASSUME NEW i \in 1..(n + 1) PROVE Sizes(t)[i] = u[i]
  <2>1. CASE i \in 1..n
    BY <1>2, <1>3, <1>4, <1>5, <2>1
  <2>2. CASE i = n + 1
    BY <1>2, <1>4, <1>5, <2>2
  <2>3. QED
    BY <1>2, <2>1, <2>2
<1>7. Sizes(t) = u
  BY <1>4, <1>5, <1>6, SeqEqual
<1>8. Bytes(t) = SumFunction(u)
  BY <1>2, <1>7, SizesType
<1>9. SumFunction(u) = SumFunction(Sizes(items)) + x.answer.text
  BY <1>1, <1>3, SumOfAppend DEF u
<1>10. QED
  BY <1>3, <1>8, <1>9, SizesType, SumOfSequence DEF t

LEMMA BytesOfConcat ==
    ASSUME NEW s \in Seq(Item), NEW t \in Seq(Item)
    PROVE  Bytes(s \o t) = Bytes(s) + Bytes(t) /\ Bytes(s) \in Int /\ Bytes(t) \in Int
<1> DEFINE r == s \o t
           a == Sizes(s)
           b == Sizes(t)
           u == a \o b
           m == Len(s)
           n == Len(t)
<1>1. /\ r \in Seq(Item) /\ m \in Nat /\ n \in Nat /\ Len(r) = m + n
      /\ \A i \in 1..(m + n) : r[i] = IF i <= m THEN s[i] ELSE t[i - m]
  BY ConcatProperties, LenProperties
<1>2. /\ a \in Seq(Int) /\ Len(a) = m /\ \A i \in 1..m : a[i] = s[i].answer.text
      /\ b \in Seq(Int) /\ Len(b) = n /\ \A i \in 1..n : b[i] = t[i].answer.text
      /\ Bytes(s) = SumFunction(a) /\ Bytes(t) = SumFunction(b)
  BY SizesType
<1> HIDE DEF a, b
<1>3. /\ u \in Seq(Int) /\ Len(u) = m + n
      /\ \A i \in 1..(m + n) : u[i] = IF i <= m THEN a[i] ELSE b[i - m]
  <2>1. /\ u \in Seq(Int) /\ Len(u) = Len(a) + Len(b)
        /\ \A i \in 1..(Len(a) + Len(b)) : u[i] = IF i <= Len(a) THEN a[i] ELSE b[i - Len(a)]
    <3>1. PICK I : I = Int
      OBVIOUS
    <3>2. a \in Seq(I) /\ b \in Seq(I)
      BY <1>2, <3>1
    <3>3. QED
      BY ONLY <3>1, <3>2, ConcatProperties
  <2>2. QED
    BY <1>2, <2>1
<1> HIDE DEF r, u
<1>4. /\ Sizes(r) \in Seq(Int) /\ Len(Sizes(r)) = m + n
      /\ \A i \in 1..(m + n) : Sizes(r)[i] = r[i].answer.text
  BY <1>1, SizesType
<1>5. ASSUME NEW i \in 1..(m + n) PROVE Sizes(r)[i] = u[i]
  <2>1. CASE i <= m
    <3>1. i \in 1..m
      BY <1>1, <2>1
    <3>2. QED
      BY <1>1, <1>2, <1>3, <1>4, <2>1, <3>1
  <2>2. CASE ~(i <= m)
    <3>1. i - m \in 1..n
      BY <1>1, <2>2
    <3>2. QED
      BY <1>1, <1>2, <1>3, <1>4, <2>2, <3>1
  <2>3. QED
    BY <2>1, <2>2
<1>6. Sizes(r) = u
  BY <1>3, <1>4, <1>5, SeqEqual
<1>7. SumFunction(u) = SumFunction(a) + SumFunction(b)
  BY <1>2, SumOfConcat DEF u
<1>8. Bytes(r) = SumFunction(u)
  BY <1>1, <1>6, SizesType
<1>9. QED
  BY <1>2, <1>7, <1>8, SumOfSequence DEF r

\* What the cache is after any operation.
Bounded(c) ==
    /\ c \in CacheType
    /\ c.bytes = Bytes(c.items) /\ c.bytes <= MaxBytes
    /\ Len(c.items) <= MaxEntries
    /\ Unique(c.items)

LEMMA EmptyIsBounded == Bounded([items |-> <<>>, bytes |-> 0])
<1> DEFINE c == [items |-> <<>>, bytes |-> 0]
<1>1. c.items = <<>> /\ c.bytes = 0 /\ <<>> \in Seq(Item) /\ Len(<<>>) = 0 /\ DOMAIN <<>> = {}
  BY EmptySeq
<1>2. c \in CacheType
  BY <1>1 DEF CacheType
<1>3. Bytes(<<>>) = 0
  <2>1. Sizes(<<>>) \in Seq(Int) /\ Len(Sizes(<<>>)) = 0 /\ Bytes(<<>>) = SumFunction(Sizes(<<>>))
    BY <1>1, SizesType
  <2>2. Sizes(<<>>) = <<>>
    BY <2>1, EmptySeq
  <2>3. QED
    BY <2>1, <2>2, SumOfEmpty
<1>4. MaxBytes \in Nat /\ MaxEntries \in Nat
  BY Limits
<1>5. QED
  BY <1>1, <1>2, <1>3, <1>4 DEF Bounded, Unique

\* However much is evicted, both limits hold of what remains.
LEMMA EvictKeeps ==
    ASSUME NEW items \in Seq(Item), Unique(items)
    PROVE  /\ Bounded(Evict(items, Bytes(items)))
           /\ \A x \in ToSet(Evict(items, Bytes(items)).items) : x \in ToSet(items)
<1> DEFINE n == Len(items)
           Cut(k) == SubSeq(items, 1, k)
           Left(k) == Bytes(items) - Bytes(Cut(k))
           enough == {k \in 0..n : n - k <= MaxEntries /\ Left(k) <= MaxBytes}
           k0 == Min(enough)
           rest == SubSeq(items, k0 + 1, n)
           new == [items |-> rest, bytes |-> Left(k0)]
<1>1. Evict(items, Bytes(items)) = new
  BY DEF Evict
<1>2. n \in Nat /\ MaxEntries \in Nat /\ MaxBytes \in Nat /\ Bytes(items) \in Int
  BY LenProperties, Limits, SizesType, SumOfSequence
<1>3. k0 \in enough
  <2>1. Left(n) = 0
    <3>1. Cut(n) = items
      BY SubSeqFull
    <3>2. PICK total : total = Bytes(items)
      OBVIOUS
    <3>3. Bytes(Cut(n)) = total /\ total \in Int
      BY <1>2, <3>1, <3>2
    <3> HIDE DEF Cut
    <3>4. QED
      BY <3>2, <3>3
  <2>2. n \in enough
    BY <1>2, <2>1
  <2>3. enough \in SUBSET Nat
    BY <1>2
  <2> HIDE DEF enough
  <2>4. QED
    BY <2>2, <2>3, MinOfNaturals
<1>4. k0 \in 0..n /\ n - k0 <= MaxEntries /\ Left(k0) <= MaxBytes
  BY <1>3
<1> HIDE DEF k0
<1>5. /\ rest \in Seq(Item) /\ Len(rest) = n - k0
      /\ \A i \in 1..(n - k0) : rest[i] = items[k0 + i]
  <2>1. k0 + 1 \in 1..(n + 1) /\ n \in 0..n
    BY <1>2, <1>4
  <2>2. /\ rest \in Seq(Item) /\ Len(rest) = IF k0 + 1 <= n THEN n - (k0 + 1) + 1 ELSE 0
        /\ \A i \in 1..(n - (k0 + 1) + 1) : rest[i] = items[k0 + 1 + i - 1]
    BY <2>1, SubSeqType
  <2> HIDE DEF rest
  <2>3. n - (k0 + 1) + 1 = n - k0 /\ \A i \in 1..(n - k0) : k0 + 1 + i - 1 = k0 + i
    BY <1>2, <1>4
  <2>4. QED
    BY <1>2, <1>4, <2>2, <2>3
<1>6. Cut(k0) \in Seq(Item) /\ items = Cut(k0) \o rest
  <2>1. 1 \in 1..(n + 1)
    BY <1>2
  <2>2. QED
    BY <1>4, <2>1, SubSeqType, CutAfter
<1> HIDE DEF Cut, rest
<1>7. Left(k0) = Bytes(rest) /\ Left(k0) \in Int
  <2>1. PICK total : total = Bytes(items)
    OBVIOUS
  <2>2. total = Bytes(Cut(k0)) + Bytes(rest) /\ Bytes(Cut(k0)) \in Int /\ Bytes(rest) \in Int
    BY <1>5, <1>6, <2>1, BytesOfConcat
  <2>3. QED
    BY <2>1, <2>2
<1> HIDE DEF Left
<1>8. Unique(rest)
  <2>1. DOMAIN rest = 1..(n - k0) /\ DOMAIN items = 1..n
    BY <1>5, LenProperties
  <2>2. SUFFICES ASSUME NEW i \in 1..(n - k0), NEW j \in 1..(n - k0),
                        rest[i].module = rest[j].module, rest[i].checksum = rest[j].checksum
                 PROVE  i = j
    BY <2>1 DEF Unique
  <2>3. k0 + i \in 1..n /\ k0 + j \in 1..n
    BY <1>2, <1>4
  <2>4. k0 + i = k0 + j
    BY <1>5, <2>1, <2>2, <2>3 DEF Unique
  <2>5. QED
    BY <1>2, <1>4, <2>4
<1>9. ToSet(rest) \subseteq ToSet(items)
  BY <1>5, <1>6, ToSetOfConcat
<1>10. new \in CacheType /\ new.items = rest /\ new.bytes = Left(k0)
  BY <1>5, <1>7 DEF CacheType
<1>11. QED
  BY <1>1, <1>4, <1>5, <1>7, <1>8, <1>9, <1>10 DEF Bounded

LEMMA CacheFields ==
    ASSUME TypeInv
    PROVE  /\ Bounded(cache) /\ cache.items \in Seq(Item)
           /\ DOMAIN cache.items = 1..Len(cache.items) /\ Len(cache.items) \in Nat
           /\ \A i \in DOMAIN cache.items : cache.items[i] \in Item
<1>1. cache \in CacheType
  BY DEF TypeInv
<1>2. cache.items \in Seq(Item)
  BY <1>1 DEF CacheType
<1>3. DOMAIN cache.items = 1..Len(cache.items) /\ Len(cache.items) \in Nat
  BY <1>2, LenProperties
<1>4. \A i \in DOMAIN cache.items : cache.items[i] \in Item
  BY <1>2, <1>3, ElementOfSeq
<1>5. QED
  BY <1>1, <1>2, <1>3, <1>4 DEF TypeInv, CacheIsBounded, Bounded, Unique

LEMMA PutKeeps ==
    ASSUME TypeInv, NEW x \in Item,
           \A i \in DOMAIN cache.items :
               ~(cache.items[i].module = x.module /\ cache.items[i].checksum = x.checksum)
    PROVE  /\ Bounded(Put(x.module, x.checksum, x.answer))
           /\ \A y \in ToSet(Put(x.module, x.checksum, x.answer).items) :
                  y \in ToSet(cache.items) \/ y = x
<1> DEFINE items == Append(cache.items, x)
           n == Len(cache.items)
<1>1. x = [module |-> x.module, checksum |-> x.checksum, answer |-> x.answer]
  BY DEF Item
<1>2. Bounded(cache) /\ cache.items \in Seq(Item) /\ n \in Nat /\ DOMAIN cache.items = 1..n
  BY CacheFields
<1>3. cache.bytes + x.answer.text = Bytes(items)
  BY <1>2, BytesOfAppend DEF Bounded
<1>4. /\ items \in Seq(Item) /\ DOMAIN items = 1..(n + 1) /\ items[n + 1] = x
      /\ \A i \in 1..n : items[i] = cache.items[i]
  BY <1>2, AppendProperties, LenProperties
<1>5. ToSet(items) = ToSet(cache.items) \cup {x}
  BY <1>2, ToSetOfAppend
<1>6. Put(x.module, x.checksum, x.answer)
          = IF x.answer.text > MaxBytes THEN cache ELSE Evict(items, Bytes(items))
  BY <1>1, <1>3 DEF Put
<1> HIDE DEF items
<1>7. Unique(items)
  <2>1. SUFFICES ASSUME NEW i \in 1..(n + 1), NEW j \in 1..(n + 1),
                        items[i].module = items[j].module,
                        items[i].checksum = items[j].checksum
                 PROVE  i = j
    BY <1>4 DEF Unique
  <2>2. CASE i \in 1..n /\ j \in 1..n
    BY <1>2, <1>4, <2>1, <2>2 DEF Bounded, Unique
  <2>3. CASE i \in 1..n /\ j = n + 1
    BY <1>2, <1>4, <2>1, <2>3
  <2>4. CASE i = n + 1 /\ j \in 1..n
    BY <1>2, <1>4, <2>1, <2>4
  <2>5. QED
    BY <1>2, <2>2, <2>3, <2>4
<1>8. QED
  BY <1>2, <1>4, <1>5, <1>6, <1>7, EvictKeeps

\* The entry that answers a call becomes the newest one.
LEMMA HitKeeps ==
    ASSUME TypeInv, NEW i \in DOMAIN cache.items,
           cache' = [cache EXCEPT !.items = Append(RemoveAt(@, i), cache.items[i])]
    PROVE  Bounded(cache') /\ ToSet(cache'.items) \subseteq ToSet(cache.items)
<1> DEFINE s == cache.items
           t == Append(RemoveAt(s, i), s[i])
           n == Len(s)
<1>1. /\ Bounded(cache) /\ s \in Seq(Item) /\ n \in Nat /\ i \in 1..n /\ DOMAIN s = 1..n
      /\ s[i] \in Item
  BY CacheFields
<1>2. t \in Seq(Item) /\ Reordered(s, t) /\ Len(t) = n
  <2> HIDE DEF s
  <2>1. t \in Seq(Item) /\ Reordered(s, t)
    BY <1>1, MovedToEnd
  <2>2. QED
    BY <2>1 DEF Reordered
<1>3. PICK p \in [1..n -> 1..n] :
          /\ \A j, k \in 1..n : p[j] = p[k] => j = k
          /\ \A j \in 1..n : t[j] = s[p[j]]
  BY <1>2 DEF Reordered
<1>4. Bytes(t) = Bytes(s)
  <2> HIDE DEF s
  <2>1. PICK l \in Seq(Item), r \in Seq(Item) : Parts(s, i, l, r)
    BY <1>1, CutOut
  <2>2. PICK x \in Item : x = s[i]
    BY <1>1
  <2>3. Append(l, x) \in Seq(Item) /\ l \o r \in Seq(Item) /\ x.answer.text \in Int
    BY AppendProperties, ConcatProperties, ItemFields
  <2>4. PICK bl \in Int, br \in Int : bl = Bytes(l) /\ br = Bytes(r)
    BY BytesOfConcat
  <2>5. Bytes(Append(l, x)) = bl + x.answer.text /\ Bytes(l \o r) = bl + br
    BY <2>4, BytesOfAppend, BytesOfConcat
  <2>6. Bytes(Append(l, x) \o r) = (bl + x.answer.text) + br
    BY <2>3, <2>4, <2>5, BytesOfConcat
  <2>7. Bytes(Append(l \o r, x)) = (bl + br) + x.answer.text
    BY <2>3, <2>4, <2>5, BytesOfAppend
  <2>8. s = Append(l, x) \o r /\ t = Append(l \o r, x)
    BY <2>1, <2>2 DEF Parts
  <2> HIDE DEF t
  <2>9. Bytes(s) = (bl + x.answer.text) + br /\ Bytes(t) = (bl + br) + x.answer.text
    BY <2>6, <2>7, <2>8
  <2>10. QED
    BY <2>3, <2>4, <2>9
<1>5. cache' = [cache EXCEPT !.items = t]
  OBVIOUS
<1>6. DOMAIN t = 1..n
  BY <1>2, LenProperties
<1> HIDE DEF t
<1>7. cache' \in CacheType /\ cache'.items = t /\ cache'.bytes = cache.bytes
  BY <1>1, <1>2, <1>5 DEF Bounded, CacheType
<1>8. Unique(t)
  <2>1. SUFFICES ASSUME NEW j \in 1..n, NEW k \in 1..n,
                        t[j].module = t[k].module, t[j].checksum = t[k].checksum
                 PROVE  j = k
    BY <1>6 DEF Unique
  <2>2. p[j] \in 1..n /\ p[k] \in 1..n
    BY <1>3
  <2>3. t[j] = s[p[j]] /\ t[k] = s[p[k]]
    BY <1>3
  <2>4. Unique(s)
    BY <1>1 DEF Bounded
  <2>5. p[j] = p[k]
    BY <1>1, <2>1, <2>2, <2>3, <2>4 DEF Unique
  <2>6. QED
    BY <1>3, <2>5
<1>9. ToSet(t) \subseteq ToSet(s)
  BY <1>1, <1>3, <1>6 DEF ToSet
<1>10. Bounded(cache')
  BY <1>1, <1>2, <1>4, <1>7, <1>8 DEF Bounded
<1>11. QED
  BY <1>7, <1>9, <1>10

LEMMA BoundedNext ==
    ASSUME Bounded(cache')
    PROVE  cache' \in CacheType /\ CacheIsBounded'
  BY DEF Bounded, CacheIsBounded, Unique

-----------------------------------------------------------------------------
\* The three ways a turn of the loop ends are turns as described above.

LEMMA EntryOfRow ==
    ASSUME NEW c, NEW answer, NEW via \in Vias, [call |-> c, answer |-> answer] \in Row
    PROVE  /\ Answer(c, answer, via) \in Entry /\ c \in Calls /\ answer \in AnswerSet
           /\ Answer(c, answer, via).call = c /\ Answer(c, answer, via).answer = answer
           /\ Answer(c, answer, via).via = via
  BY DEF Row, Entry, Answer, Sourced

LEMMA HeadIsCall ==
    ASSUME TypeInv, NEW c, Takes(c)
    PROVE  c \in Calls /\ c.module \in Modules \cup {NoModule}
  BY RunFields, HeadAndRest, CallFields DEF Takes

\* The checksum a run has of a module is that of one of its answers.
LEMMA ChecksumIsKnown ==
    ASSUME TypeInv, NEW m, Checksum(m) # 0
    PROVE  /\ Navigates /\ Checksum(m) \in Texts
           /\ \E i \in DOMAIN run.calls :
                  /\ run.calls[i].call = Call("get_source_checksum", m)
                  /\ run.calls[i].answer.text = Checksum(m)
<1> DEFINE sums == {i \in DOMAIN run.calls :
                       /\ run.calls[i].call = Call("get_source_checksum", m)
                       /\ run.calls[i].answer.text # 0}
<1>1. Checksum(m) = IF ~Navigates \/ sums = {} THEN 0 ELSE run.calls[Max(sums)].answer.text
  BY DEF Checksum
<1>2. Navigates /\ sums # {} /\ Checksum(m) = run.calls[Max(sums)].answer.text
  BY <1>1
<1>3. Len(run.calls) \in Nat /\ DOMAIN run.calls = 1..Len(run.calls)
  BY RunFields, LenProperties
<1>4. Max(sums) \in sums
  <2>1. sums \in SUBSET (1..Len(run.calls))
    BY <1>3
  <2> HIDE DEF sums
  <2>2. QED
    BY <1>2, <1>3, <2>1, MaxOfIndices
<1>5. run.calls[Max(sums)] \in Entry
  BY <1>3, <1>4, RunFields, ElementOfSeq
<1>6. Checksum(m) \in Texts
  BY <1>2, <1>5 DEF Entry, AnswerSet
<1>7. QED
  BY <1>2, <1>4, <1>6

LEMMA HitTurn ==
    ASSUME TypeInv, NEW c, Takes(c), NEW i \in Cached(c),
           run' = [run EXCEPT !.pending = Tail(@), !.calls =
                       Append(@, Answer(c, cache.items[i].answer, "cache"))],
           task' = task
    PROVE  /\ Taken(c, cache.items[i].answer, "cache", <<>>)
           /\ [call |-> c, answer |-> cache.items[i].answer] \in Row
<1>1. cache.items[i] \in Item /\ c.tool = "read_method_source" /\ c.module = cache.items[i].module
  BY CacheFields DEF Cached
<1>2. c \in Calls /\ c.module \in Modules /\ cache.items[i].answer \in AnswerSet
  BY <1>1, HeadIsCall, ItemFields
<1>3. [call |-> c, answer |-> cache.items[i].answer] \in Row
  BY <1>2, NoModuleOK DEF Row, Sourced
<1>4. <<>> \o Tail(run.pending) = Tail(run.pending)
  BY RunFields, HeadAndRest, ConcatEmptySeq DEF Takes
<1>5. run' = [run EXCEPT !.calls = Append(@, Answer(c, cache.items[i].answer, "cache")),
                         !.pending = <<>> \o Tail(@)]
  BY <1>4 DEF TypeInv, RunType
<1>6. QED
  BY <1>1, <1>3, <1>5 DEF Taken

LEMMA TurnTypes ==
    ASSUME TypeInv, NEW c, NEW answer, NEW via \in Vias, NEW steps \in Seq(Calls),
           [call |-> c, answer |-> answer] \in Row, Taken(c, answer, via, steps),
           UNCHANGED <<text, seen, published, faults>>,
           stored' \in Seq(Row), run.known <= Len(stored'), Bounded(cache'),
           mixed' \subseteq Modules
    PROVE  TypeInv'
<1>1. run' \in RunType /\ run'.known = run.known /\ task' \in Task
  BY EntryOfRow, TakenFields
<1>2. task'.plan = Normalized(task'.request, task'.tools)
  <2>1. task'.plan = task.plan /\ task'.request = task.request /\ task'.tools = task.tools
    BY EntryOfRow, TakenFields
  <2>2. QED
    BY <2>1 DEF TypeInv
<1>3. cache' \in CacheType /\ CacheIsBounded'
  BY BoundedNext
<1>4. QED
  BY <1>1, <1>2, <1>3 DEF TypeInv

LEMMA HitTypes ==
    ASSUME TypeInv, NEW c, HitCache(c)
    PROVE  /\ TypeInv'
           /\ \E i \in Cached(c) :
                  /\ Taken(c, cache.items[i].answer, "cache", <<>>)
                  /\ [call |-> c, answer |-> cache.items[i].answer] \in Row
           /\ ToSet(cache'.items) \subseteq ToSet(cache.items)
<1>1. PICK i \in Cached(c) :
          /\ run' = [run EXCEPT !.pending = Tail(@), !.calls =
                        Append(@, Answer(c, cache.items[i].answer, "cache"))]
          /\ cache' = [cache EXCEPT !.items = Append(RemoveAt(@, i), cache.items[i])]
  BY DEF HitCache, Answer
<1>2. Takes(c) /\ UNCHANGED <<text, seen, published, task, stored, mixed, faults>>
  BY DEF HitCache
<1>3. /\ Taken(c, cache.items[i].answer, "cache", <<>>)
      /\ [call |-> c, answer |-> cache.items[i].answer] \in Row
  BY <1>1, <1>2, HitTurn
<1>4. i \in DOMAIN cache.items
  BY DEF Cached
<1>5. Bounded(cache') /\ ToSet(cache'.items) \subseteq ToSet(cache.items)
  BY <1>1, <1>4, HitKeeps
<1>6. /\ stored' \in Seq(Row) /\ run.known <= Len(stored') /\ mixed' \subseteq Modules
      /\ "cache" \in Vias /\ <<>> \in Seq(Calls)
  BY <1>2 DEF TypeInv, Vias
<1>7. TypeInv'
  BY <1>2, <1>3, <1>5, <1>6, TurnTypes
<1>8. QED
  BY <1>3, <1>5, <1>7

LEMMA ReuseTypes ==
    ASSUME TypeInv, NEW c, Reuse(c)
    PROVE  /\ TypeInv'
           /\ \E i \in Rows(c), steps \in Seq(Calls) :
                  /\ i \in DOMAIN stored /\ stored[i] \in Row /\ stored[i].call = c
                  /\ Taken(c, stored[i].answer, "reused", steps)
                  /\ [call |-> c, answer |-> stored[i].answer] \in Row
<1> DEFINE i == Max(Rows(c))
<1>1. /\ Takes(c) /\ Rows(c) # {} /\ Answered(c, stored[i].answer, "reused")
      /\ UNCHANGED <<text, seen, published, stored, cache, mixed, faults>>
  BY DEF Reuse
<1>2. i \in DOMAIN stored /\ i \in 1..run.known /\ stored[i] \in Row /\ stored[i].call = c
  BY <1>1, RowIndex
<1>3. i \in Rows(c)
  BY <1>2 DEF Rows
<1> HIDE DEF i
<1>4. [call |-> c, answer |-> stored[i].answer] \in Row /\ stored[i].answer \in AnswerSet
  BY <1>2 DEF Row, Sourced
<1>5. PICK steps \in Seq(Calls) : Taken(c, stored[i].answer, "reused", steps)
  BY <1>1, <1>4, AnswerTaken
<1>6. Bounded(cache')
  BY <1>1, CacheFields
<1>7. stored' \in Seq(Row) /\ run.known <= Len(stored') /\ mixed' \subseteq Modules
      /\ "reused" \in Vias
  BY <1>1 DEF TypeInv, Vias
<1>8. TypeInv'
  BY <1>1, <1>4, <1>5, <1>6, <1>7, TurnTypes
<1>9. QED
  BY <1>2, <1>3, <1>4, <1>5, <1>8

\* The entry that the answer of the server adds to the cache.
NewItem(c, answer) == [module |-> c.module, checksum |-> Checksum(c.module), answer |-> answer]

LEMMA RecordTypes ==
    ASSUME TypeInv, NEW c, Recorded(c)
    PROVE  /\ TypeInv'
           /\ \E answer \in Given(c), steps \in Seq(Calls) :
                  /\ Taken(c, answer, "server", steps)
                  /\ [call |-> c, answer |-> answer] \in Row
                  /\ stored' = Append(stored, [call |-> c, answer |-> answer])
                  /\ mixed' = IF Kept(c) /\ Checksum(c.module) # answer.text
                              THEN mixed \cup {c.module} ELSE mixed
                  /\ \A y \in ToSet(cache'.items) :
                         y \in ToSet(cache.items) \/ (Kept(c) /\ y = NewItem(c, answer))
<1>1. PICK answer \in Given(c) :
          /\ Answered(c, answer, "server")
          /\ stored' = Append(stored, [call |-> c, answer |-> answer])
          /\ cache' = IF Kept(c) THEN Put(c.module, Checksum(c.module), answer) ELSE cache
          /\ mixed' = IF Kept(c) /\ Checksum(c.module) # answer.text
                      THEN mixed \cup {c.module} ELSE mixed
  BY DEF Recorded
<1>2. /\ Takes(c) /\ Cached(c) = {} /\ Rows(c) = {}
      /\ UNCHANGED <<text, seen, published, faults>>
  BY DEF Recorded
<1>3. c \in Calls
  BY <1>2, HeadIsCall
<1>4. /\ [call |-> c, answer |-> answer] \in Row /\ answer \in AnswerSet
      /\ c.tool \in SourceTools => c.module \in Modules
  <2>1. [call |-> c, answer |-> answer] \in Row /\ answer \in AnswerSet
    BY DEF Given
  <2>2. QED
    BY <1>3, <2>1, CallFields DEF Row, Sourced
<1>5. PICK steps \in Seq(Calls) : Taken(c, answer, "server", steps)
  BY <1>1, <1>2, <1>4, AnswerTaken
<1>6. /\ Kept(c) => c.module \in Modules
      /\ mixed' \subseteq Modules
  BY <1>1, <1>4, ToolNames DEF Kept, TypeInv
<1>7. /\ Bounded(cache')
      /\ \A y \in ToSet(cache'.items) :
             y \in ToSet(cache.items) \/ (Kept(c) /\ y = NewItem(c, answer))
  <2>1. CASE ~Kept(c)
    BY <1>1, <2>1, CacheFields
  <2>2. CASE Kept(c)
    <3> DEFINE x == NewItem(c, answer)
    <3>1. /\ x.module = c.module /\ x.checksum = Checksum(c.module) /\ x.answer = answer
          /\ Checksum(c.module) \in Texts
      BY <2>2, ChecksumIsKnown DEF NewItem, Kept
    <3>2. x \in Item
      BY <1>4, <1>6, <2>2, <3>1 DEF Item, NewItem
    <3>3. \A i \in DOMAIN cache.items :
              ~(cache.items[i].module = x.module /\ cache.items[i].checksum = x.checksum)
      BY <1>2, <2>2, <3>1 DEF Cached, Kept
    <3>4. cache' = Put(x.module, x.checksum, x.answer)
      BY <1>1, <2>2, <3>1
    <3> HIDE DEF x
    <3>5. Bounded(cache') /\ \A y \in ToSet(cache'.items) : y \in ToSet(cache.items) \/ y = x
      BY <3>2, <3>3, <3>4, PutKeeps
    <3>6. QED
      BY <2>2, <3>5 DEF x
  <2>3. QED
    BY <2>1, <2>2
<1>8. stored' \in Seq(Row) /\ run.known <= Len(stored')
  <2>1. stored \in Seq(Row) /\ Len(stored) \in Nat /\ run.known \in Nat /\ run.known <= Len(stored)
    BY RunFields, LenProperties DEF TypeInv
  <2>2. stored' \in Seq(Row) /\ Len(stored') = Len(stored) + 1
    BY <1>1, <1>4, <2>1, AppendProperties
  <2>3. QED
    BY <2>1, <2>2
<1>9. TypeInv'
  BY <1>2, <1>4, <1>5, <1>6, <1>7, <1>8, TurnTypes DEF Vias
<1>10. QED
  BY <1>1, <1>4, <1>5, <1>7, <1>9

\* Every way to answer a call is a turn of the loop.
LEMMA Turn ==
    ASSUME TypeInv, NEW c, HitCache(c) \/ Reuse(c) \/ Recorded(c)
    PROVE  /\ TypeInv'
           /\ \E answer \in AnswerSet, via \in Vias, steps \in Seq(Calls) :
                  Taken(c, answer, via, steps) /\ Answer(c, answer, via) \in Entry
<1>1. "cache" \in Vias /\ "reused" \in Vias /\ "server" \in Vias /\ <<>> \in Seq(Calls)
  BY DEF Vias
<1>2. CASE HitCache(c)
  <2>1. PICK i \in Cached(c) :
            /\ Taken(c, cache.items[i].answer, "cache", <<>>)
            /\ [call |-> c, answer |-> cache.items[i].answer] \in Row
    BY <1>2, HitTypes
  <2>2. PICK answer : answer = cache.items[i].answer
    OBVIOUS
  <2>3. Answer(c, answer, "cache") \in Entry /\ answer \in AnswerSet
    BY <1>1, <2>1, <2>2, EntryOfRow
  <2>4. Taken(c, answer, "cache", <<>>) /\ TypeInv'
    BY <1>2, <2>1, <2>2, HitTypes
  <2>5. QED
    BY <1>1, <2>3, <2>4
<1>3. CASE Reuse(c)
  <2>1. PICK i \in Rows(c), steps \in Seq(Calls) :
            /\ Taken(c, stored[i].answer, "reused", steps)
            /\ [call |-> c, answer |-> stored[i].answer] \in Row
    BY <1>3, ReuseTypes
  <2>2. QED
    BY <1>1, <1>3, <2>1, ReuseTypes, EntryOfRow
<1>4. CASE Recorded(c)
  <2>1. PICK answer \in Given(c), steps \in Seq(Calls) :
            /\ Taken(c, answer, "server", steps)
            /\ [call |-> c, answer |-> answer] \in Row
    BY <1>4, RecordTypes
  <2>2. QED
    BY <1>1, <1>4, <2>1, RecordTypes, EntryOfRow
<1>5. QED
  BY <1>2, <1>3, <1>4

LEMMA CreateTypes ==
    ASSUME TypeInv, NEW request \in Requests, CreateTask(request)
    PROVE  /\ TypeInv' /\ run' = Idle
           /\ task'.phase = "waiting" /\ task'.kept = {} /\ stored' = <<>>
           /\ task'.plan = Normalized(task'.request, task'.tools)
<1> DEFINE plan == Normalized(request, published)
<1>1. request \in Request /\ published \in Toolsets /\ task.no \in 0..MaxTasks
      /\ MaxTasks \in Nat /\ task.no < MaxTasks
  BY Limits, TaskFields DEF TypeInv, CreateTask
<1>2. plan \in Seq(Calls)
  BY <1>1, NormalizedType
<1>3. /\ task' = [no |-> task.no + 1, phase |-> "waiting", request |-> request,
                  plan |-> plan, tools |-> published, kept |-> {}]
      /\ seen' = [m \in Modules |-> {text[m]}] /\ stored' = <<>> /\ run' = Idle
      /\ UNCHANGED <<text, published, cache, mixed, faults>>
  BY DEF CreateTask
<1> HIDE DEF plan
<1>4. task.no + 1 \in 0..MaxTasks /\ "waiting" \in Phases
  BY <1>1 DEF Phases
<1>5. /\ task' \in Task /\ task'.phase = "waiting" /\ task'.kept = {}
      /\ task'.request = request /\ task'.tools = published /\ task'.plan = plan
  BY <1>1, <1>2, <1>3, <1>4 DEF Task, Policies
<1>6. run' \in RunType /\ run'.known = 0 /\ Len(stored') = 0 /\ stored' \in Seq(Row)
  BY <1>3 DEF Idle, RunType, Policies
<1>7. seen' \in [Modules -> SUBSET Texts]
  BY <1>3 DEF TypeInv
<1>8. cache' \in CacheType /\ CacheIsBounded'
  BY <1>3 DEF TypeInv, CacheIsBounded
<1>9. TypeInv'
  BY <1>1, <1>3, <1>5, <1>6, <1>7, <1>8 DEF TypeInv, plan
<1>10. QED
  BY <1>3, <1>5, <1>9 DEF plan

LEMMA StartTypes ==
    ASSUME TypeInv, StartRun
    PROVE  /\ TypeInv' /\ task.phase = "waiting"
           /\ UNCHANGED <<text, seen, published, stored, cache, mixed, faults>>
           /\ \/ task' = [task EXCEPT !.phase = "failed"] /\ run' = run
              \/ /\ Len(task.plan) <= MaxCalls
                 /\ task' = [task EXCEPT !.phase = "running"]
                 /\ run'.tools = published /\ run'.known = Len(stored)
                 /\ run'.pending = task.plan /\ run'.calls = <<>>
<1>1. /\ task.phase = "waiting" /\ UNCHANGED <<text, seen, published, stored, cache, mixed, faults>>
      /\ \/ task' = [task EXCEPT !.phase = "failed"] /\ run' = run
         \/ /\ ~(Len(task.plan) > MaxCalls)
            /\ task' = [task EXCEPT !.phase = "running"]
            /\ run' = [tools |-> published, known |-> Len(stored),
                       pending |-> task.plan, calls |-> <<>>]
  BY DEF StartRun
<1>2. /\ task' \in Task /\ task'.plan = task.plan
      /\ task'.request = task.request /\ task'.tools = task.tools
  BY <1>1, PhaseChange DEF Phases, Ended
<1>3. stored \in Seq(Row) /\ Len(stored) \in Nat /\ Len(task.plan) \in Nat /\ MaxCalls \in Nat
  BY TaskFields, LenProperties, Limits DEF TypeInv
<1>4. run' \in RunType /\ run'.known <= Len(stored')
  <2>1. CASE run' = run
    BY <1>1, <2>1 DEF TypeInv
  <2>2. CASE run' = [tools |-> published, known |-> Len(stored),
                     pending |-> task.plan, calls |-> <<>>]
    BY <1>1, <1>3, <2>2, TaskFields DEF TypeInv, RunType, Policies
  <2>3. QED
    BY <1>1, <2>1, <2>2
<1>5. cache' \in CacheType /\ CacheIsBounded'
  BY <1>1 DEF TypeInv, CacheIsBounded
<1>6. TypeInv'
  BY <1>1, <1>2, <1>4, <1>5 DEF TypeInv
<1>7. QED
  BY <1>1, <1>3, <1>6

\* The other actions.

LEMMA ChangeTypes ==
    ASSUME TypeInv, NEW m \in Edited, ModuleChanges(m)
    PROVE  /\ TypeInv' /\ UNCHANGED <<published, task, stored, run, cache, mixed, faults>>
           /\ \E t \in Texts : /\ text' = [text EXCEPT ![m] = t]
                               /\ seen' = [seen EXCEPT ![m] = @ \cup {t}]
           /\ m \in Modules
<1>1. PICK t \in Texts : /\ text' = [text EXCEPT ![m] = t]
                         /\ seen' = [seen EXCEPT ![m] = @ \cup {t}]
  BY DEF ModuleChanges
<1>2. m \in Modules
  BY Limits
<1>3. text' \in [Modules -> Texts] /\ seen' \in [Modules -> SUBSET Texts]
  <2>1. seen[m] \cup {t} \in SUBSET Texts
    BY <1>2 DEF TypeInv
  <2>2. QED
    BY <1>1, <1>2, <2>1 DEF TypeInv
<1>4. UNCHANGED <<published, task, stored, run, cache, mixed, faults>>
  BY DEF ModuleChanges
<1>5. TypeInv'
  BY <1>3, <1>4 DEF TypeInv, CacheIsBounded
<1>6. QED
  BY <1>1, <1>2, <1>4, <1>5

LEMMA PolicyTypes ==
    ASSUME TypeInv, PolicyChanges
    PROVE  TypeInv' /\ UNCHANGED <<text, seen, task, stored, run, cache, mixed>>
<1>1. published' \in Toolsets /\ faults' = faults + 1 /\ faults < MaxFaults
      /\ UNCHANGED <<text, seen, task, stored, run, cache, mixed>>
  BY DEF PolicyChanges
<1>2. faults' \in 0..MaxFaults
  BY <1>1, Limits DEF TypeInv
<1>3. QED
  BY <1>1, <1>2 DEF TypeInv, CacheIsBounded

LEMMA StopTypes ==
    ASSUME TypeInv, Stop
    PROVE  /\ TypeInv' /\ UNCHANGED <<text, seen, published, stored, run, cache, mixed, faults>>
           /\ task.phase = "running" /\ task' = [task EXCEPT !.phase = "failed"]
<1>1. /\ UNCHANGED <<text, seen, published, stored, run, cache, mixed, faults>>
      /\ task.phase = "running" /\ task' = [task EXCEPT !.phase = "failed"]
  BY DEF Stop
<1>2. /\ task' \in Task /\ task'.plan = task.plan
      /\ task'.request = task.request /\ task'.tools = task.tools
  BY <1>1, PhaseChange DEF Phases, Ended
<1>3. QED
  BY <1>1, <1>2 DEF TypeInv, CacheIsBounded

LEMMA LoseTypes ==
    ASSUME TypeInv, Lose
    PROVE  /\ TypeInv' /\ UNCHANGED <<text, seen, published, stored, mixed>>
           /\ task.phase = "running" /\ task' = [task EXCEPT !.phase = "waiting"]
           /\ run' = Idle /\ cache' \in {cache, [items |-> <<>>, bytes |-> 0]}
<1>1. /\ UNCHANGED <<text, seen, published, stored, mixed>>
      /\ task.phase = "running" /\ task' = [task EXCEPT !.phase = "waiting"]
      /\ run' = Idle /\ cache' \in {cache, [items |-> <<>>, bytes |-> 0]}
      /\ faults < MaxFaults /\ faults' = faults + 1
  BY DEF Lose
<1>2. /\ task' \in Task /\ task'.plan = task.plan
      /\ task'.request = task.request /\ task'.tools = task.tools
  BY <1>1, PhaseChange DEF Phases
<1>3. run' \in RunType /\ run'.known = 0 /\ Len(stored) \in Nat
  BY <1>1, LenProperties DEF Idle, RunType, Policies, TypeInv
<1>4. Bounded(cache')
  BY <1>1, CacheFields, EmptyIsBounded
<1>5. faults' \in 0..MaxFaults
  BY <1>1, Limits DEF TypeInv
<1>6. QED
  BY <1>1, <1>2, <1>3, <1>4, <1>5, BoundedNext DEF TypeInv

LEMMA AnalyzeTypes ==
    ASSUME TypeInv, Analyze
    PROVE  /\ TypeInv' /\ UNCHANGED <<text, seen, published, stored, run, cache, mixed, faults>>
           /\ task.phase = "running" /\ run.pending = <<>>
           /\ task'.plan = task.plan /\ task'.tools = task.tools
           /\ task'.request = task.request
           /\ \/ Insufficient /\ task'.phase = "insufficient" /\ task'.kept = task.kept
              \/ /\ ~Insufficient /\ task'.phase = "answered"
                 /\ \A claim \in task'.kept : Confirmed(claim)
<1>1. /\ UNCHANGED <<text, seen, published, stored, run, cache, mixed, faults>>
      /\ task.phase = "running" /\ run.pending = <<>>
  BY DEF Analyze
<1>2. /\ task' \in Task /\ task'.plan = task.plan /\ task'.tools = task.tools
      /\ task'.request = task.request
      /\ \/ Insufficient /\ task'.phase = "insufficient" /\ task'.kept = task.kept
         \/ /\ ~Insufficient /\ task'.phase = "answered"
            /\ \A claim \in task'.kept : Confirmed(claim)
  <2>1. CASE Insufficient
    <3>1. task' = [task EXCEPT !.phase = "insufficient"]
      BY <2>1 DEF Analyze
    <3>2. QED
      BY <2>1, <3>1, PhaseChange DEF Phases, Ended
  <2>2. CASE ~Insufficient
    <3>1. PICK claim \in Claims :
              task' = [task EXCEPT !.phase = "answered", !.kept = {c \in {claim} : Confirmed(c)}]
      BY <2>2 DEF Analyze
    <3> DEFINE kept == {c \in {claim} : Confirmed(c)}
    <3>2. kept \in SUBSET Claims /\ \A c \in kept : Confirmed(c)
      OBVIOUS
    <3>3. task' = [task EXCEPT !.phase = "answered", !.kept = kept]
      BY <3>1
    <3> HIDE DEF kept
    <3>4. /\ task' \in Task /\ task'.plan = task.plan /\ task'.tools = task.tools
          /\ task'.request = task.request /\ task'.phase = "answered" /\ task'.kept = kept
      BY <3>2, <3>3 DEF TypeInv, Task, Phases, Ended
    <3>5. QED
      BY <2>2, <3>2, <3>4
  <2>3. QED
    BY <2>1, <2>2
<1>3. QED
  BY <1>1, <1>2 DEF TypeInv, CacheIsBounded

LEMMA StutterTypes ==
    ASSUME TypeInv, UNCHANGED loop
    PROVE  TypeInv'
  BY DEF loop, TypeInv, CacheIsBounded

LEMMA InitTypes == Init => TypeInv
<1> SUFFICES ASSUME Init PROVE TypeInv
  OBVIOUS
<1>1. MaxTasks \in Nat /\ MaxFaults \in Nat
  BY Limits
<1>2. NoTask \in Task
  BY <1>1 DEF NoTask, Task, Phases, Ended, Policies, Request
<1>3. NoTask.plan = Normalized(NoTask.request, NoTask.tools)
  BY DEF NoTask, Normalized, SourceAware
<1>4. Idle \in RunType /\ Idle.known = 0 /\ Len(<<>>) = 0
  BY DEF Idle, RunType, Policies
<1>5. Bounded(cache)
  BY EmptyIsBounded DEF Init
<1>6. cache \in CacheType /\ CacheIsBounded
  BY <1>5 DEF Bounded, CacheIsBounded, Unique
<1>7. QED
  BY <1>1, <1>2, <1>3, <1>4, <1>6 DEF Init, TypeInv

LEMMA NextTypes == TypeInv /\ [Round]_loop => TypeInv'
<1> SUFFICES ASSUME TypeInv, [Round]_loop PROVE TypeInv'
  OBVIOUS
<1>1. ASSUME NEW c \in ToSet(run.pending), HitCache(c) \/ Reuse(c) \/ Recorded(c) PROVE TypeInv'
  BY <1>1, Turn
<1>2. QED
  BY <1>1, ChangeTypes, PolicyTypes, CreateTypes, StartTypes, StopTypes, LoseTypes,
     AnalyzeTypes, StutterTypes DEF Round

-----------------------------------------------------------------------------
\* Where a text that a run holds comes from.

AnswerSeen(e) ==
    /\ SumSeen(e)
    /\ e.call.tool \in SourceTools =>
           /\ e.call.module \in Modules /\ e.answer.text \in Texts
           /\ e.answer.text \in seen[e.call.module] \/ e.call.module \in mixed

ItemSeen(x) == x.answer.text \in Texts /\ (x.answer.text = x.checksum \/ x.module \in mixed)

TextsSeen == task.phase # "ended" => \A m \in Modules : text[m] \in seen[m]
RowsSeen == \A i \in DOMAIN stored : RowSeen(stored[i])
AnswersSeen == \A i \in DOMAIN run.calls : AnswerSeen(run.calls[i])
ItemsSeen == \A x \in ToSet(cache.items) : ItemSeen(x)

SourceInv == TextsSeen /\ RowsSeen /\ AnswersSeen /\ ItemsSeen

\* What is seen and what is mixed only grows while a task is not over.
Grow == mixed \subseteq mixed' /\ \A m \in Modules : seen[m] \subseteq seen'[m]

LEMMA SeenStays ==
    ASSUME Grow
    PROVE  /\ \A e : RowSeen(e) => RowSeen(e)'
           /\ \A e : AnswerSeen(e) => AnswerSeen(e)'
           /\ \A x : ItemSeen(x) => ItemSeen(x)'
<1>1. ASSUME NEW e, RowSeen(e) PROVE RowSeen(e)'
  BY <1>1 DEF Grow, RowSeen, SumSeen
<1>2. ASSUME NEW e, AnswerSeen(e) PROVE AnswerSeen(e)'
  BY <1>2 DEF Grow, AnswerSeen, SumSeen
<1>3. ASSUME NEW x, ItemSeen(x) PROVE ItemSeen(x)'
  BY <1>3 DEF Grow, ItemSeen
<1>4. QED
  BY <1>1, <1>2, <1>3

LEMMA TurnSeen ==
    ASSUME TypeInv, SourceInv, NEW c, NEW answer, NEW via \in Vias, NEW steps \in Seq(Calls),
           [call |-> c, answer |-> answer] \in Row, Taken(c, answer, via, steps),
           UNCHANGED <<text, seen>>, mixed \subseteq mixed',
           AnswerSeen(Answer(c, answer, via))', RowsSeen', ItemsSeen'
    PROVE  SourceInv'
<1> DEFINE e == Answer(c, answer, via)
           n == Len(run.calls)
<1>0. Answer(c, answer, via) \in Entry
  BY EntryOfRow
<1>1. /\ e \in Entry /\ run'.calls = Append(run.calls, e) /\ task.phase = "running"
      /\ run.calls \in Seq(Entry)
  BY <1>0, TakenFields, RunFields
<1>2. Grow
  BY DEF Grow
<1>3. AnswerSeen(e)'
  OBVIOUS
<1> HIDE DEF e
<1>4. PICK calls \in Seq(Entry) : calls = run'.calls
  BY <1>1, AppendProperties
<1>5. /\ n \in Nat /\ DOMAIN run.calls = 1..n /\ DOMAIN calls = 1..(n + 1)
      /\ calls[n + 1] = e /\ \A i \in 1..n : calls[i] = run.calls[i]
  BY <1>1, <1>4, AppendProperties, LenProperties
<1>6. ASSUME NEW i \in 1..(n + 1) PROVE AnswerSeen(calls[i])'
  <2>1. CASE i \in 1..n
    <3>1. AnswerSeen(run.calls[i])
      BY <1>5, <2>1 DEF SourceInv, AnswersSeen
    <3>2. PICK old : old = run.calls[i]
      OBVIOUS
    <3>3. AnswerSeen(old)'
      BY <1>2, <3>1, <3>2, SeenStays
    <3>4. QED
      BY <1>5, <2>1, <3>2, <3>3
  <2>2. CASE i = n + 1
    BY <1>3, <1>5, <2>2
  <2>3. QED
    BY <1>5, <2>1, <2>2
<1>7. AnswersSeen'
  BY <1>4, <1>5, <1>6 DEF AnswersSeen
<1>8. TextsSeen'
  BY <1>1 DEF SourceInv, TextsSeen
<1>9. QED
  BY <1>7, <1>8 DEF SourceInv

LEMMA HitSeen ==
    ASSUME TypeInv, SourceInv, NEW c, HitCache(c)
    PROVE  SourceInv'
<1>1. PICK i \in Cached(c) :
          /\ Taken(c, cache.items[i].answer, "cache", <<>>)
          /\ [call |-> c, answer |-> cache.items[i].answer] \in Row
  BY HitTypes
<1>2. PICK x \in Item : x = cache.items[i] /\ x \in ToSet(cache.items)
  BY CacheFields DEF Cached, ToSet
<1>3. /\ c.tool = "read_method_source" /\ c.module = x.module /\ x.checksum = Checksum(c.module)
      /\ x.checksum \in Texts /\ c.module \in Modules /\ ItemSeen(x)
  BY <1>2, ItemFields DEF Cached, SourceInv, ItemsSeen
<1>4. x.checksum \in seen[c.module]
  <2>1. Checksum(c.module) # 0
    BY <1>3, Limits
  <2>2. PICK j \in DOMAIN run.calls :
            /\ run.calls[j].call = Call("get_source_checksum", c.module)
            /\ run.calls[j].answer.text = Checksum(c.module)
    BY <2>1, ChecksumIsKnown
  <2>3. SumSeen(run.calls[j])
    BY DEF SourceInv, AnswersSeen, AnswerSeen
  <2>4. QED
    BY <1>3, <2>1, <2>2, <2>3 DEF SumSeen, Call
<1>5. UNCHANGED <<text, seen, stored, mixed>>
  BY DEF HitCache
<1>6. AnswerSeen(Answer(c, x.answer, "cache"))'
  BY <1>3, <1>4, <1>5 DEF AnswerSeen, SumSeen, ItemSeen, Answer
<1>7. RowsSeen'
  BY <1>5 DEF SourceInv, RowsSeen, RowSeen, SumSeen
<1>8. ItemsSeen'
  BY <1>5, HitTypes DEF SourceInv, ItemsSeen, ItemSeen
<1>9. "cache" \in Vias /\ <<>> \in Seq(Calls)
  BY DEF Vias
<1>10. QED
  BY <1>1, <1>2, <1>5, <1>6, <1>7, <1>8, <1>9, TurnSeen

LEMMA ReuseSeen ==
    ASSUME TypeInv, SourceInv, NEW c, Reuse(c)
    PROVE  SourceInv'
<1>1. PICK i \in Rows(c), steps \in Seq(Calls) :
          /\ i \in DOMAIN stored /\ stored[i] \in Row /\ stored[i].call = c
          /\ Taken(c, stored[i].answer, "reused", steps)
          /\ [call |-> c, answer |-> stored[i].answer] \in Row
  BY ReuseTypes
<1>2. PICK e \in Row : e = stored[i] /\ RowSeen(e) /\ e.call = c
  BY <1>1 DEF SourceInv, RowsSeen
<1>3. UNCHANGED <<text, seen, stored, mixed, cache>>
  BY DEF Reuse
<1>4. e.answer.text \in Texts \cup {0}
  BY DEF Row, AnswerSet
<1>5. e.call.tool \in SourceTools => e.answer.text \in Texts
  BY <1>2 DEF RowSeen, TypeInv
<1>6. AnswerSeen(Answer(c, e.answer, "reused"))'
  BY <1>2, <1>3, <1>5 DEF AnswerSeen, RowSeen, SumSeen, Answer
<1>7. RowsSeen'
  BY <1>3 DEF SourceInv, RowsSeen, RowSeen, SumSeen
<1>8. ItemsSeen'
  BY <1>3 DEF SourceInv, ItemsSeen, ItemSeen
<1>9. "reused" \in Vias
  BY DEF Vias
<1>10. QED
  BY <1>1, <1>2, <1>3, <1>6, <1>7, <1>8, <1>9, TurnSeen

LEMMA RecordSeen ==
    ASSUME TypeInv, SourceInv, NEW c, Recorded(c)
    PROVE  SourceInv'
<1>1. PICK answer \in Given(c), steps \in Seq(Calls) :
          /\ Taken(c, answer, "server", steps)
          /\ [call |-> c, answer |-> answer] \in Row
          /\ stored' = Append(stored, [call |-> c, answer |-> answer])
          /\ mixed' = IF Kept(c) /\ Checksum(c.module) # answer.text
                      THEN mixed \cup {c.module} ELSE mixed
          /\ \A y \in ToSet(cache'.items) :
                 y \in ToSet(cache.items) \/ (Kept(c) /\ y = NewItem(c, answer))
  BY RecordTypes
<1>2. Takes(c) /\ UNCHANGED <<text, seen>>
  BY DEF Recorded
<1>3. mixed \subseteq mixed' /\ Grow
  BY <1>1, <1>2 DEF Grow
<1>4. RowSeen([call |-> c, answer |-> answer])
  BY DEF Given
<1>5. c.tool \in SourceTools => c.module \in Modules /\ answer.text \in Texts
  BY <1>4 DEF RowSeen, TypeInv
<1>6. AnswerSeen(Answer(c, answer, "server"))'
  BY <1>2, <1>4, <1>5 DEF AnswerSeen, RowSeen, SumSeen, Answer
<1>7. RowsSeen'
  <2> DEFINE e == [call |-> c, answer |-> answer]
             n == Len(stored)
  <2>1. RowSeen(e)'
    BY <1>3, <1>4, SeenStays
  <2>2. e \in Row /\ stored \in Seq(Row) /\ stored' = Append(stored, e)
    BY <1>1 DEF TypeInv
  <2> HIDE DEF e
  <2>3. /\ n \in Nat /\ DOMAIN stored = 1..n /\ DOMAIN stored' = 1..(n + 1)
        /\ stored'[n + 1] = e /\ \A i \in 1..n : stored'[i] = stored[i]
    BY <2>2, AppendProperties, LenProperties
  <2>4. \A i \in 1..n : RowSeen(stored[i])
    BY <2>3 DEF SourceInv, RowsSeen
  <2>5. ASSUME NEW i \in 1..(n + 1) PROVE RowSeen(stored[i])'
    <3>1. CASE i \in 1..n
      <4>1. PICK old : old = stored[i] /\ RowSeen(old)
        BY <2>4, <3>1
      <4>2. RowSeen(old)'
        BY <1>3, <4>1, SeenStays
      <4>3. stored'[i] = old
        BY <2>3, <3>1, <4>1
      <4>4. QED
        BY <4>2, <4>3
    <3>2. CASE i = n + 1
      BY <2>1, <2>3, <3>2
    <3>3. QED
      BY <2>3, <3>1, <3>2
  <2>6. QED
    BY <2>3, <2>5 DEF RowsSeen
<1>8. ItemsSeen'
  <2>1. ASSUME NEW y \in ToSet(cache'.items) PROVE ItemSeen(y)'
    <3>1. CASE y \in ToSet(cache.items)
      BY <1>3, <3>1, SeenStays DEF SourceInv, ItemsSeen
    <3>2. CASE Kept(c) /\ y = NewItem(c, answer)
      <4>1. c.tool \in SourceTools
        BY <3>2, ToolNames DEF Kept
      <4>2. answer.text \in Texts
        BY <1>5, <4>1
      <4>3. y.answer = answer /\ y.checksum = Checksum(c.module) /\ y.module = c.module
        BY <3>2 DEF NewItem
      <4>4. Checksum(c.module) # answer.text => c.module \in mixed'
        BY <1>1, <3>2
      <4>5. QED
        BY <4>2, <4>3, <4>4 DEF ItemSeen
    <3>3. QED
      BY <1>1, <3>1, <3>2
  <2>2. QED
    BY <2>1 DEF ItemsSeen
<1>9. QED
  BY <1>1, <1>2, <1>3, <1>6, <1>7, <1>8, TurnSeen DEF Vias

LEMMA NextSeen == TypeInv /\ SourceInv /\ [Round]_loop => SourceInv'
<1> SUFFICES ASSUME TypeInv, SourceInv, [Round]_loop PROVE SourceInv'
  OBVIOUS
<1>1. ASSUME NEW m \in Edited, ModuleChanges(m) PROVE SourceInv'
  <2>1. PICK t \in Texts : /\ text' = [text EXCEPT ![m] = t]
                           /\ seen' = [seen EXCEPT ![m] = @ \cup {t}]
    BY <1>1, ChangeTypes
  <2>2. m \in Modules /\ UNCHANGED <<published, task, stored, run, cache, mixed, faults>>
    BY <1>1, ChangeTypes
  <2>3. Grow
    BY <2>1, <2>2 DEF Grow, TypeInv
  <2>4. TextsSeen'
    BY <2>1, <2>2 DEF SourceInv, TextsSeen, TypeInv
  <2>5. RowsSeen' /\ AnswersSeen' /\ ItemsSeen'
    BY <2>2, <2>3, SeenStays DEF SourceInv, RowsSeen, AnswersSeen, ItemsSeen
  <2>6. QED
    BY <2>4, <2>5 DEF SourceInv
<1>2. ASSUME NEW request \in Requests, CreateTask(request) PROVE SourceInv'
  <2>1. run'.calls = <<>> /\ stored' = <<>> /\ DOMAIN <<>> = {}
    BY <1>2, CreateTypes DEF Idle
  <2>2. seen' = [m \in Modules |-> {text[m]}] /\ UNCHANGED <<text, cache, mixed>>
    BY <1>2 DEF CreateTask
  <2>3. RowsSeen' /\ AnswersSeen'
    BY <2>1 DEF RowsSeen, AnswersSeen
  <2>4. TextsSeen'
    BY <2>2 DEF TextsSeen
  <2>5. ItemsSeen'
    BY <2>2 DEF SourceInv, ItemsSeen, ItemSeen
  <2>6. QED
    BY <2>3, <2>4, <2>5 DEF SourceInv
<1>3. ASSUME UNCHANGED <<text, seen, stored, mixed>>,
             task.phase # "ended" \/ task' = task,
             run' = run \/ run'.calls = <<>>,
             cache' = cache \/ cache'.items = <<>>
      PROVE  SourceInv'
  <2>1. DOMAIN <<>> = {} /\ ToSet(<<>>) = {}
    BY DEF ToSet
  <2>2. TextsSeen' /\ RowsSeen'
    BY <1>3 DEF SourceInv, TextsSeen, RowsSeen, RowSeen, SumSeen
  <2>3. AnswersSeen'
    BY <1>3, <2>1 DEF SourceInv, AnswersSeen, AnswerSeen, SumSeen
  <2>4. ItemsSeen'
    BY <1>3, <2>1 DEF SourceInv, ItemsSeen, ItemSeen
  <2>5. QED
    BY <2>2, <2>3, <2>4 DEF SourceInv
<1>4. ASSUME NEW c \in ToSet(run.pending), HitCache(c) \/ Reuse(c) \/ Recorded(c) PROVE SourceInv'
  BY <1>4, HitSeen, ReuseSeen, RecordSeen
<1>5. ASSUME PolicyChanges \/ UNCHANGED loop PROVE SourceInv'
  BY <1>3, <1>5, PolicyTypes DEF loop
<1>6. ASSUME StartRun PROVE SourceInv'
  BY <1>3, <1>6, StartTypes
<1>7. ASSUME Stop \/ Analyze PROVE SourceInv'
  BY <1>3, <1>7, StopTypes, AnalyzeTypes
<1>8. ASSUME Lose PROVE SourceInv'
  BY <1>3, <1>8, LoseTypes DEF Idle
<1>9. QED
  BY <1>1, <1>2, <1>4, <1>5, <1>6, <1>7, <1>8 DEF Round

LEMMA InitSeen == Init => SourceInv
  BY DEF Init, NoTask, Idle, SourceInv, TextsSeen, RowsSeen, AnswersSeen, ItemsSeen, ToSet

LEMMA SeenIsCurrent == TypeInv /\ SourceInv => SourceIsCurrent
<1> SUFFICES ASSUME SourceInv, NEW i \in Reads
             PROVE  run.calls[i].answer.text \in seen[run.calls[i].call.module] \cup
                        IF run.calls[i].call.module \in mixed THEN Texts ELSE {}
  BY DEF SourceIsCurrent
<1>1. AnswerSeen(run.calls[i]) /\ run.calls[i].call.tool \in SourceTools
  BY DEF Reads, SourceInv, AnswersSeen
<1>2. QED
  BY <1>1 DEF AnswerSeen

-----------------------------------------------------------------------------
\* The answer in hand.

LEMMA MadeType ==
    ASSUME NEW A, \A e \in A : e.call \in Calls, NEW s \in Seq(A)
    PROVE  /\ Made(s) \in Seq(Calls) /\ Len(Made(s)) = Len(s) /\ Len(s) \in Nat
           /\ DOMAIN Made(s) = 1..Len(s) /\ DOMAIN s = 1..Len(s)
           /\ \A i \in 1..Len(s) : Made(s)[i] = s[i].call
<1>1. Len(s) \in Nat /\ DOMAIN s = 1..Len(s)
  BY LenProperties
<1>2. \A i \in 1..Len(s) : s[i].call \in Calls
  BY ElementOfSeq
<1>3. Made(s) \in [1..Len(s) -> Calls]
  BY <1>1, <1>2 DEF Made
<1>4. Made(s) \in Seq(Calls)
  BY <1>1, <1>3, SeqDef
<1>5. Len(Made(s)) = Len(s)
  BY <1>1, <1>3, <1>4, LenProperties
<1>6. QED
  BY <1>1, <1>3, <1>4, <1>5 DEF Made

LEMMA CallsOfEntries == (\A e \in Entry : e.call \in Calls) /\ (\A e \in Row : e.call \in Calls)
  BY DEF Entry, Row

LEMMA MadeOfNothing == Made(<<>>) = <<>>
<1>1. <<>> \in Seq(Entry) /\ Len(<<>>) = 0
  BY EmptySeq
<1>2. Made(<<>>) \in Seq(Calls) /\ Len(Made(<<>>)) = 0
  BY <1>1, MadeType, CallsOfEntries
<1>3. QED
  BY <1>2, EmptySeq

\* An answer of the server, or of a row of it, is one a row may have.
LEMMA AnswerType ==
    ASSUME TypeInv, NEW c \in Calls, NEW answer \in Answers(c)
    PROVE  /\ [call |-> c, answer |-> answer] \in Row
           /\ c.module \in Modules /\ c.tool = "get_source_checksum"
                 => answer.text \in {0, text[c.module]}
           /\ c.tool \in SourceTools => c.module \in Modules /\ answer.text = text[c.module]
<1> DEFINE sums == {[NoAnswer EXCEPT !.text = t] :
                        t \in {0} \cup {text[m] : m \in Modules \cap {c.module}}}
           estimates == {[NoAnswer EXCEPT !.good = b] : b \in BOOLEAN}
           sources == UNION {SourceOf(m) : m \in Modules \cap {c.module}}
<1>0. Answers(c) = CASE c.tool \in {"resolve_symbol", "search_code"} -> Named
                     [] c.tool = "get_source_checksum" -> sums
                     [] c.tool = "estimate_tool_payload" -> estimates
                     [] c.tool \in SourceTools -> sources
                     [] OTHER -> {NoAnswer}
  BY DEF Answers
<1> HIDE DEF sums, estimates, sources
<1>1. NoAnswer \in AnswerSet /\ NoAnswer.text = 0
  BY DEF NoAnswer, AnswerSet
<1>2. c.module \in Modules \cup {NoModule} /\ c.tool \in Tools
  BY CallFields
<1>3. \A m \in Modules : text[m] \in Texts
  BY DEF TypeInv
<1>4. CASE c.tool \in {"resolve_symbol", "search_code"}
  <2>1. c.tool \notin SourceTools /\ c.tool # "get_source_checksum" /\ answer \in Named
    BY <1>0, <1>4 DEF SourceTools
  <2>2. answer \in AnswerSet
    BY <1>1, <2>1 DEF Named, AnswerSet
  <2>3. QED
    BY <2>1, <2>2 DEF Row, Sourced
<1>5. CASE c.tool = "get_source_checksum"
  <2>1. PICK t \in {0} \cup {text[m] : m \in Modules \cap {c.module}} :
            answer = [NoAnswer EXCEPT !.text = t]
    <3>1. answer \in sums
      BY <1>0, <1>5 DEF SourceTools
    <3>2. QED
      BY <3>1 DEF sums
  <2>2. /\ c.tool \notin SourceTools
        /\ t = 0 \/ (c.module \in Modules /\ t = text[c.module])
    BY <1>5 DEF SourceTools
  <2>3. answer \in AnswerSet /\ answer.text = t
    BY <1>1, <1>3, <2>1, <2>2 DEF AnswerSet
  <2>4. QED
    BY <2>2, <2>3, NoModuleOK DEF Row, Sourced
<1>6. CASE c.tool = "estimate_tool_payload"
  <2>1. PICK b \in BOOLEAN : answer = [NoAnswer EXCEPT !.good = b]
    <3>1. answer \in estimates
      BY <1>0, <1>6 DEF SourceTools
    <3>2. QED
      BY <3>1 DEF estimates
  <2>2. c.tool \notin SourceTools /\ c.tool # "get_source_checksum" /\ answer \in AnswerSet
    BY <1>1, <1>6, <2>1 DEF SourceTools, AnswerSet
  <2>3. QED
    BY <2>2 DEF Row, Sourced
<1>7. CASE c.tool \in SourceTools
  <2>1. answer \in sources
    BY <1>0, <1>7 DEF SourceTools
  <2>2. c.module \in Modules /\ answer \in SourceOf(c.module)
    BY <2>1 DEF sources
  <2>3. PICK b \in BOOLEAN : answer = [NoAnswer EXCEPT !.text = text[c.module], !.good = b]
    BY <2>2 DEF SourceOf
  <2>4. answer \in AnswerSet /\ answer.text = text[c.module]
    BY <1>1, <1>3, <2>2, <2>3 DEF AnswerSet
  <2>5. QED
    BY <2>2, <2>4, NoModuleOK DEF Row, Sourced
<1>8. CASE c.tool \notin SourceTools \cup {"resolve_symbol", "search_code",
                                           "get_source_checksum", "estimate_tool_payload"}
  <2>1. answer = NoAnswer
    BY <1>0, <1>8
  <2>2. QED
    BY <1>1, <1>8, <2>1 DEF Row, Sourced
<1>9. QED
  BY <1>4, <1>5, <1>6, <1>7, <1>8

\* An answer in hand is one for the head of the queue, which is still to be
\* taken while the task runs, and is right for a text seen since.
InHand(r) ==
    /\ RowSeen(r)
    /\ task.phase \in {"running", "failed"}
    /\ task.phase = "running" => Takes(r.call) /\ Cached(r.call) = {} /\ Rows(r.call) = {}

ReplyInv ==
    /\ reply = <<>> \/ \E r \in Row : reply = <<r>> /\ InHand(r)
    /\ asked \in Seq(Calls) /\ wasted \in Seq(Calls)

LEMMA ReplyCalls ==
    ASSUME ReplyInv
    PROVE  reply \in Seq(Row) /\ Made(reply) \in Seq(Calls)
<1>1. CASE reply = <<>>
  BY <1>1, EmptySeq, MadeOfNothing
<1>2. ASSUME NEW r \in Row, reply = <<r>> PROVE reply \in Seq(Row) /\ Made(reply) \in Seq(Calls)
  <2>1. <<r>> \in Seq(Row)
    OBVIOUS
  <2>2. QED
    BY <1>2, <2>1, MadeType, CallsOfEntries
<1>3. QED
  BY <1>1, <1>2 DEF ReplyInv

LEMMA TypesOfInv == TypeInv /\ ReplyInv => TypeOK
<1> SUFFICES ASSUME TypeInv, ReplyInv PROVE TypeOK
  OBVIOUS
<1>1. \A n \in Nat : run.known <= n /\ run.known \in Nat => run.known \in 0..n
  OBVIOUS
<1>2. stored \in Seq([call : Calls, answer : AnswerSet])
  <2>1. Row \subseteq [call : Calls, answer : AnswerSet]
    BY DEF Row
  <2>2. stored \in Seq(Row)
    BY DEF TypeInv
  <2>3. QED
    BY <2>1, <2>2, SeqMonotonic
<1>3. run.calls \in Seq([call : Calls, answer : AnswerSet, via : {"server", "reused", "cache"}])
  <2>1. Entry \subseteq [call : Calls, answer : AnswerSet, via : {"server", "reused", "cache"}]
    BY DEF Entry, Vias
  <2>2. QED
    BY <2>1, RunFields, SeqMonotonic
<1>4. Len(stored) \in Nat
  BY LenProperties DEF TypeInv
<1>5. cache.items \in Seq([module : Modules, checksum : Texts, answer : AnswerSet])
  BY CacheFields DEF Item
<1>6. reply \in Seq([call : Calls, answer : AnswerSet]) /\ Len(reply) <= 1
  <2>1. \A r \in Row : r \in [call : Calls, answer : AnswerSet]
    BY DEF Row
  <2>2. ASSUME NEW r \in Row, reply = <<r>> PROVE reply \in Seq(Row) /\ Len(reply) <= 1
    BY <2>2
  <2>3. CASE reply = <<>>
    BY <2>3, EmptySeq
  <2>4. reply \in Seq(Row) /\ Len(reply) <= 1
    BY <2>2, <2>3, EmptySeq DEF ReplyInv
  <2>5. QED
    BY <2>1, <2>4, SeqMonotonic
<1>7. QED
  BY <1>1, <1>2, <1>3, <1>4, <1>5, <1>6, TaskFields, RunFields
  DEF TypeInv, TypeOK, ReplyInv, Phases

LEMMA ServerTypes ==
    ASSUME ReplyInv, UNCHANGED <<asked, wasted>>
    PROVE  asked' \in Seq(Calls) /\ wasted' \in Seq(Calls)
  BY DEF ReplyInv

\* An answer in hand stays what it is while nothing is taken.
LEMMA HandStays ==
    ASSUME NEW r, InHand(r), Grow, UNCHANGED <<run, cache, stored>>,
           task'.phase = task.phase \/ (task.phase = "running" /\ task'.phase = "failed"),
           task'.request = task.request
    PROVE  InHand(r)'
<1>1. RowSeen(r)'
  BY SeenStays DEF InHand
<1>2. task'.phase \in {"running", "failed"}
  BY DEF InHand
<1>3. ASSUME task'.phase = "running"
      PROVE  Takes(r.call)' /\ Cached(r.call)' = {} /\ Rows(r.call)' = {}
  <2>1. task.phase = "running"
    BY <1>3
  <2>2. Takes(r.call) /\ Cached(r.call) = {} /\ Rows(r.call) = {}
    BY <2>1 DEF InHand
  <2>3. Takes(r.call)'
    BY <1>3, <2>2 DEF Takes, Allowed, Reads
  <2>4. Cached(r.call)' = Cached(r.call) /\ Rows(r.call)' = Rows(r.call)
    BY DEF Cached, Checksum, Navigates, Rows
  <2>5. QED
    BY <2>2, <2>3, <2>4
<1>4. QED
  BY <1>1, <1>2, <1>3 DEF InHand

LEMMA ReplyStays ==
    ASSUME ReplyInv, Grow, UNCHANGED <<run, cache, stored, server>>,
           task'.phase = task.phase \/ (task.phase = "running" /\ task'.phase = "failed"),
           task'.request = task.request
    PROVE  ReplyInv'
<1>1. UNCHANGED <<reply, asked, wasted>>
  BY DEF server
<1>2. asked' \in Seq(Calls) /\ wasted' \in Seq(Calls)
  BY <1>1, ServerTypes
<1>3. ASSUME NEW r \in Row, reply = <<r>>, InHand(r) PROVE InHand(r)'
  BY <1>3, HandStays
<1>4. QED
  BY <1>1, <1>2, <1>3 DEF ReplyInv

LEMMA NothingInHand ==
    ASSUME reply' = <<>>, asked' \in Seq(Calls), wasted' \in Seq(Calls)
    PROVE  ReplyInv'
  BY DEF ReplyInv

\* No other step of the loop is taken with an answer in hand.
LEMMA HandIsEmpty ==
    ASSUME ReplyInv,
           (task.phase \notin {"running", "failed"}) \/ (task.phase = "running" /\ run.pending = <<>>)
    PROVE  reply = <<>>
  BY DEF ReplyInv, InHand, Takes

LEMMA AskedIsSeen ==
    ASSUME TypeInv, SourceInv, NEW c \in Calls, NEW answer \in Answers(c),
           task.phase = "running"
    PROVE  [call |-> c, answer |-> answer] \in Row /\ RowSeen([call |-> c, answer |-> answer])
<1>1. [call |-> c, answer |-> answer] \in Row
  BY AnswerType
<1>2. \A m \in Modules : text[m] \in seen[m]
  BY DEF SourceInv, TextsSeen
<1>3. c.tool = "get_source_checksum" /\ answer.text # 0 =>
          c.module \in Modules /\ answer.text = text[c.module]
  <2>1. c.tool = "get_source_checksum" /\ answer.text # 0 => c.module \in Modules
    BY <1>1, CallFields DEF Row, Sourced
  <2>2. QED
    BY <2>1, AnswerType
<1>4. c.tool \in SourceTools => c.module \in Modules /\ answer.text = text[c.module]
  BY AnswerType
<1>5. QED
  BY <1>1, <1>2, <1>3, <1>4 DEF RowSeen, SumSeen

LEMMA AskReplies ==
    ASSUME TypeInv, SourceInv, ReplyInv, NEW c, Ask(c)
    PROVE  /\ \E r \in Row : r.call = c /\ reply' = <<r>>
           /\ reply = <<>> /\ Takes(c) /\ Rows(c) = {} /\ c \in Calls
           /\ asked' = Append(asked, c) /\ wasted' = wasted
           /\ UNCHANGED loop /\ ReplyInv'
<1>1. /\ reply = <<>> /\ Takes(c) /\ Cached(c) = {} /\ Rows(c) = {}
      /\ asked' = Append(asked, c) /\ wasted' = wasted /\ UNCHANGED loop
  BY DEF Ask, loop
<1>2. c \in Calls
  BY <1>1, HeadIsCall
<1>3. PICK answer \in Answers(c) : reply' = <<[call |-> c, answer |-> answer]>>
  BY DEF Ask
<1>4. PICK r \in Row : r = [call |-> c, answer |-> answer] /\ RowSeen(r) /\ r.call = c
  BY <1>1, <1>2, AskedIsSeen DEF Takes
<1>5. asked' \in Seq(Calls) /\ wasted' \in Seq(Calls)
  BY <1>1, <1>2, AppendProperties DEF ReplyInv
<1>6. InHand(r)
  BY <1>1, <1>4 DEF InHand, Takes
<1>7. InHand(r)'
  <2>1. Grow /\ UNCHANGED <<run, cache, stored, task>>
    BY <1>1 DEF Grow, loop
  <2>2. QED
    BY <1>6, <2>1, HandStays
<1>8. ReplyInv'
  BY <1>3, <1>4, <1>5, <1>7 DEF ReplyInv
<1>9. QED
  BY <1>1, <1>2, <1>3, <1>4, <1>8

\* The row of an answer is one the loop may record.
LEMMA RecordIsRound ==
    ASSUME TypeInv, ReplyInv, Record
    PROVE  /\ \E r \in Row : reply = <<r>> /\ Recorded(r.call)
                             /\ stored' = Append(stored, r) /\ r.call \in ToSet(run.pending)
           /\ reply' = <<>> /\ UNCHANGED <<asked, wasted>> /\ ReplyInv'
<1>1. task.phase = "running" /\ reply # <<>> /\ reply' = <<>>
      /\ UNCHANGED <<text, seen, published, faults>> /\ UNCHANGED <<asked, wasted>>
  BY DEF Record
<1>2. PICK r \in Row : reply = <<r>> /\ InHand(r)
  BY <1>1 DEF ReplyInv
<1>3. Head(reply) = r
  BY <1>2
<1>4. PICK c \in Calls, answer \in AnswerSet : c = r.call /\ answer = r.answer
                                               /\ r = [call |-> c, answer |-> answer]
  BY DEF Row
<1>5. /\ Answered(c, answer, "server")
      /\ stored' = Append(stored, [call |-> c, answer |-> answer])
      /\ cache' = IF Kept(c) THEN Put(c.module, Checksum(c.module), answer) ELSE cache
      /\ mixed' = IF Kept(c) /\ Checksum(c.module) # answer.text
                  THEN mixed \cup {c.module} ELSE mixed
  BY <1>3, <1>4 DEF Record
<1>6. Takes(c) /\ Cached(c) = {} /\ Rows(c) = {} /\ answer \in Given(c)
  BY <1>1, <1>2, <1>4 DEF InHand, Given
<1>7. Recorded(c)
  BY <1>1, <1>5, <1>6 DEF Recorded
<1>8. c \in ToSet(run.pending)
  BY <1>6, RunFields, HeadAndRest DEF Takes, ToSet
<1>9. ReplyInv'
  BY <1>1, ServerTypes, NothingInHand
<1>10. QED
  BY <1>1, <1>2, <1>4, <1>5, <1>7, <1>8, <1>9

LEMMA NextIsRound == TypeInv /\ ReplyInv /\ [Next]_vars => [Round]_loop
<1> SUFFICES ASSUME TypeInv, ReplyInv, [Next]_vars PROVE [Round]_loop
  OBVIOUS
<1>1. ASSUME NEW c \in ToSet(run.pending), Ask(c) PROVE UNCHANGED loop
  BY <1>1 DEF Ask, loop
<1>2. ASSUME Record PROVE \E c \in ToSet(run.pending) : Recorded(c)
  BY <1>2, RecordIsRound
<1>3. UNCHANGED vars => UNCHANGED loop
  BY DEF vars, loop
<1>4. QED
  BY <1>1, <1>2, <1>3 DEF Next, Round

LEMMA NextReplies == TypeInv /\ SourceInv /\ ReplyInv /\ [Next]_vars => ReplyInv'
<1> SUFFICES ASSUME TypeInv, SourceInv, ReplyInv, [Next]_vars PROVE ReplyInv'
  OBVIOUS
<1>1. ASSUME NEW m \in Edited, ModuleChanges(m) PROVE ReplyInv'
  <2>1. PICK t \in Texts : seen' = [seen EXCEPT ![m] = @ \cup {t}]
    BY <1>1, ChangeTypes
  <2>2. UNCHANGED <<published, task, stored, run, cache, mixed, faults>> /\ UNCHANGED server
    BY <1>1 DEF ModuleChanges
  <2>3. Grow
    BY <2>1, <2>2 DEF Grow, TypeInv
  <2>4. QED
    BY <2>2, <2>3, ReplyStays
<1>2. ASSUME PolicyChanges \/ UNCHANGED vars PROVE ReplyInv'
  <2>1. UNCHANGED <<seen, task, stored, run, cache, mixed, server>>
    BY <1>2 DEF PolicyChanges, vars
  <2>2. QED
    BY <2>1, ReplyStays DEF Grow
<1>3. ASSUME NEW request \in Requests, CreateTask(request) PROVE ReplyInv'
  BY <1>3, NothingInHand, EmptySeq DEF CreateTask
<1>4. ASSUME StartRun \/ Analyze PROVE ReplyInv'
  <2>1. reply = <<>> /\ UNCHANGED <<reply, asked, wasted>>
    BY <1>4, HandIsEmpty DEF StartRun, Analyze, server
  <2>2. QED
    BY <2>1, ServerTypes, NothingInHand
<1>5. ASSUME NEW c, HitCache(c) \/ Reuse(c) PROVE ReplyInv'
  <2>1. reply = <<>> /\ UNCHANGED <<reply, asked, wasted>>
    BY <1>5 DEF HitCache, Reuse, server
  <2>2. QED
    BY <2>1, ServerTypes, NothingInHand
<1>6. ASSUME NEW c, Ask(c) PROVE ReplyInv'
  BY <1>6, AskReplies
<1>7. ASSUME Record PROVE ReplyInv'
  BY <1>7, RecordIsRound
<1>8. ASSUME Stop PROVE ReplyInv'
  <2>1. /\ UNCHANGED <<seen, stored, run, cache, mixed, server>>
        /\ task.phase = "running" /\ task'.phase = "failed" /\ task'.request = task.request
    BY <1>8, StopTypes, PhaseChange DEF Stop, Phases, Ended
  <2>2. QED
    BY <2>1, ReplyStays DEF Grow
<1>9. ASSUME Lose PROVE ReplyInv'
  <2>1. reply' = <<>> /\ asked' = asked /\ wasted' = wasted \o Made(reply)
    BY <1>9 DEF Lose
  <2>2. asked' \in Seq(Calls) /\ wasted' \in Seq(Calls)
    <3>1. wasted \in Seq(Calls) /\ asked \in Seq(Calls)
      BY DEF ReplyInv
    <3>2. QED
      BY <2>1, <3>1, ReplyCalls, ConcatProperties
  <2>3. QED
    BY <2>1, <2>2, NothingInHand
<1>10. QED
  BY <1>1, <1>2, <1>3, <1>4, <1>5, <1>6, <1>7, <1>8, <1>9 DEF Next

LoopInv == TypeInv /\ SourceInv /\ ReplyInv

\* In every run of every task, what the loop does to its rows, its queue and
\* its cache between an answer and its row it could as well do in one step.
THEOREM RetrievalRounds == Spec => []LoopInv /\ [][Round]_loop
<1>1. Init => LoopInv
  <2>1. Init => ReplyInv
    BY EmptySeq DEF Init, ReplyInv
  <2>2. QED
    BY <2>1, InitTypes, InitSeen DEF LoopInv
<1>2. LoopInv /\ [Next]_vars => LoopInv' /\ [Round]_loop
  BY NextIsRound, NextReplies, NextTypes, NextSeen DEF LoopInv
<1>3. QED
  BY <1>1, <1>2, PTL DEF Spec

\* Every state of a retrieval has its types, its plan is the one that was made
\* for its request, and its cache is within bounds.
THEOREM RetrievalTypes == Spec => []TypeInv
<1>1. LoopInv => TypeInv
  BY DEF LoopInv
<1>2. QED
  BY <1>1, RetrievalRounds, PTL

\* Rows, calls, queue, cache entries and the answer in hand are of their types
\* in all runs of all tasks.
THEOREM RetrievalTypesAreCorrect == Spec => []TypeOK
<1>1. LoopInv => TypeOK
  BY TypesOfInv DEF LoopInv
<1>2. QED
  BY <1>1, RetrievalRounds, PTL

\* Whatever is inserted, found again and evicted, the byte count of the source
\* cache is that of its entries, both limits hold and no key is there twice.
THEOREM CacheStaysBounded == Spec => []CacheIsBounded
<1>1. TypeInv => CacheIsBounded
  BY DEF TypeInv
<1>2. QED
  BY <1>1, RetrievalTypes, PTL

\* Whatever text is stored, held by a run or cached, its module had since the
\* task was created, or under the checksum it is cached with, or it is in mixed.
THEOREM RetrievalSources == Spec => []SourceInv
<1>1. LoopInv => SourceInv
  BY DEF LoopInv
<1>2. QED
  BY <1>1, RetrievalRounds, PTL

\* Whatever was cached for other tasks, kept from a lost run or answered by the
\* server, a source a run holds is a text its module had since the task was
\* created, but for modules that changed between their checksum and their read.
THEOREM SourcesAreCurrent == Spec => []SourceIsCurrent
  BY RetrievalTypes, RetrievalSources, SeenIsCurrent, PTL

-----------------------------------------------------------------------------
\* The limit on calls.

LEMMA TurnKeepsLimit ==
    ASSUME TypeInv, CallsWithinLimit, NEW c, NEW answer, NEW via, NEW steps \in Seq(Calls),
           Answer(c, answer, via) \in Entry, Taken(c, answer, via, steps)
    PROVE  CallsWithinLimit'
<1> DEFINE rest == Tail(run.pending)
<1>1. /\ run'.calls = Append(run.calls, Answer(c, answer, via))
      /\ run'.pending = steps \o rest /\ rest \in Seq(Calls)
      /\ Len(run.pending) = Len(rest) + 1
      /\ task.phase = "running"
  BY TakenFields
<1>2. Len(run.calls) \in Nat /\ Len(run'.calls) = Len(run.calls) + 1 /\ Len(rest) \in Nat
  BY <1>1, RunFields, AppendProperties, LenProperties
<1>3. Len(run'.pending) \in Nat /\ run'.pending = IF steps = <<>> THEN rest ELSE steps \o rest
  <2>1. steps \o rest \in Seq(Calls)
    BY <1>1, ConcatProperties
  <2>2. QED
    BY <1>1, <2>1, LenProperties, ConcatEmptySeq
<1>4. MaxCalls \in Nat
  BY Limits
<1> HIDE DEF rest
<1>10. CASE task' = [task EXCEPT !.phase = "failed"]
  BY <1>10, PhaseChange DEF CallsWithinLimit, Phases, Ended
<1>5. PICK made \in Nat, left \in Nat : made = Len(run'.calls) /\ left = Len(run'.pending)
  BY <1>2, <1>3
<1>6. made + left <= MaxCalls => CallsWithinLimit'
  BY <1>5 DEF CallsWithinLimit
<1>7. ASSUME steps = <<>> PROVE made + left = Len(run.calls) + Len(run.pending)
  <2>1. left = Len(rest)
    BY <1>3, <1>5, <1>7
  <2>2. PICK x \in Nat, y \in Nat : x = Len(run.calls) /\ y = Len(rest)
    BY <1>2
  <2>3. PICK z : z = Len(run.pending)
    OBVIOUS
  <2>4. made = x + 1 /\ left = y /\ z = y + 1
    BY <1>1, <1>2, <1>5, <2>1, <2>2, <2>3
  <2>5. made + left = x + z
    BY ONLY <2>4
  <2>6. QED
    BY <2>2, <2>3, <2>5
<1>8. Len(run.calls) + Len(run.pending) <= MaxCalls
  BY <1>1 DEF CallsWithinLimit
<1>9. ~OverLimit(run'.calls, run'.pending) => ~(made + left > MaxCalls)
  BY <1>5 DEF OverLimit
<1>11. CASE steps = <<>>
  BY <1>6, <1>7, <1>8, <1>11
<1>12. CASE ~OverLimit(run'.calls, run'.pending)
  <2>1. ~(made + left > MaxCalls)
    BY <1>9, <1>12
  <2>2. made + left <= MaxCalls
    BY <1>4, <2>1
  <2>3. QED
    BY <1>6, <2>2
<1>13. QED
  BY <1>10, <1>11, <1>12 DEF Taken

LEMMA NextKeepsLimit == TypeInv /\ CallsWithinLimit /\ [Round]_loop => CallsWithinLimit'
<1> SUFFICES ASSUME TypeInv, CallsWithinLimit, [Round]_loop PROVE CallsWithinLimit'
  OBVIOUS
<1>1. ASSUME NEW c \in ToSet(run.pending), HitCache(c) \/ Reuse(c) \/ Recorded(c)
      PROVE  CallsWithinLimit'
  BY <1>1, Turn, TurnKeepsLimit
<1>2. ASSUME StartRun PROVE CallsWithinLimit'
  <2>1. CASE task' = [task EXCEPT !.phase = "failed"]
    BY <2>1, PhaseChange DEF CallsWithinLimit, Phases, Ended
  <2>2. CASE Len(task.plan) <= MaxCalls /\ run'.pending = task.plan /\ run'.calls = <<>>
    <3>1. Len(task.plan) \in Nat /\ Len(<<>>) = 0
      BY TaskFields, LenProperties
    <3>2. QED
      BY <2>2, <3>1 DEF CallsWithinLimit
  <2>3. QED
    BY <1>2, <2>1, <2>2, StartTypes
<1>3. ASSUME NEW request \in Requests, CreateTask(request) PROVE CallsWithinLimit'
  BY <1>3, CreateTypes DEF CallsWithinLimit
<1>4. ASSUME Stop \/ Lose PROVE CallsWithinLimit'
  BY <1>4, StopTypes, LoseTypes, PhaseChange DEF CallsWithinLimit, Phases, Ended
<1>5. ASSUME Analyze PROVE CallsWithinLimit'
  BY <1>5, AnalyzeTypes DEF CallsWithinLimit
<1>6. ASSUME UNCHANGED <<task, run>> PROVE CallsWithinLimit'
  BY <1>6 DEF CallsWithinLimit
<1>7. QED
  BY <1>1, <1>2, <1>3, <1>4, <1>5, <1>6, ChangeTypes, PolicyTypes DEF Round, loop

\* However navigation extends the queue, a run never has more calls made and
\* to make than the policy allows a task.
THEOREM RetrievalStaysWithinLimit == Spec => []CallsWithinLimit
<1>1. Init => CallsWithinLimit
  BY DEF Init, NoTask, CallsWithinLimit
<1>2. QED
  BY <1>1, NextKeepsLimit, RetrievalRounds, RetrievalTypes, PTL DEF Spec

-----------------------------------------------------------------------------
\* What a report is left to say.

NothingKept == task.phase # "answered" => task.kept = {}

EvidenceInv == NothingKept /\ EvidenceIsInSource

\* A line that is confirmed is one of the text that was read.
LEMMA ConfirmedIsRead ==
    ASSUME TypeInv, SourceInv, NEW claim, Confirmed(claim), claim.module \in Documents
    PROVE  claim.module \in mixed \/ \E t \in seen[claim.module] : claim.line <= t
<1> DEFINE m == claim.module
           reads == {i \in Reads : run.calls[i].call.module = m /\ run.calls[i].answer.good}
<1>1. claim.line <= Document(m)
  BY DEF Confirmed
<1>2. Document(m) = run.calls[Max(reads)].answer.text
  BY DEF Document
<1>3. Max(reads) \in reads
  <2>1. Len(run.calls) \in Nat /\ DOMAIN run.calls = 1..Len(run.calls)
    BY RunFields, LenProperties
  <2>2. reads \in SUBSET (1..Len(run.calls)) /\ reads # {}
    BY <2>1 DEF Documents, Reads
  <2> HIDE DEF reads
  <2>3. QED
    BY <2>1, <2>2, MaxOfIndices
<1>4. /\ AnswerSeen(run.calls[Max(reads)])
      /\ run.calls[Max(reads)].call.tool \in SourceTools
      /\ run.calls[Max(reads)].call.module = m
  BY <1>3 DEF Reads, SourceInv, AnswersSeen
<1>5. Document(m) \in seen[m] \/ m \in mixed
  BY <1>2, <1>4 DEF AnswerSeen
<1>6. QED
  BY <1>1, <1>5

\* Nothing changes what was kept for a task that is answered but a new task.
LEMMA EvidenceStays ==
    ASSUME TypeInv, EvidenceInv, UNCHANGED <<task, run, mixed>>,
           \A m \in Modules : seen[m] \subseteq seen'[m]
    PROVE  EvidenceInv'
<1>1. Documents' = Documents
  BY DEF Documents, Reads
<1>2. ASSUME NEW claim \in task.kept, claim.module \in Documents
      PROVE  claim.module \in mixed \/ \E t \in seen'[claim.module] : claim.line <= t
  <2>1. claim.module \in mixed \/ \E t \in seen[claim.module] : claim.line <= t
    BY <1>2 DEF EvidenceInv, EvidenceIsInSource
  <2>2. claim.module \in Modules \cup {NoModule}
    BY TaskFields DEF Claims
  <2>3. claim.module \in Modules
    <3>1. PICK i \in Reads : run.calls[i].call.module = claim.module
      BY <1>2 DEF Documents
    <3>2. run.calls[i] \in Entry /\ run.calls[i].call.tool \in SourceTools
      BY RunFields, LenProperties, ElementOfSeq DEF Reads
    <3>3. QED
      BY <2>2, <3>1, <3>2 DEF Entry, Sourced
  <2>4. QED
    BY <2>1, <2>3
<1>3. EvidenceIsInSource'
  BY <1>1, <1>2 DEF EvidenceIsInSource
<1>4. QED
  BY <1>3 DEF EvidenceInv, NothingKept

LEMMA NextEvidence == TypeInv /\ SourceInv /\ EvidenceInv /\ [Round]_loop => EvidenceInv'
<1> SUFFICES ASSUME TypeInv, SourceInv, EvidenceInv, [Round]_loop PROVE EvidenceInv'
  OBVIOUS
<1>1. ASSUME task'.kept = {} PROVE EvidenceInv'
  BY <1>1 DEF EvidenceInv, NothingKept, EvidenceIsInSource
<1>2. ASSUME NEW m \in Edited, ModuleChanges(m) PROVE EvidenceInv'
  <2>1. UNCHANGED <<task, run, mixed>>
    BY <1>2, ChangeTypes
  <2>2. \A n \in Modules : seen[n] \subseteq seen'[n]
    BY <1>2, ChangeTypes DEF TypeInv
  <2>3. QED
    BY <2>1, <2>2, EvidenceStays
<1>3. ASSUME PolicyChanges \/ UNCHANGED loop PROVE EvidenceInv'
  BY <1>3, PolicyTypes, EvidenceStays DEF loop
<1>4. ASSUME NEW request \in Requests, CreateTask(request) PROVE EvidenceInv'
  BY <1>1, <1>4, CreateTypes
<1>5. ASSUME StartRun PROVE EvidenceInv'
  <2>1. task.kept = {} /\ task'.kept = task.kept
    BY <1>5, StartTypes, PhaseChange DEF EvidenceInv, NothingKept, Phases, Ended
  <2>2. QED
    BY <1>1, <2>1
<1>6. ASSUME NEW c \in ToSet(run.pending), HitCache(c) \/ Reuse(c) \/ Recorded(c) PROVE EvidenceInv'
  <2>1. task'.kept = task.kept /\ task.phase = "running"
    BY <1>6, Turn, TakenFields
  <2>2. QED
    BY <1>1, <2>1 DEF EvidenceInv, NothingKept
<1>7. ASSUME Stop \/ Lose PROVE EvidenceInv'
  <2>1. task.kept = {} /\ task'.kept = task.kept
    BY <1>7, StopTypes, LoseTypes, PhaseChange DEF EvidenceInv, NothingKept, Phases, Ended
  <2>2. QED
    BY <1>1, <2>1
<1>8. ASSUME Analyze PROVE EvidenceInv'
  <2>1. CASE task'.kept = task.kept
    BY <1>1, <1>8, <2>1, AnalyzeTypes DEF EvidenceInv, NothingKept
  <2>2. CASE task'.phase = "answered" /\ \A claim \in task'.kept : Confirmed(claim)
    <3>1. UNCHANGED <<seen, run, mixed>> /\ Documents' = Documents
      BY <1>8, AnalyzeTypes DEF Documents, Reads
    <3>2. \A claim \in task'.kept : claim.module \in Documents =>
              claim.module \in mixed \/ \E t \in seen[claim.module] : claim.line <= t
      BY <2>2, ConfirmedIsRead
    <3>3. EvidenceIsInSource'
      BY <3>1, <3>2 DEF EvidenceIsInSource
    <3>4. QED
      BY <2>2, <3>3 DEF EvidenceInv, NothingKept
  <2>3. QED
    BY <1>8, <2>1, <2>2, AnalyzeTypes
<1>9. QED
  BY <1>2, <1>3, <1>4, <1>5, <1>6, <1>7, <1>8 DEF Round

\* A line of a module the run read in full that is left in a report is a line of
\* a text that module had since the task was created, with the same allowance.
THEOREM EvidenceStaysInSource == Spec => []EvidenceIsInSource
<1>1. Init => EvidenceInv
  BY DEF Init, NoTask, EvidenceInv, NothingKept, EvidenceIsInSource
<1>2. EvidenceInv => EvidenceIsInSource
  BY DEF EvidenceInv
<1>3. QED
  BY <1>1, <1>2, NextEvidence, RetrievalRounds, RetrievalTypes, RetrievalSources, PTL DEF Spec

-----------------------------------------------------------------------------
\* The line of calls: those a run has made, then those it has still to make.

Line == Made(run.calls) \o run.pending

LEMMA MadeOfAppend ==
    ASSUME NEW A, \A e \in A : e.call \in Calls, NEW s \in Seq(A), NEW x \in A
    PROVE  Made(Append(s, x)) = Append(Made(s), x.call)
<1> DEFINE t == Append(s, x)
           n == Len(s)
<1>1. /\ t \in Seq(A) /\ n \in Nat /\ Len(t) = n + 1 /\ t[n + 1] = x
      /\ \A i \in 1..n : t[i] = s[i]
  BY AppendProperties, LenProperties
<1>2. PICK made \in Seq(Calls) : /\ made = Made(s) /\ Len(made) = n
                                 /\ \A i \in 1..n : made[i] = s[i].call
  BY MadeType
<1>3. PICK u \in Seq(Calls) : /\ u = Append(made, x.call) /\ Len(u) = n + 1
                              /\ u[n + 1] = x.call /\ \A i \in 1..n : u[i] = made[i]
  <2>1. PICK y \in Calls : y = x.call
    OBVIOUS
  <2>2. /\ Append(made, y) \in Seq(Calls) /\ Len(Append(made, y)) = n + 1
        /\ Append(made, y)[n + 1] = y /\ \A i \in 1..n : Append(made, y)[i] = made[i]
    BY <1>2, AppendProperties
  <2>3. QED
    BY <2>1, <2>2
<1> HIDE DEF t
<1>4. PICK v \in Seq(Calls) : /\ v = Made(t) /\ Len(v) = n + 1
                              /\ \A i \in 1..(n + 1) : v[i] = t[i].call
  BY <1>1, MadeType
<1>5. ASSUME NEW i \in 1..(n + 1) PROVE v[i] = u[i]
  <2>1. CASE i \in 1..n
    BY <1>1, <1>2, <1>3, <1>4, <2>1
  <2>2. CASE i = n + 1
    BY <1>1, <1>3, <1>4, <2>2
  <2>3. QED
    BY <1>1, <2>1, <2>2
<1>6. v = u
  BY <1>3, <1>4, <1>5, SeqEqual
<1>7. QED
  BY <1>2, <1>3, <1>4, <1>6 DEF t

LEMMA NewIsNew ==
    ASSUME NEW steps \in Seq(Calls), NEW calls, NEW queue
    PROVE  /\ ToSet(New(steps, calls, queue)) \subseteq ToSet(steps)
           /\ ToSet(New(steps, calls, queue)) \cap ToSet(queue) = {}
           /\ ToSet(New(steps, calls, queue)) \cap ToSet(Made(calls)) = {}
<1> DEFINE S == {c \in ToSet(steps) : /\ c.tool \in run.tools \cap Allowed
                                      /\ c \notin ToSet(queue)
                                      /\ c \notin ToSet(Made(calls))}
<1>1. New(steps, calls, queue) = Within(steps, S)
  BY DEF New
<1>2. ToSet(Within(steps, S)) = ToSet(steps) \cap S
  <2> HIDE DEF S
  <2>1. QED
    BY WithinElements
<1>3. QED
  BY <1>1, <1>2

\* A turn moves a call over, and puts calls that are not in the line behind it.
Shifted(c, answer, steps, pre, rest) ==
    /\ Made(run'.calls) = pre /\ run'.pending = steps \o rest
    /\ pre = Append(Made(run.calls), c) /\ run.pending = <<c>> \o rest
    /\ Line = pre \o rest /\ Line' = pre \o (steps \o rest)
    /\ ToSet(steps) \cap (ToSet(pre) \cup ToSet(rest)) = {}
    /\ ToSet(steps) \subseteq ToSet(Navigation(c, answer))
    /\ steps = <<>> \/ steps = New(Navigation(c, answer), run'.calls, rest)
    /\ rest = Tail(run.pending)
    /\ c \in Calls /\ Made(run.calls) \in Seq(Calls)

LEMMA LineOfTurn ==
    ASSUME TypeInv, NEW c, NEW answer \in AnswerSet, NEW via, NEW steps \in Seq(Calls),
           Answer(c, answer, via) \in Entry, Taken(c, answer, via, steps)
    PROVE  \E pre \in Seq(Calls), rest \in Seq(Calls) : Shifted(c, answer, steps, pre, rest)
<1> DEFINE e == Answer(c, answer, via)
           made == Made(run.calls)
           pre == Append(made, c)
           rest == Tail(run.pending)
<1>1. /\ run'.calls = Append(run.calls, e) /\ run'.pending = steps \o rest
      /\ run.pending = <<c>> \o rest /\ rest \in Seq(Calls) /\ c \in Calls
      /\ run.calls \in Seq(Entry) /\ e \in Entry
  BY TakenFields, RunFields
<1>2. e.call = c
  BY DEF Answer
<1> HIDE DEF e, rest
<1>3. made \in Seq(Calls) /\ Made(run'.calls) = pre
  BY <1>1, <1>2, MadeType, MadeOfAppend, CallsOfEntries
<1> HIDE DEF made
<1>4. pre \in Seq(Calls) /\ pre = made \o <<c>> /\ <<c>> \in Seq(Calls)
  BY <1>1, <1>3, AppendProperties, AppendIsConcat
<1>5. made \o (<<c>> \o rest) = (made \o <<c>>) \o rest
  <2>1. PICK one \in Seq(Calls) : one = <<c>>
    BY <1>4
  <2>2. made \in Seq(Calls) /\ rest \in Seq(Calls)
    BY <1>1, <1>3
  <2>3. made \o (one \o rest) = (made \o one) \o rest
    BY <2>2, ConcatAssociative
  <2>4. QED
    BY <2>1, <2>3
<1>6. Line = pre \o rest
  <2>1. Line = made \o run.pending
    BY DEF Line, made
  <2>2. QED
    BY <1>1, <1>4, <1>5, <2>1
<1>7. Line' = pre \o (steps \o rest)
  BY <1>1, <1>3 DEF Line
<1>8. Navigation(c, answer) \in Seq(Calls)
  BY NavigationType
<1>9. /\ ToSet(steps) \cap (ToSet(pre) \cup ToSet(rest)) = {}
      /\ ToSet(steps) \subseteq ToSet(Navigation(c, answer))
      /\ steps = <<>> \/ steps = New(Navigation(c, answer), run'.calls, rest)
  <2>1. CASE steps = <<>>
    BY <2>1 DEF ToSet
  <2>2. CASE steps = New(Navigation(c, answer), run'.calls, rest)
    BY <1>3, <1>8, <2>2, NewIsNew
  <2>3. QED
    BY <2>1, <2>2 DEF Taken, rest
<1>10. QED
  <2>1. Shifted(c, answer, steps, pre, rest)
    BY <1>1, <1>3, <1>6, <1>7, <1>9 DEF made, rest, Shifted
  <2>2. QED
    BY <1>1, <1>4, <2>1



LEMMA LineOfStart ==
    ASSUME TypeInv, run'.pending = task.plan, run'.calls = <<>>
    PROVE  Line' = task.plan
<1>1. Line' = <<>> \o task.plan
  BY MadeOfNothing DEF Line
<1>2. QED
  BY <1>1, TaskFields, ConcatEmptySeq

LEMMA LineOfIdle == run' = Idle => Line' = <<>> /\ Made(run'.calls) = <<>>
<1> SUFFICES ASSUME run' = Idle PROVE Line' = <<>> /\ Made(run'.calls) = <<>>
  OBVIOUS
<1>1. run'.calls = <<>> /\ run'.pending = <<>>
  BY DEF Idle
<1>2. Made(run'.calls) = <<>>
  BY <1>1, MadeOfNothing
<1>3. <<>> \o <<>> = <<>>
  BY EmptySeq, ConcatEmptySeq
<1>4. QED
  BY <1>1, <1>2, <1>3 DEF Line

-----------------------------------------------------------------------------
\* The plan is followed.

\* What a run has made and has still to make is the plan, but for the calls
\* that navigation put in between.
OnPlan == task.phase = "running" => Within(Line, ToSet(task.plan)) = task.plan

PlanInv == OnPlan /\ PlanIsFollowed

LEMMA TurnKeepsPlan ==
    ASSUME TypeInv, PlanInv, NEW c, NEW answer \in AnswerSet, NEW via,
           NEW steps \in Seq(Calls),
           Answer(c, answer, via) \in Entry, Taken(c, answer, via, steps)
    PROVE  PlanInv'
<1>1. /\ task.phase = "running" /\ task'.phase \in {"running", "failed"}
      /\ task'.plan = task.plan
  BY TakenFields
<1> DEFINE plan == task.plan
           S == ToSet(plan)
<1>0. PICK pre \in Seq(Calls), rest \in Seq(Calls) : Shifted(c, answer, steps, pre, rest)
  BY LineOfTurn
<1>2. /\ Line = pre \o rest /\ Line' = pre \o (steps \o rest)
      /\ ToSet(steps) \cap (ToSet(pre) \cup ToSet(rest)) = {}
  BY <1>0 DEF Shifted
<1>3. plan \in Seq(Calls) /\ Within(pre \o rest, S) = plan
  BY <1>1, <1>2, TaskFields DEF PlanInv, OnPlan
<1> HIDE DEF plan
<1>4. S \subseteq ToSet(pre) \cup ToSet(rest)
  <2>1. pre \o rest \in Seq(Calls) /\ ToSet(pre \o rest) = ToSet(pre) \cup ToSet(rest)
    BY ConcatProperties, ToSetOfConcat
  <2> HIDE DEF S
  <2>2. ToSet(Within(pre \o rest, S)) = ToSet(pre \o rest) \cap S
    BY <2>1, WithinElements
  <2>3. QED
    BY <1>3, <2>1, <2>2 DEF S
<1> HIDE DEF S
<1>5. Within(steps, S) = <<>>
  BY <1>2, <1>4, WithinNone
<1>6. Within(pre \o (steps \o rest), S) = Within(pre \o rest, S)
  <2>1. steps \o rest \in Seq(Calls)
    BY ConcatProperties
  <2>2. Within(steps \o rest, S) = Within(steps, S) \o Within(rest, S)
    BY WithinConcat
  <2>3. Within(rest, S) \in Seq(Calls)
    BY WithinType
  <2>4. Within(steps \o rest, S) = Within(rest, S)
    BY <1>5, <2>2, <2>3, ConcatEmptySeq
  <2>5. Within(pre \o (steps \o rest), S) = Within(pre, S) \o Within(steps \o rest, S)
    <3>1. PICK t \in Seq(Calls) : t = steps \o rest
      BY <2>1
    <3>2. Within(pre \o t, S) = Within(pre, S) \o Within(t, S)
      BY WithinConcat
    <3>3. QED
      BY <3>1, <3>2
  <2>6. Within(pre \o rest, S) = Within(pre, S) \o Within(rest, S)
    BY WithinConcat
  <2>7. QED
    BY <2>4, <2>5, <2>6
<1>7. Within(Line', S) = plan
  BY <1>2, <1>3, <1>6
<1>8. OnPlan'
  BY <1>1, <1>7 DEF OnPlan, S, plan
<1>9. PlanIsFollowed'
  BY <1>1 DEF PlanIsFollowed
<1>10. QED
  BY <1>8, <1>9 DEF PlanInv

LEMMA NextKeepsPlan == TypeInv /\ PlanInv /\ [Round]_loop => PlanInv'
<1> SUFFICES ASSUME TypeInv, PlanInv, [Round]_loop PROVE PlanInv'
  OBVIOUS
<1>1. ASSUME NEW c \in ToSet(run.pending), HitCache(c) \/ Reuse(c) \/ Recorded(c) PROVE PlanInv'
  BY <1>1, Turn, TurnKeepsPlan
<1>2. ASSUME task'.phase \in {"waiting", "failed"} PROVE PlanInv'
  BY <1>2 DEF PlanInv, OnPlan, PlanIsFollowed
<1>3. ASSUME UNCHANGED <<task, run>> PROVE PlanInv'
  BY <1>3 DEF PlanInv, OnPlan, PlanIsFollowed, Line
<1>4. ASSUME StartRun PROVE PlanInv'
  <2>1. CASE task' = [task EXCEPT !.phase = "failed"]
    BY <1>2, <2>1, PhaseChange DEF Phases, Ended
  <2>2. CASE /\ task' = [task EXCEPT !.phase = "running"]
             /\ run'.pending = task.plan /\ run'.calls = <<>>
    <3>1. Line' = task.plan
      BY <2>2, LineOfStart
    <3>2. task'.phase = "running" /\ task'.plan = task.plan /\ task.plan \in Seq(Calls)
      BY <2>2, PhaseChange, TaskFields DEF Phases
    <3>3. Within(task.plan, ToSet(task.plan)) = task.plan
      BY <3>2, WithinAll
    <3>4. QED
      BY <3>1, <3>2, <3>3 DEF PlanInv, OnPlan, PlanIsFollowed
  <2>3. QED
    BY <1>4, <2>1, <2>2, StartTypes
<1>5. ASSUME Stop \/ Lose PROVE PlanInv'
  BY <1>2, <1>5, StopTypes, LoseTypes, PhaseChange DEF Phases, Ended
<1>6. ASSUME Analyze PROVE PlanInv'
  <2>1. /\ task.phase = "running" /\ run.pending = <<>> /\ run' = run
        /\ task'.plan = task.plan /\ task'.phase # "running"
    BY <1>6, AnalyzeTypes
  <2>2. Line = Made(run.calls)
    BY <2>1, RunFields, MadeType, CallsOfEntries, ConcatEmptySeq DEF Line
  <2>3. QED
    BY <2>1, <2>2 DEF PlanInv, OnPlan, PlanIsFollowed
<1>7. QED
  BY <1>1, <1>2, <1>3, <1>4, <1>5, <1>6, ChangeTypes, PolicyTypes, CreateTypes DEF Round, loop

\* What a run has made and has still to make keeps to the plan of the task.
THEOREM RetrievalPlans == Spec => []PlanInv
<1>1. Init => PlanInv
  BY DEF Init, NoTask, PlanInv, OnPlan, PlanIsFollowed
<1>2. QED
  BY <1>1, NextKeepsPlan, RetrievalRounds, RetrievalTypes, PTL DEF Spec

\* A retrieval that ends well has made the calls of the plan, each as often as
\* the plan has it and in the order of the plan, whatever was found meanwhile.
THEOREM PlansAreFollowed == Spec => []PlanIsFollowed
<1>1. PlanInv => PlanIsFollowed
  BY DEF PlanInv
<1>2. QED
  BY <1>1, RetrievalPlans, PTL

-----------------------------------------------------------------------------
\* The source of a known object is read.

LEMMA PlanReadsObject ==
    ASSUME NEW r \in Request, NEW tools, r.agent \in SourceAware, KnownObject(r),
           ~ByChain(r, tools), SourceTool(r, tools) \in tools
    PROVE  \E c \in ToSet(Normalized(r, tools)) : c.tool \in SourceTools
<1> DEFINE tool == SourceTool(r, tools)
           searched == SearchPlan(r, tools)
           read == Call(tool, r.object)
<1>1. Normalized(r, tools) = IF ~Uses(searched, tool) THEN <<read>> \o searched ELSE searched
  BY DEF Normalized, WithSource
<1>2. tool \in SourceTools /\ read.tool = tool
  BY SourceToolType DEF Call
<1>3. searched \in Seq(Calls) /\ <<read>> \in Seq(Calls)
  BY SearchPlanType, OneCall, SourceToolType DEF Request
<1>4. CASE ~Uses(searched, tool)
  <2>1. ToSet(<<read>> \o searched) = ToSet(<<read>>) \cup ToSet(searched)
    BY <1>3, ToSetOfConcat
  <2>2. read \in ToSet(<<read>>)
    BY ToSetOfOne
  <2>3. QED
    BY <1>1, <1>2, <1>4, <2>1, <2>2
<1>5. CASE Uses(searched, tool)
  <2>1. PICK i \in DOMAIN searched : searched[i].tool = tool
    BY <1>5 DEF Uses
  <2>2. searched[i] \in ToSet(searched)
    BY <2>1 DEF ToSet
  <2>3. QED
    BY <1>1, <1>2, <1>5, <2>1, <2>2
<1>6. QED
  BY <1>4, <1>5

\* A run at its end has made every call of the plan.
LEMMA PlanIsMade ==
    ASSUME TypeInv, PlanInv, task.phase = "running", run.pending = <<>>,
           NEW c \in ToSet(task.plan)
    PROVE  \E i \in DOMAIN run.calls : run.calls[i].call = c
<1> DEFINE made == Made(run.calls)
           plan == task.plan
<1>1. made \in Seq(Calls) /\ Line = made
  BY RunFields, MadeType, CallsOfEntries, ConcatEmptySeq DEF Line
<1>2. Within(made, ToSet(plan)) = plan
  BY <1>1 DEF PlanInv, OnPlan
<1>3. ToSet(Within(made, ToSet(plan))) = ToSet(made) \cap ToSet(plan)
  <2> HIDE DEF made, plan
  <2>1. QED
    BY <1>1, WithinElements
<1>4. c \in ToSet(made)
  BY <1>2, <1>3
<1>5. PICK i \in DOMAIN made : made[i] = c
  BY <1>4 DEF ToSet
<1>6. QED
  BY <1>5 DEF Made

LEMMA AnswerHasRead ==
    ASSUME TypeInv, PlanInv, task.phase = "running", run.pending = <<>>, ~Insufficient,
           task.request.agent \in SourceAware, KnownObject(task.request),
           SourceTool(task.request, task.tools) \in task.tools
    PROVE  Reads # {}
<1>1. CASE Navigates \/ task.request.agent = "audit"
  BY <1>1 DEF Insufficient, Documents
<1>2. CASE ~Navigates /\ task.request.agent # "audit"
  <2>1. ~ByChain(task.request, task.tools)
    BY <1>2 DEF ByChain, Navigates
  <2>2. task.plan = Normalized(task.request, task.tools)
    BY DEF TypeInv
  <2>3. PICK c \in ToSet(task.plan) : c.tool \in SourceTools
    BY <2>1, <2>2, TaskFields, PlanReadsObject
  <2>4. PICK i \in DOMAIN run.calls : run.calls[i].call = c
    BY PlanIsMade
  <2>5. QED
    BY <2>3, <2>4 DEF Reads
<1>3. QED
  BY <1>1, <1>2

LEMMA NextReadsObject == TypeInv /\ PlanInv /\ ObjectIsRead /\ [Round]_loop => ObjectIsRead'
<1> SUFFICES ASSUME TypeInv, PlanInv, ObjectIsRead, [Round]_loop PROVE ObjectIsRead'
  OBVIOUS
<1>1. ASSUME task'.phase # "answered" PROVE ObjectIsRead'
  BY <1>1 DEF ObjectIsRead
<1>2. ASSUME UNCHANGED <<task, run>> PROVE ObjectIsRead'
  BY <1>2 DEF ObjectIsRead, Reads
<1>3. ASSUME NEW request \in Requests, CreateTask(request) PROVE ObjectIsRead'
  BY <1>1, <1>3, CreateTypes
<1>4. ASSUME StartRun PROVE ObjectIsRead'
  BY <1>1, <1>4, StartTypes, PhaseChange DEF Phases, Ended
<1>5. ASSUME NEW c \in ToSet(run.pending), HitCache(c) \/ Reuse(c) \/ Recorded(c) PROVE ObjectIsRead'
  BY <1>1, <1>5, Turn, TakenFields
<1>6. ASSUME Stop \/ Lose PROVE ObjectIsRead'
  BY <1>1, <1>6, StopTypes, LoseTypes, PhaseChange DEF Phases, Ended
<1>7. ASSUME Analyze PROVE ObjectIsRead'
  <2>1. /\ task.phase = "running" /\ run.pending = <<>> /\ run' = run
        /\ task'.tools = task.tools /\ task'.request = task.request
        /\ task'.phase = "insufficient" \/ ~Insufficient
    BY <1>7, AnalyzeTypes
  <2>2. CASE task'.phase = "insufficient"
    BY <1>1, <2>2
  <2>3. CASE ~Insufficient
    BY <2>1, <2>3, AnswerHasRead DEF ObjectIsRead, Reads
  <2>4. QED
    BY <2>1, <2>2, <2>3
<1>8. QED
  BY <1>2, <1>3, <1>4, <1>5, <1>6, <1>7, ChangeTypes, PolicyTypes DEF Round, loop

\* An agent that answers from source has made a read, for any plan a client may
\* send, when the request names an object and a source tool was published.
THEOREM KnownObjectsAreRead == Spec => []ObjectIsRead
<1>1. Init => ObjectIsRead
  BY DEF Init, NoTask, ObjectIsRead
<1>2. QED
  BY <1>1, NextReadsObject, RetrievalRounds, RetrievalTypes, RetrievalPlans, PTL DEF Spec

-----------------------------------------------------------------------------
\* No call is asked for again.

Often(c) == Max({1, Times(c, task.plan)})

\* No call is in the line more often than it may be asked for.
LineOnce == \A c \in Calls : Times(c, Line) <= Often(c)

RowsOnce == \A c \in Calls : Times(c, Made(stored)) <= Often(c)

\* What was not loaded when the run began, this run has asked for.
RowsOfRun ==
    task.phase = "running" =>
        \A c \in Calls : Rows(c) = {} => Times(c, Made(stored)) <= Times(c, Made(run.calls))

OnceInv == LineOnce /\ RowsOnce /\ RowsOfRun

LEMMA MaxOfTwo ==
    ASSUME NEW a \in Nat, NEW b \in Nat
    PROVE  Max({a, b}) \in Nat /\ Max({a, b}) >= a /\ Max({a, b}) >= b
<1>1. \E x \in {a, b} : \A y \in {a, b} : x >= y
  <2>1. a >= b \/ b >= a
    OBVIOUS
  <2>2. QED
    BY <2>1
<1>2. Max({a, b}) \in {a, b} /\ \A y \in {a, b} : Max({a, b}) >= y
  BY <1>1 DEF Max
<1>3. QED
  BY <1>2

LEMMA OftenType ==
    ASSUME TypeInv, NEW c
    PROVE  Often(c) \in Nat /\ Often(c) >= 1 /\ Often(c) >= Times(c, task.plan)
  BY TaskFields, TimesType, MaxOfTwo DEF Often

LEMMA RowsMade ==
    ASSUME TypeInv
    PROVE  /\ Made(stored) \in Seq(Calls) /\ Made(run.calls) \in Seq(Calls)
           /\ DOMAIN Made(stored) = 1..Len(stored) /\ stored \in Seq(Row)
           /\ \A i \in 1..Len(stored) : Made(stored)[i] = stored[i].call
  BY RunFields, MadeType, CallsOfEntries DEF TypeInv

\* Navigation never finds the same step twice at once.
LEMMA NavigationIsDistinct ==
    ASSUME NEW c, NEW answer
    PROVE  NoRepeats(Navigation(c, answer))
<1>1. ASSUME NEW x PROVE NoRepeats(<<x>>)
  BY DEF NoRepeats
<1>2. NoRepeats(<<>>)
  BY DEF NoRepeats
<1>3. ASSUME NEW m PROVE NoRepeats(Chain(m))
  <2>1. ASSUME NEW x, NEW y, NEW z, NEW w,
               x # y, x # z, x # w, y # z, y # w, z # w
        PROVE  NoRepeats(<<x, y, z, w>>)
    BY <2>1 DEF NoRepeats
  <2>2. Call("get_source_checksum", m) # Call("estimate_tool_payload", m)
    BY DEF Call
  <2>3. Call("get_source_checksum", m) # Call("read_method_source", m)
    BY DEF Call
  <2>4. Call("get_source_checksum", m) # Call("find_references", NoModule)
    BY DEF Call
  <2>5. Call("estimate_tool_payload", m) # Call("read_method_source", m)
    BY DEF Call
  <2>6. Call("estimate_tool_payload", m) # Call("find_references", NoModule)
    BY DEF Call
  <2>7. Call("read_method_source", m) # Call("find_references", NoModule)
    BY DEF Call
  <2>8. QED
    BY <1>1, <2>1, <2>2, <2>3, <2>4, <2>5, <2>6, <2>7 DEF Chain
<1>4. QED
  BY <1>1, <1>2, <1>3 DEF Navigation

LEMMA StepsAreDistinct ==
    ASSUME TypeInv, NEW c, NEW answer \in AnswerSet, NEW steps \in Seq(Calls), NEW x,
           NEW calls, NEW queue,
           steps = <<>> \/ steps = New(Navigation(c, answer), calls, queue)
    PROVE  Times(x, steps) <= 1 /\ Times(x, steps) \in Nat
<1> DEFINE found == Navigation(c, answer)
           S == {d \in ToSet(found) : /\ d.tool \in run.tools \cap Allowed
                                      /\ d \notin ToSet(queue)
                                      /\ d \notin ToSet(Made(calls))}
<1>1. found \in Seq(Calls) /\ NoRepeats(found)
  BY NavigationType, NavigationIsDistinct
<1>2. New(found, calls, queue) = Within(found, S)
  BY DEF New
<1> HIDE DEF found, S
<1>3. Times(x, found) \in Nat /\ Times(x, found) <= 1
  BY <1>1, TimesType, TimesOfDistinct
<1>4. Times(x, Within(found, S)) <= 1
  BY <1>1, <1>3, TimesWithin
<1>5. Times(x, <<>>) = 0
  BY WithinOfEmpty, EmptySeq DEF Times
<1>6. Times(x, steps) \in Nat
  BY TimesType
<1>7. QED
  BY <1>2, <1>4, <1>5, <1>6 DEF found

LEMMA TurnKeepsOnce ==
    ASSUME TypeInv, OnceInv, NEW c, NEW answer \in AnswerSet, NEW via,
           NEW steps \in Seq(Calls),
           Answer(c, answer, via) \in Entry, Taken(c, answer, via, steps)
    PROVE  /\ LineOnce' /\ c \in Calls
           /\ \A x \in Calls : Often(x)' = Often(x)
           /\ \A x \in Calls : /\ Times(x, Made(run.calls)) \in Nat
                               /\ Times(x, Made(run.calls))'
                                      = Times(x, Made(run.calls)) + IF x = c THEN 1 ELSE 0
                               /\ Times(x, Made(run.calls))' <= Times(x, Line)'
<1>1. PICK pre \in Seq(Calls), rest \in Seq(Calls) : Shifted(c, answer, steps, pre, rest)
  BY LineOfTurn
<1>2. /\ Line = pre \o rest /\ Line' = pre \o (steps \o rest)
      /\ ToSet(steps) \cap (ToSet(pre) \cup ToSet(rest)) = {}
      /\ steps = <<>> \/ steps = New(Navigation(c, answer), run'.calls, rest)
      /\ c \in Calls /\ Made(run.calls) \in Seq(Calls)
      /\ Made(run'.calls) = pre /\ pre = Append(Made(run.calls), c)
  BY <1>1 DEF Shifted
<1>3. task'.plan = task.plan
  BY TakenFields
<1>4. \A x : Often(x)' = Often(x)
  BY <1>3 DEF Often
<1>5. ASSUME NEW x \in Calls
      PROVE  Times(x, Line)' <= Often(x) /\ Times(x, pre) <= Times(x, Line)'
  <2>1. PICK t \in Seq(Calls) : t = steps \o rest
    BY ConcatProperties
  <2>2. /\ Times(x, pre) \in Nat /\ Times(x, steps) \in Nat /\ Times(x, rest) \in Nat
        /\ Times(x, steps) <= 1
    BY <1>2, TimesType, StepsAreDistinct
  <2>3. Times(x, t) = Times(x, steps) + Times(x, rest)
    BY <2>1, TimesInConcat
  <2>4. Times(x, Line)' = Times(x, pre) + Times(x, t)
    <3>1. Times(x, pre \o t) = Times(x, pre) + Times(x, t)
      BY TimesInConcat
    <3>2. QED
      BY <1>2, <2>1, <3>1
  <2>5. Times(x, Line) = Times(x, pre) + Times(x, rest)
    BY <1>2, TimesInConcat
  <2>6. Times(x, Line) <= Often(x)
    BY DEF OnceInv, LineOnce
  <2>7. Often(x) \in Nat /\ Often(x) >= 1
    BY OftenType
  <2>8. CASE x \in ToSet(steps)
    <3>1. Times(x, pre) = 0 /\ Times(x, rest) = 0
      BY <1>2, <2>8, TimesOfAbsent
    <3>2. QED
      BY <2>2, <2>3, <2>4, <2>7, <3>1
  <2>9. CASE x \notin ToSet(steps)
    <3>1. Times(x, steps) = 0
      BY <2>9, TimesOfAbsent
    <3>2. QED
      BY <2>2, <2>3, <2>4, <2>5, <2>6, <2>7, <3>1
  <2>10. QED
    BY <2>8, <2>9
<1>6. ASSUME NEW x \in Calls
      PROVE  /\ Times(x, Made(run.calls)) \in Nat
             /\ Times(x, Made(run.calls))'
                    = Times(x, Made(run.calls)) + IF x = c THEN 1 ELSE 0
             /\ Times(x, Made(run.calls))' <= Times(x, Line)'
  <2>1. PICK made \in Seq(Calls) : made = Made(run.calls)
    BY <1>2
  <2>2. Times(x, Append(made, c)) = Times(x, made) + IF x = c THEN 1 ELSE 0
    BY <1>2, TimesInAppend
  <2>3. Times(x, made) \in Nat
    BY TimesType
  <2>4. QED
    BY <1>2, <1>5, <2>1, <2>2, <2>3
<1>7. LineOnce'
  BY <1>4, <1>5 DEF LineOnce
<1>8. QED
  BY <1>2, <1>4, <1>6, <1>7

LEMMA RowsStay ==
    ASSUME TypeInv, TypeInv', run'.known = run.known,
           stored' = stored \/ \E x \in Row : stored' = Append(stored, x)
    PROVE  \A c : Rows(c)' = Rows(c)
<1>1. Len(stored) \in Nat /\ stored \in Seq(Row) /\ run.known <= Len(stored) /\ run.known \in Nat
  BY RunFields, LenProperties DEF TypeInv
<1>2. ASSUME NEW i \in 1..run.known PROVE stored'[i] = stored[i]
  <2>1. i \in 1..Len(stored)
    BY <1>1
  <2>2. QED
    BY <1>1, <2>1, AppendProperties
<1>3. QED
  BY <1>2 DEF Rows

LEMMA NothingMade ==
    ASSUME NEW x
    PROVE  Times(x, Made(<<>>)) = 0
  BY MadeOfNothing, WithinOfEmpty, EmptySeq DEF Times

LEMMA NothingOnce ==
    ASSUME TypeInv', run' = Idle, stored' = <<>>, task'.phase # "running",
           \A c \in Calls : Often(c)' \in Nat
    PROVE  OnceInv'
<1>1. ASSUME NEW c \in Calls PROVE Times(c, Line)' = 0 /\ Times(c, Made(stored))' = 0
  <2>1. Line' = Made(<<>>)
    BY LineOfIdle, MadeOfNothing
  <2>2. QED
    BY <2>1, NothingMade
<1>2. QED
  BY <1>1 DEF OnceInv, LineOnce, RowsOnce, RowsOfRun

\* A turn that stores no row.
LEMMA KeptOnce ==
    ASSUME TypeInv, TypeInv', OnceInv, NEW c, NEW answer \in AnswerSet, NEW via,
           NEW steps \in Seq(Calls), stored' = stored,
           Answer(c, answer, via) \in Entry, Taken(c, answer, via, steps)
    PROVE  OnceInv'
<1>1. task.phase = "running" /\ run'.known = run.known
  BY TakenFields
<1>2. \A x : Rows(x)' = Rows(x)
  BY <1>1, RowsStay
<1>3. ASSUME NEW x \in Calls
      PROVE  /\ Times(x, Made(stored))' <= Often(x)'
             /\ Rows(x)' = {} => Times(x, Made(stored))' <= Times(x, Made(run.calls))'
  <2>1. Times(x, Made(stored)) <= Often(x) /\ Often(x)' = Often(x)
    BY TurnKeepsOnce DEF OnceInv, RowsOnce
  <2>2. Rows(x) = {} => Times(x, Made(stored)) <= Times(x, Made(run.calls))
    BY <1>1 DEF OnceInv, RowsOfRun
  <2>3. /\ Times(x, Made(run.calls)) \in Nat
        /\ Times(x, Made(run.calls))' = Times(x, Made(run.calls)) + IF x = c THEN 1 ELSE 0
    BY TurnKeepsOnce
  <2>4. Times(x, Made(stored)) \in Nat
    BY RowsMade, TimesType
  <2>5. Times(x, Made(run.calls))' >= Times(x, Made(run.calls))
    BY <2>3
  <2>6. QED
    BY <1>2, <2>1, <2>2, <2>3, <2>4, <2>5
<1>4. QED
  BY <1>3, TurnKeepsOnce DEF OnceInv, RowsOnce, RowsOfRun

\* A server answers a call only when no row does, so its rows are as many as
\* the calls of this run, which are in the line.
LEMMA RecordKeepsOnce ==
    ASSUME TypeInv, OnceInv, NEW c, Recorded(c)
    PROVE  OnceInv'
<1>1. PICK answer \in Given(c), steps \in Seq(Calls) :
          /\ Taken(c, answer, "server", steps)
          /\ [call |-> c, answer |-> answer] \in Row
          /\ stored' = Append(stored, [call |-> c, answer |-> answer])
  BY RecordTypes
<1>2. TypeInv' /\ Rows(c) = {}
  BY RecordTypes DEF Recorded
<1>3. Answer(c, answer, "server") \in Entry /\ answer \in AnswerSet
  BY <1>1, EntryOfRow DEF Vias
<1>4. task.phase = "running" /\ run'.known = run.known
  BY <1>1, <1>3, TakenFields
<1>5. \A x : Rows(x)' = Rows(x)
  BY <1>1, <1>2, <1>4, RowsStay
<1>6. /\ LineOnce' /\ c \in Calls
      /\ \A x \in Calls : Often(x)' = Often(x)
      /\ \A x \in Calls : /\ Times(x, Made(run.calls)) \in Nat
                          /\ Times(x, Made(run.calls))'
                                 = Times(x, Made(run.calls)) + IF x = c THEN 1 ELSE 0
                          /\ Times(x, Made(run.calls))' <= Times(x, Line)'
  BY <1>1, <1>3, TurnKeepsOnce
<1>7. Made(stored') = Append(Made(stored), c)
  <2>1. PICK e \in Row : e = [call |-> c, answer |-> answer]
    BY <1>1
  <2>2. e.call = c /\ stored \in Seq(Row) /\ stored' = Append(stored, e)
    BY <1>1, <2>1, RowsMade
  <2>3. Made(Append(stored, e)) = Append(Made(stored), e.call)
    BY <2>2, MadeOfAppend, CallsOfEntries
  <2>4. QED
    BY <2>2, <2>3
<1>8. ASSUME NEW x \in Calls
      PROVE  /\ Times(x, Made(stored))' = Times(x, Made(stored)) + IF x = c THEN 1 ELSE 0
             /\ Times(x, Made(stored)) \in Nat
  <2>1. PICK made \in Seq(Calls) : made = Made(stored)
    BY RowsMade
  <2>2. Times(x, Append(made, c)) = Times(x, made) + IF x = c THEN 1 ELSE 0
    BY <1>6, TimesInAppend
  <2>3. Times(x, made) \in Nat
    BY TimesType
  <2>4. QED
    BY <1>7, <2>1, <2>2, <2>3
<1>9. ASSUME NEW x \in Calls
      PROVE  /\ Times(x, Made(stored))' <= Often(x)'
             /\ Rows(x)' = {} => Times(x, Made(stored))' <= Times(x, Made(run.calls))'
  <2>1. Times(x, Made(stored)) <= Often(x) /\ Often(x)' = Often(x) /\ Often(x) \in Nat
    BY <1>6, OftenType DEF OnceInv, RowsOnce
  <2>2. Rows(x) = {} => Times(x, Made(stored)) <= Times(x, Made(run.calls))
    BY <1>4 DEF OnceInv, RowsOfRun
  <2>3. /\ Times(x, Made(run.calls)) \in Nat
        /\ Times(x, Made(run.calls))' = Times(x, Made(run.calls)) + IF x = c THEN 1 ELSE 0
        /\ Times(x, Made(run.calls))' <= Times(x, Line)'
    BY <1>6
  <2>4. Times(x, Line)' <= Often(x)
    BY <1>6, <2>1 DEF LineOnce
  <2>5. /\ Times(x, Made(stored))' = Times(x, Made(stored)) + IF x = c THEN 1 ELSE 0
        /\ Times(x, Made(stored)) \in Nat
    BY <1>8
  <2>6. Times(x, Line)' \in Int
    <3>1. Line' \in Seq(Calls)
      <4>1. Made(run'.calls) \in Seq(Calls) /\ run'.pending \in Seq(Calls)
        BY <1>2, RunFields, MadeType, CallsOfEntries DEF TypeInv, RunType
      <4>2. QED
        BY <4>1, ConcatProperties DEF Line
    <3>2. QED
      BY <3>1, TimesType
  <2>7. CASE x = c
    <3>1. Times(x, Made(stored)) <= Times(x, Made(run.calls))
      BY <1>2, <2>2, <2>7
    <3>2. Times(x, Made(stored))' <= Times(x, Made(run.calls))'
      BY <2>3, <2>5, <2>7, <3>1
    <3>3. QED
      BY <2>1, <2>3, <2>4, <2>5, <2>6, <3>2
  <2>8. CASE x # c
    BY <1>5, <2>1, <2>2, <2>3, <2>5, <2>8
  <2>9. QED
    BY <2>7, <2>8
<1>10. QED
  BY <1>6, <1>9 DEF OnceInv, RowsOnce, RowsOfRun

LEMMA StartKeepsOnce ==
    ASSUME TypeInv, OnceInv, task' = [task EXCEPT !.phase = "running"], stored' = stored,
           run'.known = Len(stored), run'.pending = task.plan, run'.calls = <<>>
    PROVE  OnceInv'
<1>1. task'.plan = task.plan /\ Line' = task.plan
  BY PhaseChange, LineOfStart DEF Phases
<1>2. \A x : Often(x)' = Often(x)
  BY <1>1 DEF Often
<1>3. ASSUME NEW x \in Calls
      PROVE  /\ Times(x, Line)' <= Often(x)' /\ Times(x, Made(stored))' <= Often(x)'
             /\ Rows(x)' = {} => Times(x, Made(stored))' <= Times(x, Made(run.calls))'
  <2>1. Times(x, task.plan) <= Often(x) /\ Times(x, Made(stored)) <= Often(x)
    BY OftenType, TaskFields, TimesType DEF OnceInv, RowsOnce
  <2>2. ASSUME Rows(x)' = {} PROVE Times(x, Made(stored)) = 0
    <3>1. \A i \in 1..Len(stored) : stored[i].call # x
      BY <2>2 DEF Rows
    <3>2. x \notin ToSet(Made(stored))
      BY <3>1, RowsMade DEF ToSet
    <3>3. QED
      BY <3>2, RowsMade, TimesOfAbsent
  <2>3. Times(x, Made(run.calls))' = 0
    BY NothingMade
  <2>4. QED
    BY <1>1, <1>2, <2>1, <2>2, <2>3
<1>4. QED
  BY <1>3 DEF OnceInv, LineOnce, RowsOnce, RowsOfRun

LEMMA OnceStays ==
    ASSUME OnceInv, UNCHANGED <<stored, run>>, task'.plan = task.plan,
           task'.phase = "running" => task.phase = "running"
    PROVE  OnceInv'
<1>1. \A x : Often(x)' = Often(x)
  BY DEF Often
<1>2. Line' = Line
  BY DEF Line
<1>3. \A x : Rows(x)' = Rows(x)
  BY DEF Rows
<1>4. QED
  BY <1>1, <1>2, <1>3 DEF OnceInv, LineOnce, RowsOnce, RowsOfRun

LEMMA NextKeepsOnce == TypeInv /\ OnceInv /\ [Round]_loop => OnceInv'
<1> SUFFICES ASSUME TypeInv, OnceInv, [Round]_loop PROVE OnceInv'
  OBVIOUS
<1>0. TypeInv'
  BY NextTypes
<1>1. ASSUME UNCHANGED <<task, stored, run>> PROVE OnceInv'
  BY <1>1, OnceStays
<1>2. ASSUME NEW request \in Requests, CreateTask(request) PROVE OnceInv'
  <2>1. run' = Idle /\ stored' = <<>> /\ task'.phase # "running" /\ task' \in Task
    BY <1>0, <1>2, CreateTypes DEF TypeInv
  <2>2. ASSUME NEW c \in Calls PROVE Often(c)' \in Nat
    <3>1. Times(c, task'.plan) \in Nat
      BY <2>1, TimesType DEF Task
    <3>2. QED
      BY <3>1, MaxOfTwo DEF Often
  <2>3. QED
    BY <1>0, <2>1, <2>2, NothingOnce
<1>3. ASSUME StartRun PROVE OnceInv'
  <2>1. CASE task' = [task EXCEPT !.phase = "failed"] /\ run' = run
    BY <1>3, <2>1, StartTypes, PhaseChange, OnceStays DEF Phases, Ended
  <2>2. CASE /\ task' = [task EXCEPT !.phase = "running"] /\ run'.known = Len(stored)
             /\ run'.pending = task.plan /\ run'.calls = <<>>
    BY <1>3, <2>2, StartTypes, StartKeepsOnce
  <2>3. QED
    BY <1>3, <2>1, <2>2, StartTypes
<1>4. ASSUME NEW c, HitCache(c) PROVE OnceInv'
  <2>1. PICK answer \in AnswerSet, via \in Vias, steps \in Seq(Calls) :
            Taken(c, answer, via, steps) /\ Answer(c, answer, via) \in Entry
    BY <1>4, Turn
  <2>2. stored' = stored
    BY <1>4 DEF HitCache
  <2>3. QED
    BY <1>0, <2>1, <2>2, KeptOnce
<1>5. ASSUME NEW c, Reuse(c) PROVE OnceInv'
  <2>1. PICK answer \in AnswerSet, via \in Vias, steps \in Seq(Calls) :
            Taken(c, answer, via, steps) /\ Answer(c, answer, via) \in Entry
    BY <1>5, Turn
  <2>2. stored' = stored
    BY <1>5 DEF Reuse
  <2>3. QED
    BY <1>0, <2>1, <2>2, KeptOnce
<1>6. ASSUME NEW c, Recorded(c) PROVE OnceInv'
  BY <1>6, RecordKeepsOnce
<1>7. ASSUME Stop PROVE OnceInv'
  BY <1>7, StopTypes, PhaseChange, OnceStays DEF Phases, Ended
<1>8. ASSUME Lose PROVE OnceInv'
  <2>1. /\ run' = Idle /\ stored' = stored /\ task'.plan = task.plan
        /\ task'.phase # "running"
    BY <1>8, LoseTypes, PhaseChange DEF Phases
  <2>2. \A x : Often(x)' = Often(x)
    BY <2>1 DEF Often
  <2>3. ASSUME NEW x \in Calls PROVE Times(x, Line)' <= Often(x)'
    <3>1. Times(x, Line)' = 0
      BY <2>1, LineOfIdle, MadeOfNothing, NothingMade
    <3>2. Often(x) \in Nat
      BY OftenType
    <3>3. QED
      BY <2>2, <3>1, <3>2
  <2>4. QED
    BY <2>1, <2>2, <2>3 DEF OnceInv, LineOnce, RowsOnce, RowsOfRun
<1>9. ASSUME Analyze PROVE OnceInv'
  BY <1>9, AnalyzeTypes, OnceStays
<1>10. QED
  BY <1>1, <1>2, <1>3, <1>4, <1>5, <1>6, <1>7, <1>8, <1>9, ChangeTypes, PolicyTypes
  DEF Round, loop

\* Over all runs of a task, no call has more rows than the plan has it, or than
\* one when navigation alone adds it.
THEOREM RowsAreOnce == Spec => []OnceInv
<1>1. Init /\ TypeInv => OnceInv
  <2> SUFFICES ASSUME Init, TypeInv PROVE OnceInv
    OBVIOUS
  <2>1. run = Idle /\ stored = <<>> /\ task.phase # "running"
    BY DEF Init, NoTask
  <2>2. ASSUME NEW c \in Calls
        PROVE  Times(c, Line) = 0 /\ Times(c, Made(stored)) = 0 /\ Often(c) \in Nat
    <3>1. Line = <<>>
      <4>1. Made(<<>>) = <<>> /\ <<>> \o <<>> = <<>>
        BY MadeOfNothing, EmptySeq, ConcatEmptySeq
      <4>2. QED
        BY <2>1, <4>1 DEF Line, Idle
    <3>2. QED
      BY <2>1, <3>1, MadeOfNothing, NothingMade, OftenType
  <2>3. QED
    BY <2>1, <2>2 DEF OnceInv, LineOnce, RowsOnce, RowsOfRun
<1>2. QED
  BY <1>1, NextKeepsOnce, RetrievalRounds, RetrievalTypes, PTL DEF Spec

\* The calls of a task that have a row or an answer in hand.
Held(c) == Times(c, Made(stored)) + Times(c, Made(reply))

\* What the server answered has a row, is in hand, or went with a lost run.
AskedInv ==
    \A c \in Calls : /\ Times(c, asked) = Held(c) + Times(c, wasted)
                     /\ Held(c) <= Often(c)

LEMMA AskedNumbers ==
    ASSUME TypeInv, ReplyInv, NEW c
    PROVE  /\ Times(c, asked) \in Nat /\ Times(c, wasted) \in Nat /\ Held(c) \in Nat
           /\ Times(c, Made(stored)) \in Nat /\ Times(c, Made(reply)) \in Nat
<1>1. asked \in Seq(Calls) /\ wasted \in Seq(Calls)
  BY DEF ReplyInv
<1>2. /\ Times(c, asked) \in Nat /\ Times(c, wasted) \in Nat
      /\ Times(c, Made(stored)) \in Nat /\ Times(c, Made(reply)) \in Nat
  BY <1>1, RowsMade, ReplyCalls, TimesType
<1>3. QED
  BY <1>2 DEF Held

LEMMA TimesOfOne ==
    ASSUME NEW r \in Row, NEW x
    PROVE  Times(x, Made(<<r>>)) = IF x = r.call THEN 1 ELSE 0
<1>1. r.call \in Calls /\ <<>> \in Seq(Row) /\ <<>> \in Seq(Calls)
  BY CallsOfEntries, EmptySeq
<1>2. <<r>> = Append(<<>>, r)
  OBVIOUS
<1>3. Made(Append(<<>>, r)) = Append(Made(<<>>), r.call)
  BY <1>1, MadeOfAppend, CallsOfEntries
<1>4. Times(x, Append(<<>>, r.call)) = Times(x, <<>>) + IF x = r.call THEN 1 ELSE 0
  BY <1>1, TimesInAppend
<1>5. Times(x, <<>>) = 0
  BY MadeOfNothing, NothingMade
<1>6. QED
  BY <1>2, <1>3, <1>4, <1>5, MadeOfNothing

LEMMA AskedStays ==
    ASSUME AskedInv, UNCHANGED <<stored, reply, asked, wasted>>, task'.plan = task.plan
    PROVE  AskedInv'
<1>1. \A c : Held(c)' = Held(c) /\ Often(c)' = Often(c)
  BY DEF Held, Often
<1>2. QED
  BY <1>1 DEF AskedInv

\* A call the server is asked for has no row that was loaded, and is still to be
\* made: with its answer in hand it has no more of them than the line has of it.
LEMMA AskCounts ==
    ASSUME LoopInv, OnceInv, AskedInv, NEW c, Ask(c)
    PROVE  AskedInv'
<1>0. TypeInv /\ SourceInv /\ ReplyInv
  BY DEF LoopInv
<1>1. PICK r \in Row : r.call = c /\ reply' = <<r>>
  BY <1>0, AskReplies
<1>2. /\ reply = <<>> /\ Takes(c) /\ Rows(c) = {} /\ c \in Calls
      /\ asked' = Append(asked, c) /\ wasted' = wasted /\ UNCHANGED loop
  BY <1>0, AskReplies
<1>3. \A x : Often(x)' = Often(x) /\ Made(stored)' = Made(stored)
  BY <1>2 DEF Often, loop, Made
<1>4. ASSUME NEW x \in Calls
      PROVE  /\ Held(x) = Times(x, Made(stored))
             /\ Held(x)' = Times(x, Made(stored)) + IF x = c THEN 1 ELSE 0
             /\ Times(x, asked)' = Times(x, asked) + IF x = c THEN 1 ELSE 0
  <2>1. Times(x, Made(reply)) = 0
    BY <1>2, NothingMade
  <2>2. Times(x, Made(reply))' = IF x = c THEN 1 ELSE 0
    BY <1>1, TimesOfOne
  <2>3. Times(x, Append(asked, c)) = Times(x, asked) + IF x = c THEN 1 ELSE 0
    BY <1>0, <1>2, TimesInAppend DEF ReplyInv
  <2>4. Times(x, Made(stored)) \in Nat
    BY <1>0, AskedNumbers
  <2>5. QED
    BY <1>2, <1>3, <2>1, <2>2, <2>3, <2>4 DEF Held
<1>5. Times(c, Made(stored)) + 1 <= Often(c)
  <2>1. /\ run.pending \in Seq(Calls) /\ Tail(run.pending) \in Seq(Calls)
        /\ run.pending = <<c>> \o Tail(run.pending) /\ task.phase = "running"
    BY <1>0, <1>2, RunFields, HeadAndRest DEF Takes
  <2>2. PICK rest \in Seq(Calls) : rest = Tail(run.pending)
    BY <2>1
  <2>3. Times(c, <<c>>) = 1 /\ <<c>> \in Seq(Calls)
    <3>1. <<c>> = Append(<<>>, c) /\ <<>> \in Seq(Calls)
      BY EmptySeq
    <3>2. Times(c, Append(<<>>, c)) = Times(c, <<>>) + 1
      BY <1>2, <3>1, TimesInAppend
    <3>3. Times(c, <<>>) = 0
      BY MadeOfNothing, NothingMade
    <3>4. QED
      BY <1>2, <3>1, <3>2, <3>3
  <2>4. Times(c, <<c>> \o rest) = Times(c, <<c>>) + Times(c, rest)
    BY <2>3, TimesInConcat
  <2>5. Times(c, Line) = Times(c, Made(run.calls)) + Times(c, run.pending)
    BY <1>0, <2>1, RowsMade, TimesInConcat DEF Line
  <2>6. /\ Times(c, rest) \in Nat /\ Times(c, Made(run.calls)) \in Nat
        /\ Times(c, Made(stored)) \in Nat /\ Often(c) \in Nat
    BY <1>0, RowsMade, TimesType, OftenType
  <2>7. Times(c, Made(stored)) <= Times(c, Made(run.calls)) /\ Times(c, Line) <= Often(c)
    BY <1>2, <2>1 DEF OnceInv, LineOnce, RowsOfRun
  <2>8. Times(c, run.pending) = 1 + Times(c, rest)
    BY <2>1, <2>2, <2>3, <2>4
  <2>9. QED
    BY <2>5, <2>6, <2>7, <2>8
<1>6. ASSUME NEW x \in Calls
      PROVE  Times(x, asked)' = Held(x)' + Times(x, wasted)' /\ Held(x)' <= Often(x)'
  <2>1. Times(x, asked) = Held(x) + Times(x, wasted) /\ Held(x) <= Often(x)
    BY DEF AskedInv
  <2>2. Times(x, wasted) \in Nat /\ Held(x) \in Nat /\ Often(x) \in Nat
    BY <1>0, AskedNumbers, OftenType
  <2>3. Times(x, wasted)' = Times(x, wasted)
    BY <1>2
  <2>4. QED
    BY <1>3, <1>4, <1>5, <2>1, <2>2, <2>3
<1>7. QED
  BY <1>6 DEF AskedInv

LEMMA RecordCounts ==
    ASSUME LoopInv, AskedInv, Record
    PROVE  AskedInv'
<1>0. TypeInv /\ ReplyInv
  BY DEF LoopInv
<1>1. PICK r \in Row : reply = <<r>> /\ Recorded(r.call) /\ stored' = Append(stored, r)
  BY <1>0, RecordIsRound
<1>2. reply' = <<>> /\ UNCHANGED <<asked, wasted>>
  BY <1>0, RecordIsRound
<1>3. task'.plan = task.plan
  BY <1>0, <1>1, Turn, TakenFields
<1>4. ASSUME NEW x \in Calls PROVE Held(x)' = Held(x)
  <2>1. Times(x, Made(reply)) = IF x = r.call THEN 1 ELSE 0
    BY <1>1, TimesOfOne
  <2>2. Times(x, Made(reply))' = 0
    BY <1>2, NothingMade
  <2>3. Times(x, Made(stored))' = Times(x, Made(stored)) + IF x = r.call THEN 1 ELSE 0
    <3>1. PICK made \in Seq(Calls) : made = Made(stored)
      BY <1>0, RowsMade
    <3>2. Made(Append(stored, r)) = Append(made, r.call) /\ r.call \in Calls
      BY <1>0, <3>1, RowsMade, MadeOfAppend, CallsOfEntries
    <3>3. Times(x, Append(made, r.call)) = Times(x, made) + IF x = r.call THEN 1 ELSE 0
      BY <3>2, TimesInAppend
    <3>4. QED
      BY <1>1, <3>1, <3>2, <3>3
  <2>4. Times(x, Made(stored)) \in Nat
    BY <1>0, AskedNumbers
  <2>5. QED
    BY <2>1, <2>2, <2>3, <2>4 DEF Held
<1>5. \A x : Often(x)' = Often(x)
  BY <1>3 DEF Often
<1>6. QED
  BY <1>2, <1>4, <1>5 DEF AskedInv

LEMMA LoseCounts ==
    ASSUME LoopInv, AskedInv, Lose
    PROVE  AskedInv'
<1>0. TypeInv /\ ReplyInv
  BY DEF LoopInv
<1>1. /\ reply' = <<>> /\ wasted' = wasted \o Made(reply) /\ UNCHANGED <<stored, asked>>
      /\ task'.plan = task.plan
  BY <1>0, LoseTypes, PhaseChange DEF Lose, Phases
<1>2. \A x : Often(x)' = Often(x)
  BY <1>1 DEF Often
<1>3. ASSUME NEW x \in Calls
      PROVE  Times(x, asked)' = Held(x)' + Times(x, wasted)' /\ Held(x)' <= Often(x)'
  <2>1. PICK made \in Seq(Calls) : made = Made(reply)
    BY <1>0, ReplyCalls
  <2>2. Times(x, wasted \o made) = Times(x, wasted) + Times(x, made)
    BY <1>0, TimesInConcat DEF ReplyInv
  <2>3. Times(x, Made(reply))' = 0 /\ Times(x, Made(stored))' = Times(x, Made(stored))
    BY <1>1, NothingMade
  <2>4. Times(x, asked) = Held(x) + Times(x, wasted) /\ Held(x) <= Often(x)
    BY DEF AskedInv
  <2>5. /\ Times(x, wasted) \in Nat /\ Times(x, Made(stored)) \in Nat
        /\ Times(x, Made(reply)) \in Nat /\ Often(x) \in Nat
    BY <1>0, AskedNumbers, OftenType
  <2>6. /\ Held(x) = Times(x, Made(stored)) + Times(x, made)
        /\ Held(x)' = Times(x, Made(stored))
        /\ Times(x, wasted)' = Times(x, wasted) + Times(x, made)
        /\ Times(x, asked)' = Times(x, asked)
    BY <1>1, <2>1, <2>2, <2>3, <2>5 DEF Held
  <2>7. QED
    BY <1>2, <2>1, <2>4, <2>5, <2>6
<1>4. QED
  BY <1>3 DEF AskedInv

LEMMA NothingAsked ==
    ASSUME stored = <<>>, reply = <<>>, asked = <<>>, wasted = <<>>,
           \A c \in Calls : Often(c) \in Nat
    PROVE  AskedInv
<1>1. \A c : Times(c, <<>>) = 0
  BY MadeOfNothing, NothingMade
<1>2. QED
  BY <1>1, MadeOfNothing DEF AskedInv, Held

LEMMA CreateCounts ==
    ASSUME TypeInv', stored' = <<>>, reply' = <<>>, asked' = <<>>, wasted' = <<>>
    PROVE  AskedInv'
<1>1. \A c : Times(c, <<>>) = 0
  BY MadeOfNothing, NothingMade
<1>2. ASSUME NEW c \in Calls PROVE Often(c)' \in Nat
  <2>1. Times(c, task'.plan) \in Nat
    BY TimesType DEF TypeInv, Task
  <2>2. QED
    BY <2>1, MaxOfTwo DEF Often
<1>3. QED
  BY <1>1, <1>2, MadeOfNothing DEF AskedInv, Held

LEMMA NextCounts == LoopInv /\ OnceInv /\ AskedInv /\ [Next]_vars => AskedInv'
<1> SUFFICES ASSUME LoopInv, OnceInv, AskedInv, [Next]_vars PROVE AskedInv'
  OBVIOUS
<1>0. TypeInv /\ ReplyInv
  BY DEF LoopInv
<1>1. ASSUME UNCHANGED <<task, stored, server>> PROVE AskedInv'
  BY <1>1, AskedStays DEF server
<1>2. ASSUME NEW request \in Requests, CreateTask(request) PROVE AskedInv'
  BY <1>0, <1>2, CreateTypes, CreateCounts DEF CreateTask
<1>3. ASSUME StartRun \/ Stop \/ Analyze PROVE AskedInv'
  <2>1. UNCHANGED <<stored, reply, asked, wasted>>
    BY <1>3 DEF StartRun, Stop, Analyze, server
  <2>2. task'.plan = task.plan
    BY <1>0, <1>3, StartTypes, StopTypes, AnalyzeTypes, PhaseChange DEF Phases, Ended
  <2>3. QED
    BY <2>1, <2>2, AskedStays
<1>4. ASSUME NEW c, HitCache(c) \/ Reuse(c) PROVE AskedInv'
  <2>1. UNCHANGED <<stored, reply, asked, wasted>>
    BY <1>4 DEF HitCache, Reuse, server
  <2>2. task'.plan = task.plan
    BY <1>0, <1>4, Turn, TakenFields
  <2>3. QED
    BY <2>1, <2>2, AskedStays
<1>5. ASSUME NEW m \in Edited, ModuleChanges(m) PROVE AskedInv'
  BY <1>1, <1>5 DEF ModuleChanges
<1>6. QED
  BY <1>1, <1>2, <1>3, <1>4, <1>5, AskCounts, RecordCounts, LoseCounts
  DEF Next, PolicyChanges, vars

\* Over all runs of a task, the server answers a call no more often than the
\* plan has it, or than once when navigation alone adds it, and once more for
\* each run that was lost between such an answer and its row: whatever is lost,
\* found again or taken from rows and cache in between.
THEOREM CallsAreAskedOnce == Spec => []AskedOnce
<1>1. LoopInv /\ AskedInv => AskedOnce
  <2> SUFFICES ASSUME LoopInv, AskedInv, NEW c \in ToSet(asked)
               PROVE  Times(c, asked) <= Max({1, Times(c, task.plan)}) + Times(c, wasted)
    BY DEF AskedOnce
  <2>1. TypeInv /\ ReplyInv /\ c \in Calls
    BY ToSetType DEF LoopInv, ReplyInv
  <2>2. Times(c, wasted) \in Nat /\ Held(c) \in Nat /\ Often(c) \in Nat
    BY <2>1, AskedNumbers, OftenType
  <2>3. Times(c, asked) = Held(c) + Times(c, wasted) /\ Held(c) <= Often(c)
    BY <2>1 DEF AskedInv
  <2>4. Times(c, asked) <= Often(c) + Times(c, wasted)
    BY <2>2, <2>3
  <2>5. QED
    BY <2>4 DEF Often
<1>2. Init /\ TypeInv => AskedInv
  BY OftenType, NothingAsked DEF Init
<1>3. QED
  BY <1>1, <1>2, InitTypes, NextCounts, RowsAreOnce, RetrievalRounds, RetrievalTypes, PTL DEF Spec

-----------------------------------------------------------------------------
\* A source is read after its checksum and its estimate.

Planned == ByChain(task.request, task.tools) /\ V09Automation \subseteq run.tools

Preflight(m) == {Call("get_source_checksum", m), Call("estimate_tool_payload", m)}
Read(m) == Call("read_method_source", m)

\* Whatever of the preflight is still to be made has its read behind it, so that
\* navigation cannot find a read of which only the preflight would be a repetition.
LineOrdered ==
    \A m \in Modules \cup {NoModule} : \A x \in Preflight(m) :
        Precedes(x, Read(m), Line) /\ Followed(x, Read(m), run.pending)

OnlyMethodsRead == \A c \in ToSet(Line) : c.tool # "read_source"

EstimatesAllow ==
    \A e \in ToSet(run.calls) : e.call.tool = "estimate_tool_payload" => e.answer.good

LineInv ==
    task.phase = "running" /\ Planned => LineOrdered /\ OnlyMethodsRead /\ EstimatesAllow

\* The preflight of a call is among the first n.
Preflown(calls, c, n) ==
    \E j \in 1..n, k \in 1..n :
        /\ calls[j].call = Call("get_source_checksum", c.module)
        /\ calls[k].call = Call("estimate_tool_payload", c.module)
        /\ calls[k].answer.good

ReadsPreflown == Planned => \A i \in Reads : Preflown(run.calls, run.calls[i].call, i - 1)

PreflightInv == LineInv /\ ReadsPreflown

LEMMA PreflightCalls ==
    ASSUME NEW m, NEW n, NEW x \in Preflight(m)
    PROVE  /\ x # Read(n) /\ x.module = m /\ x.tool \in V09Automation
           /\ x.tool \in {"get_source_checksum", "estimate_tool_payload"}
           /\ x # Call("find_references", NoModule) /\ x # Call("search_code", NoModule)
           /\ Read(n).tool = "read_method_source" /\ Read(n).module = n
           /\ Read(n).tool \in V09Automation
           /\ Read(n) # Call("find_references", NoModule)
           /\ Read(n) # Call("search_code", NoModule)
  BY DEF Preflight, Read, Call, V09Automation

\* What is left of a chain keeps the order of the preflight and the read.
LEMMA ChainOrder ==
    ASSUME NEW m \in Modules, V09Automation \subseteq run.tools, NEW S,
           NEW x \in Preflight(m)
    PROVE  /\ x \in S => Precedes(x, Read(m), Within(Chain(m), S))
           /\ Read(m) \in S => Followed(x, Read(m), Within(Chain(m), S))
<1> DEFINE one == Call("get_source_checksum", m)
           two == Call("estimate_tool_payload", m)
           y == Read(m)
           last == Call("find_references", NoModule)
           s == <<one, two>>
           t == <<y, last>>
<1>1. one \in Calls /\ two \in Calls /\ y \in Calls /\ last \in Calls
  BY CallType, ToolNames DEF Read, Tools, SourceTools
<1>2. x \in {one, two} /\ x # y /\ x # last /\ one # y /\ two # y
  BY PreflightCalls DEF Preflight, Read, Call
<1>3. Chain(m) = <<one, two, y, last>>
  BY DEF Chain, Read
<1> HIDE DEF one, two, y, last
<1>4. /\ s \in Seq(Calls) /\ t \in Seq(Calls)
      /\ ToSet(s) = {one, two} /\ ToSet(t) = {y, last}
  BY <1>1 DEF ToSet
<1>5. Chain(m) = s \o t
  BY <1>1, <1>3
<1> HIDE DEF s, t
<1>6. PICK a \in Seq(Calls) : a = Within(s, S)
  BY <1>4, WithinType
<1>7. PICK b \in Seq(Calls) : b = Within(t, S)
  BY <1>4, WithinType
<1>8. ToSet(a) = {one, two} \cap S /\ ToSet(b) = {y, last} \cap S
  BY <1>4, <1>6, <1>7, WithinElements
<1>9. Within(Chain(m), S) = a \o b
  <2>1. Within(s \o t, S) = Within(s, S) \o Within(t, S)
    BY <1>4, WithinConcat
  <2>2. QED
    BY <1>5, <1>6, <1>7, <2>1
<1>10. ASSUME x \in S PROVE Precedes(x, y, a \o b)
  <2>1. y \notin ToSet(a) /\ x \in ToSet(a)
    BY <1>2, <1>8, <1>10
  <2>2. QED
    BY <2>1, OrderOfAbsent, PrecedesInConcat
<1>11. ASSUME y \in S PROVE Followed(x, y, a \o b)
  <2>1. x \notin ToSet(b) /\ y \in ToSet(b)
    BY <1>2, <1>8, <1>11
  <2>2. QED
    BY <2>1, OrderOfAbsent, FollowedInConcat
<1>12. QED
  BY <1>9, <1>10, <1>11 DEF y

\* A step of a preflight or a read comes with the whole chain of its module.
LEMMA FoundInChain ==
    ASSUME NEW m \in Modules \cup {NoModule}, NEW c, NEW answer \in AnswerSet,
           V09Automation \subseteq run.tools,
           NEW x \in Preflight(m), NEW z \in {x, Read(m)}, z \in ToSet(Navigation(c, answer))
    PROVE  m \in Modules /\ Navigation(c, answer) = Chain(m)
<1>1. ToSet(<<>>) = {} /\ ToSet(<<Call("search_code", NoModule)>>) = {Call("search_code", NoModule)}
  BY DEF ToSet
<1>2. z # Call("search_code", NoModule)
  BY PreflightCalls
<1>3. answer.found # NoModule /\ Navigation(c, answer) = Chain(answer.found)
  BY <1>1, <1>2 DEF Navigation
<1>4. answer.found \in Modules
  BY <1>3 DEF AnswerSet
<1>5. ASSUME NEW n PROVE ToSet(Chain(n)) = Preflight(n) \cup {Read(n), Call("find_references", NoModule)}
  BY DEF Chain, ToSet, Preflight, Read
<1>6. z.module = m /\ z # Call("find_references", NoModule)
  BY PreflightCalls
<1>7. z.module = answer.found
  BY <1>3, <1>5, <1>6, PreflightCalls DEF Preflight
<1>8. QED
  BY <1>3, <1>4, <1>6, <1>7

\* Under a plan for the chain nothing found is a source to read as a whole.
LEMMA FoundReadsMethods ==
    ASSUME NEW c, NEW answer, V09Automation \subseteq run.tools,
           NEW d \in ToSet(Navigation(c, answer))
    PROVE  d.tool # "read_source"
<1>1. ToSet(<<>>) = {} /\ ToSet(<<Call("search_code", NoModule)>>) = {Call("search_code", NoModule)}
  BY DEF ToSet
<1>2. Call("search_code", NoModule).tool # "read_source"
  BY DEF Call
<1>3. ASSUME NEW n, NEW e \in ToSet(Chain(n)) PROVE e.tool # "read_source"
  BY <1>3 DEF Chain, ToSet, Call
<1>4. QED
  BY <1>1, <1>2, <1>3 DEF Navigation

\* What keeps a step of the chain out of the queue is that it is in the line.
LEMMA LeftOut ==
    ASSUME Planned, NEW m, NEW x \in Preflight(m), NEW z \in {x, Read(m)}, NEW found, NEW calls,
           NEW queue, z \in ToSet(found)
    PROVE  \/ z \in {d \in ToSet(found) : /\ d.tool \in run.tools \cap Allowed
                                          /\ d \notin ToSet(queue)
                                          /\ d \notin ToSet(Made(calls))}
           \/ z \in ToSet(queue) \/ z \in ToSet(Made(calls))
<1>1. z.tool \in V09Automation
  BY PreflightCalls
<1>2. z.tool \in run.tools /\ z.tool \in Allowed
  BY <1>1, ToolNames DEF Planned, ByChain, Allowed
<1>3. QED
  BY <1>2

\* The order of the line after a turn, for one module and one step of its preflight.
LEMMA TurnKeepsOrder ==
    ASSUME TypeInv, Planned, LineOrdered,
           NEW c, NEW answer \in AnswerSet, NEW via, NEW steps \in Seq(Calls),
           NEW pre \in Seq(Calls), NEW rest \in Seq(Calls), Shifted(c, answer, steps, pre, rest),
           NEW m \in Modules \cup {NoModule}, NEW x \in Preflight(m)
    PROVE  Precedes(x, Read(m), Line') /\ Followed(x, Read(m), run'.pending)
<1> DEFINE y == Read(m)
           found == Navigation(c, answer)
           S == {d \in ToSet(found) : /\ d.tool \in run.tools \cap Allowed
                                      /\ d \notin ToSet(rest)
                                      /\ d \notin ToSet(Made(run'.calls))}
<1>1. /\ Made(run'.calls) = pre /\ run'.pending = steps \o rest /\ run.pending = <<c>> \o rest
      /\ Line = pre \o rest /\ Line' = pre \o (steps \o rest)
      /\ ToSet(steps) \cap (ToSet(pre) \cup ToSet(rest)) = {}
      /\ ToSet(steps) \subseteq ToSet(found) /\ c \in Calls
      /\ steps = <<>> \/ steps = Within(found, S)
  BY DEF Shifted, New
<1>2. found \in Seq(Calls) /\ V09Automation \subseteq run.tools
  BY NavigationType DEF Planned
<1>3. Precedes(x, y, pre \o rest) /\ Followed(x, y, <<c>> \o rest)
  BY <1>1 DEF LineOrdered
<1>4. ASSUME NEW z \in {x, y}, z \in ToSet(steps)
      PROVE  m \in Modules /\ found = Chain(m) /\ x \in ToSet(found) /\ y \in ToSet(found)
             /\ steps = Within(found, S)
  <2>1. z \in ToSet(found)
    BY <1>1, <1>4
  <2>2. m \in Modules /\ found = Chain(m)
    BY <1>2, <1>4, <2>1, FoundInChain
  <2>3. x \in ToSet(Chain(m)) /\ y \in ToSet(Chain(m))
    BY <1>2 DEF Chain, ToSet, Preflight, Read
  <2>4. steps # <<>>
    BY <1>4 DEF ToSet
  <2>5. QED
    BY <1>1, <2>2, <2>3, <2>4
<1>5. ASSUME NEW z \in {x, y}, z \in ToSet(found)
      PROVE  z \in S \/ z \in ToSet(rest) \/ z \in ToSet(pre)
  BY <1>1, <1>5, LeftOut
<1> HIDE DEF found, S, y
<1>6. Precedes(x, y, pre) /\ (x \in ToSet(pre) \/ Precedes(x, y, rest))
  BY <1>3, PrecedesInConcat
<1>7. Followed(x, y, rest)
  BY <1>1, <1>3, FollowedInRest
<1>8. Followed(x, y, steps) \/ y \in ToSet(rest)
  <2>1. CASE x \notin ToSet(steps)
    BY <2>1, OrderOfAbsent
  <2>2. CASE x \in ToSet(steps)
    <3>1. /\ m \in Modules /\ found = Chain(m) /\ y \in ToSet(found) /\ steps = Within(found, S)
          /\ x \notin ToSet(pre)
      BY <1>1, <1>4, <2>2
    <3>2. y \in S \/ y \in ToSet(rest)
      BY <1>5, <1>6, <3>1, OrderNeeds
    <3>3. y \in S => Followed(x, y, Within(Chain(m), S))
      BY <1>2, <3>1, ChainOrder DEF y
    <3>4. QED
      BY <3>1, <3>2, <3>3
  <2>3. QED
    BY <2>1, <2>2
<1>9. Followed(x, y, steps \o rest)
  BY <1>7, <1>8, FollowedInConcat
<1>10. x \in ToSet(pre) \/ Precedes(x, y, steps)
  <2>1. CASE y \notin ToSet(steps)
    BY <2>1, OrderOfAbsent
  <2>2. CASE y \in ToSet(steps)
    <3>1. /\ m \in Modules /\ found = Chain(m) /\ x \in ToSet(found) /\ steps = Within(found, S)
          /\ y \notin ToSet(rest)
      BY <1>1, <1>4, <2>2
    <3>2. x \in S \/ x \in ToSet(pre)
      BY <1>5, <1>7, <3>1, OrderNeeds
    <3>3. x \in S => Precedes(x, y, Within(Chain(m), S))
      BY <1>2, <3>1, ChainOrder DEF y
    <3>4. QED
      BY <3>1, <3>2, <3>3
  <2>3. QED
    BY <2>1, <2>2
<1>11. PICK t \in Seq(Calls) : t = steps \o rest
  BY ConcatProperties
<1>12. x \in ToSet(pre) \/ Precedes(x, y, t)
  BY <1>6, <1>10, <1>11, PrecedesInConcat
<1>13. Precedes(x, y, pre \o t)
  BY <1>6, <1>12, PrecedesInConcat
<1>14. QED
  BY <1>1, <1>9, <1>11, <1>13 DEF y

\* The call that is made next has its preflight behind it if it is a read.
LEMMA NextReadPreflown ==
    ASSUME TypeInv, LineOrdered, OnlyMethodsRead, EstimatesAllow,
           NEW c, NEW answer, NEW steps \in Seq(Calls),
           NEW pre \in Seq(Calls), NEW rest \in Seq(Calls), Shifted(c, answer, steps, pre, rest),
           c.tool \in SourceTools
    PROVE  Preflown(run.calls, c, Len(run.calls))
<1> DEFINE made == Made(run.calls)
           m == c.module
<1>1. /\ pre = Append(made, c) /\ Line = pre \o rest /\ c \in Calls /\ made \in Seq(Calls)
      /\ DOMAIN made = 1..Len(run.calls) /\ \A i \in 1..Len(run.calls) : made[i] = run.calls[i].call
      /\ DOMAIN run.calls = 1..Len(run.calls)
  BY RunFields, MadeType, CallsOfEntries DEF Shifted
<1> HIDE DEF made
<1>2. c \in ToSet(Line)
  <2>1. ToSet(pre \o rest) = ToSet(pre) \cup ToSet(rest)
    BY ToSetOfConcat
  <2>2. ToSet(Append(made, c)) = ToSet(made) \cup {c}
    BY <1>1, ToSetOfAppend
  <2>3. QED
    BY <1>1, <2>1, <2>2
<1>3. c = Read(m) /\ m \in Modules \cup {NoModule}
  <2>1. c.tool = "read_method_source"
    BY <1>2 DEF OnlyMethodsRead, SourceTools
  <2>2. QED
    BY <1>1, <2>1 DEF Calls, Read, Call
<1>4. ASSUME NEW x \in Preflight(m) PROVE \E j \in 1..Len(run.calls) : run.calls[j].call = x
  <2>1. Precedes(x, c, pre \o rest)
    BY <1>1, <1>3 DEF LineOrdered
  <2>2. Precedes(x, c, pre)
    BY <2>1, PrecedesInConcat
  <2>3. x \in ToSet(made)
    BY <1>1, <2>2, PrecedesInAppend
  <2>4. QED
    BY <1>1, <2>3 DEF ToSet
<1>5. PICK j \in 1..Len(run.calls) : run.calls[j].call = Call("get_source_checksum", m)
  BY <1>4 DEF Preflight
<1>6. PICK k \in 1..Len(run.calls) : run.calls[k].call = Call("estimate_tool_payload", m)
  BY <1>4 DEF Preflight
<1>7. run.calls[k].answer.good
  <2>1. run.calls[k] \in ToSet(run.calls)
    BY <1>1 DEF ToSet
  <2>2. run.calls[k].call.tool = "estimate_tool_payload"
    BY <1>6 DEF Call
  <2>3. QED
    BY <2>1, <2>2 DEF EstimatesAllow
<1>8. QED
  BY <1>5, <1>6, <1>7 DEF Preflown

LEMMA TurnKeepsPreflight ==
    ASSUME TypeInv, PreflightInv, NEW c, NEW answer \in AnswerSet, NEW via,
           NEW steps \in Seq(Calls),
           Answer(c, answer, via) \in Entry, Taken(c, answer, via, steps)
    PROVE  PreflightInv'
<1> DEFINE e == Answer(c, answer, via)
           n == Len(run.calls)
<1>1. /\ run'.tools = run.tools /\ run'.calls = Append(run.calls, e)
      /\ task.phase = "running" /\ task'.phase \in {"running", "failed"}
      /\ task'.tools = task.tools /\ task'.request = task.request
  BY TakenFields
<1>2. Planned' = Planned
  BY <1>1 DEF Planned
<1>3. PICK pre \in Seq(Calls), rest \in Seq(Calls) : Shifted(c, answer, steps, pre, rest)
  BY LineOfTurn
<1>4. e.call = c /\ e.answer = answer /\ e \in Entry /\ run.calls \in Seq(Entry)
  BY RunFields DEF Answer
<1>5. CASE ~Planned
  BY <1>2, <1>5 DEF PreflightInv, LineInv, ReadsPreflown
<1>6. CASE Planned
  <2>1. LineOrdered /\ OnlyMethodsRead /\ EstimatesAllow
    BY <1>1, <1>6 DEF PreflightInv, LineInv
  <2>2. LineOrdered'
    BY <1>3, <1>6, <2>1, TurnKeepsOrder DEF LineOrdered
  <2>3. OnlyMethodsRead'
    <3>1. /\ Line = pre \o rest /\ Line' = pre \o (steps \o rest)
          /\ ToSet(steps) \subseteq ToSet(Navigation(c, answer))
      BY <1>3 DEF Shifted
    <3>2. PICK t \in Seq(Calls) : t = steps \o rest
      BY ConcatProperties
    <3>3. /\ ToSet(pre \o rest) = ToSet(pre) \cup ToSet(rest)
          /\ ToSet(pre \o t) = ToSet(pre) \cup ToSet(t)
          /\ ToSet(steps \o rest) = ToSet(steps) \cup ToSet(rest)
      <4>1. \A u \in Seq(Calls), v \in Seq(Calls) : ToSet(u \o v) = ToSet(u) \cup ToSet(v)
        BY ToSetOfConcat
      <4>2. QED
        BY <4>1
    <3>4. \A d \in ToSet(steps) : d.tool # "read_source"
      BY <1>6, <3>1, FoundReadsMethods DEF Planned
    <3>5. QED
      BY <2>1, <3>1, <3>2, <3>3, <3>4 DEF OnlyMethodsRead
  <2>4. ASSUME task'.phase = "running" PROVE EstimatesAllow'
    <3>1. ToSet(run'.calls) = ToSet(run.calls) \cup {e}
      BY <1>1, <1>4, ToSetOfAppend
    <3>2. Navigates
      BY <1>6 DEF Planned, ByChain, Navigates
    <3>3. task' = task
      <4>1. task' = [task EXCEPT !.phase = "failed"] => task'.phase = "failed"
        BY PhaseChange DEF Phases, Ended
      <4>2. QED
        BY <2>4, <4>1 DEF Taken
    <3>4. c.tool = "estimate_tool_payload" => answer.good
      <4>1. task # [task EXCEPT !.phase = "failed"]
        BY <1>1 DEF TypeInv, Task
      <4>2. QED
        BY <3>2, <3>3, <4>1 DEF Taken
    <3>5. QED
      BY <1>4, <2>1, <3>1, <3>4 DEF EstimatesAllow
  <2>5. ReadsPreflown'
    <3>1. /\ n \in Nat /\ DOMAIN run.calls = 1..n /\ DOMAIN run'.calls = 1..(n + 1)
          /\ run'.calls[n + 1] = e /\ \A i \in 1..n : run'.calls[i] = run.calls[i]
      BY <1>1, <1>4, AppendProperties, LenProperties
    <3> HIDE DEF e, n
    <3>2. ASSUME NEW d, NEW i \in 0..n, Preflown(run.calls, d, i)
          PROVE  Preflown(run'.calls, d, i)
      <4>1. PICK j \in 1..i, k \in 1..i :
                /\ run.calls[j].call = Call("get_source_checksum", d.module)
                /\ run.calls[k].call = Call("estimate_tool_payload", d.module)
                /\ run.calls[k].answer.good
        BY <3>2 DEF Preflown
      <4>2. j \in 1..n /\ k \in 1..n
        BY <3>1, <4>1
      <4>3. run'.calls[j] = run.calls[j] /\ run'.calls[k] = run.calls[k]
        BY <3>1, <4>2
      <4>4. QED
        BY <4>1, <4>3 DEF Preflown
    <3>3. ASSUME NEW i \in 1..(n + 1), run'.calls[i].call.tool \in SourceTools
          PROVE  Preflown(run'.calls, run'.calls[i].call, i - 1)
      <4>1. CASE i \in 1..n
        <5>1. i \in Reads /\ i - 1 \in 0..n /\ run'.calls[i] = run.calls[i]
          BY <3>1, <3>3, <4>1 DEF Reads
        <5>2. Preflown(run.calls, run.calls[i].call, i - 1)
          BY <1>6, <5>1 DEF PreflightInv, ReadsPreflown
        <5>3. QED
          BY <3>2, <5>1, <5>2
      <4>2. CASE i = n + 1
        <5>1. run'.calls[i].call = c /\ c.tool \in SourceTools
          BY <1>4, <3>1, <3>3, <4>2
        <5>2. Preflown(run.calls, c, n)
          BY <1>3, <2>1, <5>1, NextReadPreflown DEF n
        <5>3. n \in 0..n /\ i - 1 = n
          BY <3>1, <4>2
        <5>4. QED
          BY <3>2, <5>1, <5>2, <5>3
      <4>3. QED
        BY <3>1, <4>1, <4>2
    <3>4. QED
      BY <3>1, <3>3 DEF ReadsPreflown, Reads
  <2>6. QED
    BY <2>2, <2>3, <2>4, <2>5 DEF PreflightInv, LineInv
<1>7. QED
  BY <1>5, <1>6

\* The plan itself has no step of a chain but the first.
LEMMA MethodPlanTools ==
    ASSUME NEW r \in Request, NEW tools, NEW d \in ToSet(MethodPlan(r, tools))
    PROVE  d.tool \notin {"get_source_checksum", "estimate_tool_payload",
                          "read_method_source", "read_source"}
<1> DEFINE kept == {call \in ToSet(r.plan) :
                       /\ call.tool \notin SourceNavigation
                       /\ ~Superseded(call, r, tools)}
           resolve == Call("resolve_symbol", r.object)
           summary == Call("get_edt_metadata_summary", r.object)
           rest == Within(r.plan, kept)
           others == WithSummary(rest, r, tools)
<1>1. MethodPlan(r, tools) = <<resolve>> \o others
  BY DEF MethodPlan
<1>2. r.plan \in Seq(Calls) /\ r.object \in Modules \cup {NoModule}
  BY DEF Request
<1>3. <<resolve>> \in Seq(Calls) /\ ToSet(<<resolve>>) = {resolve} /\ summary \in Calls
  BY <1>2, OneCall, CallType, ToolNames, ToSetOfOne
<1>4. rest \in Seq(Calls) /\ ToSet(rest) \subseteq kept
  <2> HIDE DEF kept
  <2>1. QED
    BY <1>2, WithinType, WithinElements
<1>5. others = rest \/ others = Append(rest, summary)
  BY DEF WithSummary
<1>6. resolve.tool = "resolve_symbol" /\ summary.tool = "get_edt_metadata_summary"
  BY DEF Call
<1>7. \A call \in kept : call.tool \notin SourceNavigation
  OBVIOUS
<1> HIDE DEF kept, resolve, summary, rest, others
<1>8. ToSet(Append(rest, summary)) = ToSet(rest) \cup {summary}
  BY <1>3, <1>4, ToSetOfAppend
<1>9. others \in Seq(Calls)
  BY <1>3, <1>4, <1>5, AppendProperties
<1>10. ToSet(<<resolve>> \o others) = ToSet(<<resolve>>) \cup ToSet(others)
  <2>1. PICK one \in Seq(Calls) : one = <<resolve>>
    BY <1>3
  <2>2. ToSet(one \o others) = ToSet(one) \cup ToSet(others)
    BY <1>9, ToSetOfConcat
  <2>3. QED
    BY <2>1, <2>2
<1>11. d = resolve \/ d = summary \/ d \in kept
  BY <1>1, <1>3, <1>4, <1>5, <1>8, <1>10
<1>12. QED
  BY <1>6, <1>7, <1>11 DEF SourceNavigation, V09Automation

LEMMA StartKeepsPreflight ==
    ASSUME TypeInv, task' = [task EXCEPT !.phase = "running"],
           run'.pending = task.plan, run'.calls = <<>>
    PROVE  PreflightInv'
<1>1. /\ task'.request = task.request /\ task'.tools = task.tools /\ Line' = task.plan
      /\ task.request \in Request
  BY PhaseChange, LineOfStart, TaskFields DEF Phases
<1>2. ReadsPreflown'
  <2>1. DOMAIN run'.calls = {}
    OBVIOUS
  <2>2. QED
    BY <2>1 DEF ReadsPreflown, Reads
<1>3. ASSUME Planned' PROVE LineOrdered' /\ OnlyMethodsRead' /\ EstimatesAllow'
  <2>1. ByChain(task.request, task.tools)
    BY <1>1, <1>3 DEF Planned
  <2>2. task.plan = MethodPlan(task.request, task.tools)
    BY <2>1 DEF TypeInv, Normalized, ByChain
  <2>3. \A d \in ToSet(task.plan) :
            d.tool \notin {"get_source_checksum", "estimate_tool_payload",
                           "read_method_source", "read_source"}
    BY <1>1, <2>2, MethodPlanTools
  <2>4. ASSUME NEW m \in Modules \cup {NoModule}, NEW x \in Preflight(m)
        PROVE  Precedes(x, Read(m), Line') /\ Followed(x, Read(m), run'.pending)
    <3>1. x \notin ToSet(task.plan) /\ Read(m) \notin ToSet(task.plan)
      BY <2>3, PreflightCalls
    <3>2. QED
      BY <1>1, <3>1, OrderOfAbsent
  <2>5. LineOrdered'
    BY <2>4 DEF LineOrdered
  <2>6. OnlyMethodsRead'
    BY <1>1, <2>3 DEF OnlyMethodsRead
  <2>7. EstimatesAllow'
    BY DEF EstimatesAllow, ToSet
  <2>8. QED
    BY <2>5, <2>6, <2>7
<1>4. QED
  BY <1>2, <1>3 DEF PreflightInv, LineInv

LEMMA PreflightStays ==
    ASSUME PreflightInv, UNCHANGED run, task'.request = task.request, task'.tools = task.tools,
           task'.phase = "running" => task.phase = "running"
    PROVE  PreflightInv'
<1>1. Planned' = Planned /\ LineOrdered' = LineOrdered /\ OnlyMethodsRead' = OnlyMethodsRead
      /\ EstimatesAllow' = EstimatesAllow /\ ReadsPreflown' = ReadsPreflown
  BY DEF Planned, LineOrdered, OnlyMethodsRead, EstimatesAllow, ReadsPreflown, Line, Reads
<1>2. QED
  BY <1>1 DEF PreflightInv, LineInv

LEMMA IdleIsNotPlanned == (run = Idle => ~Planned) /\ (run' = Idle => ~Planned')
<1>1. Idle.tools = {} /\ "read_method_source" \in V09Automation
  BY DEF Idle, V09Automation
<1>2. QED
  BY <1>1 DEF Planned

LEMMA NextKeepsPreflight == TypeInv /\ PreflightInv /\ [Round]_loop => PreflightInv'
<1> SUFFICES ASSUME TypeInv, PreflightInv, [Round]_loop PROVE PreflightInv'
  OBVIOUS
<1>1. ASSUME UNCHANGED <<task, run>> PROVE PreflightInv'
  BY <1>1, PreflightStays
<1>2. ASSUME run' = Idle PROVE PreflightInv'
  BY <1>2, IdleIsNotPlanned DEF PreflightInv, LineInv, ReadsPreflown
<1>3. ASSUME NEW request \in Requests, CreateTask(request) PROVE PreflightInv'
  BY <1>2, <1>3, CreateTypes
<1>4. ASSUME StartRun PROVE PreflightInv'
  <2>1. CASE task' = [task EXCEPT !.phase = "failed"] /\ run' = run
    BY <2>1, PhaseChange, PreflightStays DEF Phases, Ended
  <2>2. CASE /\ task' = [task EXCEPT !.phase = "running"]
             /\ run'.pending = task.plan /\ run'.calls = <<>>
    BY <2>2, StartKeepsPreflight
  <2>3. QED
    BY <1>4, <2>1, <2>2, StartTypes
<1>5. ASSUME NEW c \in ToSet(run.pending), HitCache(c) \/ Reuse(c) \/ Recorded(c) PROVE PreflightInv'
  BY <1>5, Turn, TurnKeepsPreflight
<1>6. ASSUME Stop PROVE PreflightInv'
  BY <1>6, StopTypes, PhaseChange, PreflightStays DEF Phases, Ended
<1>7. ASSUME Lose PROVE PreflightInv'
  BY <1>2, <1>7, LoseTypes
<1>8. ASSUME Analyze PROVE PreflightInv'
  BY <1>8, AnalyzeTypes, PreflightStays
<1>9. QED
  BY <1>1, <1>2, <1>3, <1>4, <1>5, <1>6, <1>7, <1>8, ChangeTypes, PolicyTypes DEF Round, loop

\* Of a task planned for the chain, the server is asked for a source only when
\* the run has its checksum and an estimate the limits allow.
THEOREM ReadsArePreflighted == Spec => []PreflightBeforeRead
<1>1. PreflightInv => PreflightBeforeRead
  <2> SUFFICES ASSUME PreflightInv, Planned, NEW i \in Reads
               PROVE  \E j \in 1..(i - 1), k \in 1..(i - 1) :
                          LET m == run.calls[i].call.module
                          IN  /\ run.calls[j].call = Call("get_source_checksum", m)
                              /\ run.calls[k].call = Call("estimate_tool_payload", m)
                              /\ run.calls[k].answer.good
    BY DEF PreflightBeforeRead, Planned
  <2>1. Preflown(run.calls, run.calls[i].call, i - 1)
    BY DEF PreflightInv, ReadsPreflown
  <2>2. QED
    BY <2>1 DEF Preflown
<1>2. Init => PreflightInv
  <2> SUFFICES ASSUME Init PROVE PreflightInv
    OBVIOUS
  <2>1. run = Idle
    BY DEF Init
  <2>2. QED
    BY <2>1, IdleIsNotPlanned DEF PreflightInv, LineInv, ReadsPreflown
<1>3. QED
  BY <1>1, <1>2, NextKeepsPreflight, RetrievalRounds, RetrievalTypes, PTL DEF Spec
=============================================================================
