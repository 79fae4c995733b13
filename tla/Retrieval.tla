----------------------------- MODULE Retrieval -----------------------------
(***************************************************************************)
(* How a task comes to the source it is answered from                      *)
(* (services/retrieval.py, agents/executor.py): tasks one after the other, *)
(* the runs of a worker over the plan of each, the calls that navigation   *)
(* adds to the plan while it is consumed, the answers a retry reuses, and  *)
(* the source cache that a worker process keeps between tasks.  Meanwhile  *)
(* the modules of the configuration are edited and the policy is changed.  *)
(*                                                                         *)
(* One worker process is enough: another one differs only in what its      *)
(* cache holds, and a crash may empty the cache.  Every error the loop     *)
(* raises ends the task (worker.py:341-364), so errors that any call can   *)
(* meet, and those of a guard, are one action, Stop; any other exception   *)
(* leaves the task to recovery, as a crash does: Lose.                     *)
(***************************************************************************)
EXTENDS Naturals, FiniteSetsExt, SourcePlan

CONSTANTS Texts,       \* what a module may contain; a text has as many lines as its number
          Requests,    \* what a task may ask: agent, method, object, plan
          Toolsets,    \* policies: the tools each one publishes
          MaxCalls,    \* max_tool_calls
          MaxReads,    \* max_methods_read
          MaxEntries,  \* SourcePayloadCache.max_entries
          MaxBytes,    \* SourcePayloadCache.max_bytes
          Edited,      \* bound: the modules that change meanwhile
          MaxTasks,    \* bound on tasks
          MaxFaults    \* bound on lost runs and policy changes

Tools == SourceNavigation \cup {"get_object_structure", "get_edt_metadata_summary",
                                "validate_query"}
Calls == [tool : Tools, module : Modules \cup {NoModule}]

ASSUME ConstantsOK ==
    /\ Texts \subseteq Nat \ {0} /\ Edited \subseteq Modules
    /\ Requests \subseteq [agent : SourceAware \cup {"other"}, method : BOOLEAN,
                            object : Modules \cup {NoModule}, plan : Seq(Calls)]
    /\ {MaxCalls, MaxReads, MaxEntries, MaxBytes, MaxTasks, MaxFaults} \subseteq Nat

VARIABLES
    text,       \* what each module contains now
    seen,       \* history: what it contained since the task was created
    published,  \* the tools the policy publishes now
    task,       \* the task
    stored,     \* its completed tool_calls rows that a server answered
    run,        \* the run: tools of its policy, rows loaded, queue, calls made
    cache,      \* the source cache of the process
    mixed,      \* history: modules cached under the checksum of another text
    faults,     \* faults so far
    reply,      \* the answer the server just gave, with its call, until its row is there
    asked,      \* history: the calls of this task that the server answered
    wasted      \* history: those of them whose run was lost before the row was there

server == <<reply, asked, wasted>>
vars == <<text, seen, published, task, stored, run, cache, mixed, faults, server>>

Idle == [tools |-> {}, known |-> 0, pending |-> <<>>, calls |-> <<>>]

NoTask == [no |-> 0, phase |-> "ended", tools |-> {}, plan |-> <<>>, kept |-> {},
           request |-> [agent |-> "other", method |-> FALSE, object |-> NoModule, plan |-> <<>>]]

Init ==
    /\ text \in [Modules -> Texts]
    /\ seen = [m \in Modules |-> {}]
    /\ published \in Toolsets
    /\ task = NoTask
    /\ stored = <<>>
    /\ run = Idle
    /\ cache = [items |-> <<>>, bytes |-> 0]
    /\ mixed = {}
    /\ faults = 0
    /\ reply = <<>> /\ asked = <<>> /\ wasted = <<>>

-----------------------------------------------------------------------------
Ended == {"ended", "failed", "insufficient", "answered"}

ModuleChanges(m) ==
    /\ \E t \in Texts \ {text[m]} :
           /\ text' = [text EXCEPT ![m] = t]
           /\ seen' = [seen EXCEPT ![m] = @ \cup {t}]
    /\ UNCHANGED <<published, task, stored, run, cache, mixed, faults, server>>

PolicyChanges ==
    /\ faults < MaxFaults
    /\ published' \in Toolsets \ {published}
    /\ faults' = faults + 1
    /\ UNCHANGED <<text, seen, task, stored, run, cache, mixed, server>>

CreateTask(request) ==
    /\ task.phase \in Ended
    /\ task.no < MaxTasks
    /\ task' = [no |-> task.no + 1, phase |-> "waiting", request |-> request,
                plan |-> Normalized(request, published), tools |-> published, kept |-> {}]
    /\ seen' = [m \in Modules |-> {text[m]}]
    /\ stored' = <<>>
    /\ run' = Idle
    /\ reply' = <<>> /\ asked' = <<>> /\ wasted' = <<>>
    /\ UNCHANGED <<text, published, cache, mixed, faults>>

\* load_completed_tool_calls and the head of retrieve_task_context.
StartRun ==
    /\ task.phase = "waiting"
    /\ IF Len(task.plan) > MaxCalls
       THEN task' = [task EXCEPT !.phase = "failed"] /\ run' = run
       ELSE /\ task' = [task EXCEPT !.phase = "running"]
            /\ run' = [tools |-> published, known |-> Len(stored),
                       pending |-> task.plan, calls |-> <<>>]
    /\ UNCHANGED <<text, seen, published, stored, cache, mixed, faults, server>>

-----------------------------------------------------------------------------
Navigates == task.request.agent \in SourceAware /\ task.request.method

\* Which of the published tools the capabilities of the agent allow.
Allowed ==
    IF task.request.agent \in SourceAware
    THEN SourceNavigation \cup {"get_object_structure", "get_edt_metadata_summary"}
    ELSE {"validate_query"}

NoAnswer == [found |-> NoModule, text |-> 0, good |-> TRUE]

\* One module has the method, or none or several: then no module is found.
Named == {[NoAnswer EXCEPT !.found = m] : m \in Modules \cup {NoModule}}

\* A source is good if it is complete and has the method asked for.
SourceOf(m) == {[NoAnswer EXCEPT !.text = text[m], !.good = b] : b \in BOOLEAN}

\* What the server may answer.  A checksum may be missing, and of no module
\* there is neither checksum nor source; an estimate is good if the limits
\* allow it.
Answers(c) ==
    CASE c.tool \in {"resolve_symbol", "search_code"} -> Named
      [] c.tool = "get_source_checksum" ->
             {[NoAnswer EXCEPT !.text = t] :
                 t \in {0} \cup {text[m] : m \in Modules \cap {c.module}}}
      [] c.tool = "estimate_tool_payload" ->
             {[NoAnswer EXCEPT !.good = b] : b \in BOOLEAN}
      [] c.tool \in SourceTools -> UNION {SourceOf(m) : m \in Modules \cap {c.module}}
      [] OTHER -> {NoAnswer}

\* source_checksums: the last checksum this run has of a module, or 0.
Checksum(m) ==
    LET sums == {i \in DOMAIN run.calls :
                    /\ run.calls[i].call = Call("get_source_checksum", m)
                    /\ run.calls[i].answer.text # 0}
    IN  IF ~Navigates \/ sums = {} THEN 0 ELSE run.calls[Max(sums)].answer.text

\* Rows of earlier runs that answer a call; the last one counts.
Rows(c) == {i \in 1..run.known : stored[i].call = c}

Reads == {i \in DOMAIN run.calls : run.calls[i].call.tool \in SourceTools}

-----------------------------------------------------------------------------
\* SourcePayloadCache

\* Variant: the checksum does not belong to the key.
CachedByName(c) ==
    {i \in DOMAIN cache.items :
        /\ c.tool = "read_method_source"
        /\ Checksum(c.module) # 0
        /\ cache.items[i].module = c.module}

\* The entry that answers a call, if any.
Cached(c) ==
    {i \in DOMAIN cache.items :
        /\ c.tool = "read_method_source"
        /\ cache.items[i].module = c.module
        /\ cache.items[i].checksum = Checksum(c.module)}

\* Variant: an answer is kept although the run has no checksum.
KeptUnsummed(c) == c.tool = "read_method_source"

\* The answers to this call are kept.
Kept(c) == c.tool = "read_method_source" /\ Checksum(c.module) # 0

Bytes(items) == SumFunction([i \in DOMAIN items |-> items[i].answer.text])

\* Variant: one entry makes room, whatever its size.
EvictOne(items, bytes) ==
    IF Len(items) > MaxEntries \/ bytes > MaxBytes
    THEN [items |-> Tail(items), bytes |-> bytes - Head(items).answer.text]
    ELSE [items |-> items, bytes |-> bytes]

\* The oldest entries go until the rest fits.
Evict(items, bytes) ==
    LET Left(k) == bytes - Bytes(SubSeq(items, 1, k))
        enough == {k \in 0..Len(items) : Len(items) - k <= MaxEntries /\ Left(k) <= MaxBytes}
    IN  [items |-> SubSeq(items, Min(enough) + 1, Len(items)), bytes |-> Left(Min(enough))]

Put(m, checksum, answer) ==
    IF answer.text > MaxBytes THEN cache
    ELSE Evict(Append(cache.items, [module |-> m, checksum |-> checksum, answer |-> answer]),
               cache.bytes + answer.text)

-----------------------------------------------------------------------------
\* The steps that lead to the source of a module, once it is known.
Chain(m) ==
    IF V09Automation \subseteq run.tools
    THEN <<Call("get_source_checksum", m), Call("estimate_tool_payload", m),
           Call("read_method_source", m), Call("find_references", NoModule)>>
    ELSE <<Call(SourceTool(task.request, run.tools), m)>>

\* handle_navigation_output
Navigation(c, answer) ==
    IF ~Navigates \/ c.tool \notin {"resolve_symbol", "search_code"} THEN <<>>
    ELSE IF answer.found # NoModule THEN Chain(answer.found)
    ELSE IF c.tool = "resolve_symbol" THEN <<Call("search_code", NoModule)>>
    ELSE <<>>

Made(entries) == [i \in DOMAIN entries |-> entries[i].call]

\* Variant: a step is new unless it is still in the queue.
UnlessQueued(steps, calls, queue) ==
    Within(steps, {c \in ToSet(steps) : /\ c.tool \in run.tools \cap Allowed
                                        /\ c \notin ToSet(queue)})

\* Steps that are neither in the queue nor among the calls.
New(steps, calls, queue) ==
    Within(steps, {c \in ToSet(steps) : /\ c.tool \in run.tools \cap Allowed
                                        /\ c \notin ToSet(queue)
                                        /\ c \notin ToSet(Made(calls))})

\* Variant: the limit is for the calls made, whatever is in the queue.
OverCallsMade(calls, queue) == Len(calls) > MaxCalls
OverLimit(calls, queue) == Len(calls) + Len(queue) > MaxCalls

\* Variants: steps that were found replace the queue, or go to its end.
EnqueueInstead(steps, queue) == IF steps = <<>> THEN queue ELSE steps
EnqueueReversed(steps, queue) == Reverse(steps) \o queue

Enqueue(steps, queue) == steps \o queue

\* The call at the head of the queue is answered, and what it found is queued.
Answered(c, answer, via) ==
    LET calls == Append(run.calls, [call |-> c, answer |-> answer, via |-> via])
        rest == Tail(run.pending)
        queue == Enqueue(New(Navigation(c, answer), calls, rest), rest)
        tooLarge == Navigates /\ c.tool = "estimate_tool_payload" /\ ~answer.good
        refused == tooLarge \/ OverLimit(calls, queue)
    IN  /\ run' = [run EXCEPT !.calls = calls, !.pending = IF refused THEN rest ELSE queue]
        /\ task' = IF refused THEN [task EXCEPT !.phase = "failed"] ELSE task

\* The head of the queue, if no guard of the loop refuses it.
Takes(c) ==
    /\ task.phase = "running"
    /\ run.pending # <<>>
    /\ c = Head(run.pending)
    /\ c.tool \in run.tools \cap Allowed
    /\ c.tool \in SourceTools => Cardinality(Reads) < MaxReads

HitCache(c) ==
    /\ Takes(c) /\ reply = <<>>
    /\ \E i \in Cached(c) :
           LET item == cache.items[i]
           IN  /\ run' = [run EXCEPT !.pending = Tail(@), !.calls =
                             Append(@, [call |-> c, answer |-> item.answer, via |-> "cache"])]
               /\ cache' = [cache EXCEPT !.items = Append(RemoveAt(@, i), item)]
    /\ UNCHANGED <<text, seen, published, task, stored, mixed, faults, server>>

Reuse(c) ==
    /\ Takes(c) /\ reply = <<>>
    /\ Cached(c) = {} /\ Rows(c) # {}
    /\ Answered(c, stored[Max(Rows(c))].answer, "reused")
    /\ UNCHANGED <<text, seen, published, stored, cache, mixed, faults, server>>

\* The server answers.  Until the row is committed the answer is only in the
\* run, and lost with it.
Ask(c) ==
    /\ Takes(c) /\ reply = <<>>
    /\ Cached(c) = {} /\ Rows(c) = {}
    /\ \E answer \in Answers(c) : reply' = <<[call |-> c, answer |-> answer]>>
    /\ asked' = Append(asked, c)
    /\ UNCHANGED <<text, seen, published, task, stored, run, cache, mixed, faults, wasted>>

\* The row is committed, the answer is cached and navigation looks at it.  A
\* run lost between these leaves what one lost after them does, but for the
\* newest entry of the cache.
Record ==
    /\ task.phase = "running" /\ reply # <<>>
    /\ LET c == Head(reply).call
           answer == Head(reply).answer
       IN  /\ Answered(c, answer, "server")
           /\ stored' = Append(stored, [call |-> c, answer |-> answer])
           /\ cache' = IF Kept(c) THEN Put(c.module, Checksum(c.module), answer) ELSE cache
           /\ mixed' = IF Kept(c) /\ Checksum(c.module) # answer.text
                       THEN mixed \cup {c.module} ELSE mixed
    /\ reply' = <<>>
    /\ UNCHANGED <<text, seen, published, faults, asked, wasted>>

\* A guard refuses the next call, the call fails, its result is too large, a
\* budget or the deadline is spent, the task is cancelled, or the model fails.
Stop ==
    /\ task.phase = "running"
    /\ task' = [task EXCEPT !.phase = "failed"]
    /\ UNCHANGED <<text, seen, published, stored, run, cache, mixed, faults, server>>

\* The run is lost and the task recovered (module Worker); the process, and
\* with it the cache, may survive.
Lose ==
    /\ faults < MaxFaults
    /\ task.phase = "running"
    /\ task' = [task EXCEPT !.phase = "waiting"]
    /\ run' = Idle
    /\ cache' \in {cache, [items |-> <<>>, bytes |-> 0]}
    /\ faults' = faults + 1
    /\ wasted' = wasted \o Made(reply)
    /\ reply' = <<>>
    /\ UNCHANGED <<text, seen, published, stored, mixed, asked>>

-----------------------------------------------------------------------------
\* The modules whose source the run has in full, and that source.
Documents == {run.calls[i].call.module : i \in {k \in Reads : run.calls[k].answer.good}}

Document(m) ==
    LET reads == {i \in Reads : run.calls[i].call.module = m /\ run.calls[i].answer.good}
    IN  run.calls[Max(reads)].answer.text

\* A report names a line of a module, or of a name that fits no module.
Claims == [module : Modules \cup {NoModule}, line : Texts]

\* Variant: a line is good if some document is long enough.
ConfirmedBySome(claim) == Documents = {} \/ \E m \in Documents : claim.line <= Document(m)

\* _validate_source_evidence: a line of the document that is named, or of the
\* only one there is.  Without any document the report is left as it is.
Confirmed(claim) ==
    \/ Documents = {}
    \/ claim.module \in Documents /\ claim.line <= Document(claim.module)
    \/ /\ claim.module \notin Documents /\ Cardinality(Documents) = 1
       /\ \A m \in Documents : claim.line <= Document(m)

\* The whole source, or that of the method, was not received.
Insufficient == (Navigates \/ task.request.agent = "audit") /\ Documents = {}

\* execute_agent: without the source it needs, a source-aware agent reports a
\* failure and the model is not called.
Analyze ==
    /\ task.phase = "running"
    /\ run.pending = <<>>
    /\ IF Insufficient
       THEN task' = [task EXCEPT !.phase = "insufficient"]
       ELSE \E claim \in Claims :
                task' = [task EXCEPT !.phase = "answered",
                                     !.kept = {c \in {claim} : Confirmed(c)}]
    /\ UNCHANGED <<text, seen, published, stored, run, cache, mixed, faults, server>>

Next ==
    \/ \E m \in Edited : ModuleChanges(m)
    \/ PolicyChanges
    \/ \E request \in Requests : CreateTask(request)
    \/ StartRun
    \/ \E c \in ToSet(run.pending) : HitCache(c) \/ Reuse(c) \/ Ask(c)
    \/ Record
    \/ Stop
    \/ Lose
    \/ Analyze

Spec == Init /\ [][Next]_vars

-----------------------------------------------------------------------------
AnswerSet == [found : Modules \cup {NoModule}, text : Texts \cup {0}, good : BOOLEAN]

TypeOK ==
    /\ text \in [Modules -> Texts]
    /\ seen \in [Modules -> SUBSET Texts]
    /\ published \in Toolsets
    /\ task.no \in 0..MaxTasks
    /\ task.phase \in Ended \cup {"waiting", "running"}
    /\ task.plan \in Seq(Calls)
    /\ task.kept \subseteq Claims
    /\ stored \in Seq([call : Calls, answer : AnswerSet])
    /\ run.known \in 0..Len(stored)
    /\ run.pending \in Seq(Calls)
    /\ run.calls \in Seq([call : Calls, answer : AnswerSet, via : {"server", "reused", "cache"}])
    /\ cache.items \in Seq([module : Modules, checksum : Texts, answer : AnswerSet])
    /\ mixed \subseteq Modules
    /\ faults \in 0..MaxFaults
    /\ reply \in Seq([call : Calls, answer : AnswerSet]) /\ Len(reply) <= 1
    /\ asked \in Seq(Calls) /\ wasted \in Seq(Calls)

\* Every source a run holds is a text the module had since the task was
\* created, whatever was cached for other tasks or kept from a lost run,
\* unless it changed between its checksum and its read, in this task or in
\* one before.
SourceIsCurrent ==
    \A i \in Reads :
        LET c == run.calls[i].call
        IN  run.calls[i].answer.text \in seen[c.module] \cup
                IF c.module \in mixed THEN Texts ELSE {}

\* What a report is left to say of a module the run read in full is a line
\* of a text the module had since the task was created, with the same
\* allowance.
EvidenceIsInSource ==
    \A claim \in task.kept :
        claim.module \in Documents =>
            claim.module \in mixed \/ \E t \in seen[claim.module] : claim.line <= t

\* A task planned for the v0.9 chain asks the server for a source only after
\* this run has its checksum and an estimate that the limits allow, whether
\* they are new or kept from a lost run.
PreflightBeforeRead ==
    ByChain(task.request, task.tools) /\ V09Automation \subseteq run.tools =>
        \A i \in Reads : run.calls[i].via = "server" =>
            \E j \in 1..(i - 1), k \in 1..(i - 1) :
                LET m == run.calls[i].call.module
                IN  /\ run.calls[j].call = Call("get_source_checksum", m)
                    /\ run.calls[k].call = Call("estimate_tool_payload", m)
                    /\ run.calls[k].answer.good

\* However navigation extends the queue, what a run has done and has still to
\* do stays within the limit on calls.
CallsWithinLimit == task.phase = "running" => Len(run.calls) + Len(run.pending) <= MaxCalls

\* Over all runs of a task, the server answers no call more often than the
\* plan has it, and none that navigation adds more than once; only a run lost
\* between an answer and its row makes it answer that call once more.
AskedOnce ==
    \A c \in ToSet(asked) :
        Times(c, asked) <= Max({1, Times(c, task.plan)}) + Times(c, wasted)

\* A retrieval that ends well has made every call of the plan, in its order;
\* what navigation found came in between.
PlanIsFollowed ==
    task.phase \in {"insufficient", "answered"} =>
        Within(Made(run.calls), ToSet(task.plan)) = task.plan

\* An agent that answers from source has made a call that reads some, be its
\* answer complete or not, when the request names an object and a source tool
\* was published, whatever plan the client sent.
ObjectIsRead ==
    /\ task.phase = "answered"
    /\ task.request.agent \in SourceAware
    /\ KnownObject(task.request)
    /\ SourceTool(task.request, task.tools) \in task.tools
    => Reads # {}

\* The byte count of the cache is that of its entries, and both limits hold
\* after any sequence of insertions, hits and evictions.
CacheIsBounded ==
    /\ cache.bytes = Bytes(cache.items)
    /\ cache.bytes <= MaxBytes
    /\ Len(cache.items) <= MaxEntries
    /\ \A i, j \in DOMAIN cache.items :
           /\ cache.items[i].module = cache.items[j].module
           /\ cache.items[i].checksum = cache.items[j].checksum
           => i = j
=============================================================================
