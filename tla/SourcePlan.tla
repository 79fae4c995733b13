----------------------------- MODULE SourcePlan -----------------------------
(***************************************************************************)
(* The retrieval plan of a task (services/source_retrieval_plan.py): what  *)
(* the API makes, when it creates the task, of the steps a client sends.   *)
(* A call is a tool and the module it is about.  The object and the method *)
(* that the code finds in the text of the request are fields here, and the *)
(* object stands for its module.  That a search is for the exact name of   *)
(* the method, and what is sent with a query, is left out.                 *)
(***************************************************************************)
EXTENDS SequencesExt, Filters

CONSTANTS Modules,   \* modules of the 1C configuration
          NoModule   \* no module in particular

ASSUME NoModuleOK == NoModule \notin Modules

Call(tool, module) == [tool |-> tool, module |-> module]

SourceAware == {"code", "audit"}

V09Automation == {"resolve_symbol", "get_source_checksum", "estimate_tool_payload",
                  "read_method_source", "find_references"}

SourceNavigation == V09Automation \cup {"bsl_syntax_help", "read_source", "search_code"}

SourceTools == {"read_source", "read_method_source"}

Uses(plan, tool) == \E i \in DOMAIN plan : plan[i].tool = tool

KnownObject(request) == request.object # NoModule

\* The whole v0.9 chain can be used for this request.
ByChain(request, published) ==
    request.agent \in SourceAware /\ request.method /\ V09Automation \subseteq published

\* The compact summary replaces the structure of the object.
Superseded(call, request, published) ==
    /\ KnownObject(request)
    /\ call.tool = "get_object_structure"
    /\ "get_edt_metadata_summary" \in published

WithSummary(plan, request, published) ==
    IF /\ KnownObject(request)
       /\ "get_edt_metadata_summary" \in published
       /\ ~Uses(plan, "get_edt_metadata_summary")
    THEN Append(plan, Call("get_edt_metadata_summary", request.object))
    ELSE plan

\* _v09_method_plan: the chain itself is added when the symbol is resolved.
MethodPlan(request, published) ==
    LET preserved == {call \in ToSet(request.plan) :
                         /\ call.tool \notin SourceNavigation
                         /\ ~Superseded(call, request, published)}
    IN  <<Call("resolve_symbol", request.object)>>
        \o WithSummary(Within(request.plan, preserved), request, published)

\* The steps kept when the chain cannot be used, and a search for the method
\* where its module is not known.
SearchPlan(request, published) ==
    LET byMethod == request.method /\ "read_method_source" \in published
        direct == byMethod /\ KnownObject(request)
        preserved == {call \in ToSet(request.plan) :
                         /\ ~(request.method /\ call.tool = "bsl_syntax_help")
                         /\ ~(direct /\ call.tool = "search_code")
                         /\ ~(byMethod /\ call.tool = "read_source")
                         /\ ~Superseded(call, request, published)}
        kept == Within(request.plan, preserved)
        searched == IF /\ request.method /\ ~direct
                       /\ ~Uses(kept, "search_code") /\ "search_code" \in published
                    THEN Append(kept, Call("search_code", NoModule))
                    ELSE kept
    IN  WithSummary(searched, request, published)

SourceTool(request, published) ==
    IF request.method /\ "read_method_source" \in published
    THEN "read_method_source" ELSE "read_source"

\* Variant: any tool that reads from the configuration counts as the source.
WithSourceUnlessSearched(plan, request, published) ==
    LET tool == SourceTool(request, published)
    IN  IF tool \in published /\ KnownObject(request)
           /\ ~Uses(plan, tool) /\ ~Uses(plan, "search_code")
        THEN <<Call(tool, request.object)>> \o plan
        ELSE plan

\* The source of a known object is read first, unless the plan reads some.
WithSource(plan, request, published) ==
    LET tool == SourceTool(request, published)
    IN  IF tool \in published /\ KnownObject(request) /\ ~Uses(plan, tool)
        THEN <<Call(tool, request.object)>> \o plan
        ELSE plan

\* ensure_full_source_retrieval
Normalized(request, published) ==
    IF request.agent \notin SourceAware THEN request.plan
    ELSE IF ByChain(request, published) THEN MethodPlan(request, published)
    ELSE WithSource(SearchPlan(request, published), request, published)
=============================================================================
