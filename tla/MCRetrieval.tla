---------------------------- MODULE MCRetrieval ----------------------------
EXTENDS Retrieval
CONSTANTS m1, m2

Legacy == {"search_code", "read_source", "get_object_structure", "get_edt_metadata_summary"}
\* The chain but for its last tool.
Partial == Legacy \cup (V09Automation \ {"find_references"})
Full == Legacy \cup V09Automation \cup {"validate_query"}
MCToolsets == {Legacy, Partial, Full}

Ask4(agent, method, object, plan) ==
    [agent |-> agent, method |-> method, object |-> object, plan |-> plan]

Search == Call("search_code", NoModule)
Structure == Call("get_object_structure", m1)
Summary(m) == Call("get_edt_metadata_summary", m)
Source(m) == Call("read_source", m)
Method(m) == Call("read_method_source", m)
Query == Call("validate_query", NoModule)
Sum(m) == Call("get_source_checksum", m)

MCRequests ==
    {Ask4("audit", TRUE, m1, <<Summary(m1), Summary(m2), Search>>),
     Ask4("code", TRUE, NoModule, <<Sum(m1), Method(m1)>>),
     Ask4("audit", FALSE, m1, <<Structure>>),
     Ask4("code", FALSE, m1, <<Search>>),
     Ask4("code", FALSE, NoModule, <<Source(m1), Source(m2), Source(m1)>>),
     Ask4("other", FALSE, m1, <<Query>>),
     Ask4("other", FALSE, NoModule, <<Query, Query, Query, Query, Query, Query, Query, Query>>)}
=============================================================================
