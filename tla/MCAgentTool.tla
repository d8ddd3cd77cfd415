----------------------------- MODULE MCAgentTool -----------------------------
(***************************************************************************)
(* A small instance of AgentTool: two calls, of a page, of a page named    *)
(* with "..", of a page named as a tool is, and of two tools, with entries *)
(* for what lies below one path and for one tool.                          *)
(***************************************************************************)
EXTENDS AgentTool, TLC

CONSTANTS c1, c2, quote, report1

Page == <<"shop", "v1", "data">>
Server == <<"shop", "mcp">>

Fetch(url, fragment) == [kind |-> "fetch", url |-> url, fragment |-> fragment, run |-> NoTool]

Tool(name) == [kind |-> "mcp", url |-> Server, fragment |-> NoTool, run |-> name]

MCAsks ==
    {Fetch(Page, NoTool), Fetch(<<"shop", "v1", "..", "admin">>, NoTool),
     Fetch(Server, quote), Tool(quote), Tool(report1)}

MCEntries ==
    {[url |-> <<"shop", "v1">>, prefix |-> TRUE, tool |-> NoTool],
     [url |-> Server, prefix |-> FALSE, tool |-> quote]}

MCDestinations == {<<"elsewhere", "v1">>}

Symmetry == Permutations(Calls)
=============================================================================
