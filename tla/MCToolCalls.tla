---------------------------- MODULE MCToolCalls ----------------------------
(* Small instances of ToolCalls: two steps of one request, two families of  *)
(* which one has no MCP tool.                                               *)
EXTENDS ToolCalls, TLC

CONSTANTS t1, t2, weather, echo

MCRequestOf == [s \in Steps |-> 1]

\* Nobody connected, MCP connected, MCP enabled but not connected, and a custom
\* tool beside.
Registries ==
    {[registry |-> BuiltinTools, mcpEnabled |-> FALSE],
     [registry |-> BuiltinTools \cup MCPTools, mcpEnabled |-> TRUE],
     [registry |-> BuiltinTools, mcpEnabled |-> TRUE],
     [registry |-> {<<weather, "mcp">>, <<Unknown, "unknown">>, <<echo, "builtin">>},
      mcpEnabled |-> TRUE]}

Rankings == {<<>>, <<"mcp">>, <<"mcp", "builtin">>}

\* resolve_tool_policy_strategy: not mcp_first without MCP.
MCConfigs ==
    {[registry |-> r.registry, mcpEnabled |-> r.mcpEnabled, strategy |-> st,
      ranking |-> [f \in Families |-> k], failurePolicy |-> p] :
        r \in Registries, st \in Strategies, k \in Rankings,
        p \in {"retry", "skip", "replan"}}

MCSomeConfigs ==
    {c \in MCConfigs :
        /\ c.strategy = "mcp_first" => c.mcpEnabled
        /\ c.strategy # "reliability_aware" => c.ranking[echo] = <<>>}

MCTexts == {[family |-> weather, mention |-> "none"],
            [family |-> Unknown, mention |-> "none"],
            [family |-> Unknown, mention |-> "mcp"]}

\* The executor has a fallback for the MCP tool.
MCFallbackTools == <<weather, "mcp">> :> <<echo, "builtin">>

MCSymmetry == Permutations(Steps)
=============================================================================
