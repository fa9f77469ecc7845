----------------------------- MODULE ToolPolicy -----------------------------
(***************************************************************************)
(* ToolPolicyEngine.decide (tools/policy/engine.py): which tool a step is  *)
(* routed to, and which one replaces it when it fails.                     *)
(*                                                                         *)
(* A tool is <<family, provider>>, as FAMILY_BY_TOOL and tool_provider     *)
(* have it; a tool of neither table is <<Unknown, ...>>.  NoTool is None.  *)
(* A decision never has more than one fallback candidate.  Confidence and  *)
(* reason, which nothing reads, are left out.                              *)
(***************************************************************************)
EXTENDS Naturals, Sequences

CONSTANTS Families,    \* weather, map, budget, echo
          MCPFamilies  \* those of MCP_BY_FAMILY

ASSUME FamiliesAssumption == MCPFamilies \subseteq Families /\ "unknown" \notin Families

Unknown == "unknown"
NoTool == <<Unknown, "none">>
CustomTools == {<<Unknown, "unknown">>, <<Unknown, "mcp">>}
BuiltinTools == Families \X {"builtin"}
MCPTools == (MCPFamilies \X {"mcp"}) \cup {<<Unknown, "mcp">>}
Tools == BuiltinTools \cup MCPTools \cup CustomTools

Family(tool) == tool[1]
Provider(tool) == tool[2]

BuiltinOf(family) == IF family \in Families THEN <<family, "builtin">> ELSE NoTool
MCPOf(family) == IF family \in MCPFamilies THEN <<family, "mcp">> ELSE NoTool

Strategies == {"planner_hint_first", "builtin_first", "mcp_first", "reliability_aware"}

-----------------------------------------------------------------------------
\* A proposal is <<preferred, fallback>>.

\* The rest of _planner_hint_first is for a step without a registered hint.
PlannerHintFirst(config, hint, family, mention) ==
    IF hint \in config.registry
    THEN <<hint, IF Provider(hint) = "builtin" THEN MCPOf(family) ELSE BuiltinOf(family)>>
    ELSE IF mention = "mcp" THEN <<MCPOf(family), BuiltinOf(family)>>
    ELSE IF mention = "local" \/ family # Unknown THEN <<BuiltinOf(family), MCPOf(family)>>
    ELSE <<hint, NoTool>>

ProviderFirst(config, preferred, fallback) ==
    IF Provider(preferred) = "mcp" /\ ~config.mcpEnabled
    THEN <<fallback, NoTool>>
    ELSE <<preferred, fallback>>

\* config.ranking[f] lists the providers that have a score in family f, the
\* best one first; equal scores keep the builtin tool before the other.
ReliabilityAware(config, family) ==
    LET ToolOf(provider) == IF provider = "builtin" THEN BuiltinOf(family) ELSE MCPOf(family)
        scored == IF family = Unknown THEN {}
                  ELSE {k \in DOMAIN config.ranking[family] :
                            ToolOf(config.ranking[family][k]) # NoTool}
        Best(S) == ToolOf(config.ranking[family][CHOOSE k \in S : \A j \in S : k <= j])
        others == {k \in scored : \E j \in scored : j < k}
    IN CASE scored = {} -> ProviderFirst(config, BuiltinOf(family), MCPOf(family))
         [] scored # {} -> <<Best(scored), IF others = {} THEN NoTool ELSE Best(others)>>

Proposal(config, hint, family, mention) ==
    CASE config.strategy = "planner_hint_first" ->
            PlannerHintFirst(config, hint, family, mention)
      [] config.strategy = "builtin_first" ->
            ProviderFirst(config, BuiltinOf(family), MCPOf(family))
      [] config.strategy = "mcp_first" ->
            ProviderFirst(config, MCPOf(family), BuiltinOf(family))
      [] config.strategy = "reliability_aware" -> ReliabilityAware(config, family)

\* The tests of _pick_available.
Usable(config, tool) ==
    /\ tool \in config.registry
    /\ Provider(tool) = "mcp" => config.mcpEnabled

\* Seeded fault: the alternative of the family of the text.
FamilyOfText(hint, text) == IF text.family # Unknown THEN text.family ELSE Family(hint)

\* tool_family, and _infer_family_from_text where the hint has none.
FamilyOf(hint, text) == IF Family(hint) # Unknown THEN Family(hint) ELSE text.family

\* decide.
Decide(config, hint, text) ==
    LET proposal == Proposal(config, hint, FamilyOf(hint, text), text.mention)
        selected ==
            CASE Usable(config, proposal[1]) -> proposal[1]
              [] ~Usable(config, proposal[1]) /\ Usable(config, proposal[2]) -> proposal[2]
              [] OTHER -> IF hint \in config.registry THEN hint ELSE NoTool
        kept == selected = NoTool \/ (proposal[2] # selected /\ proposal[2] \in config.registry)
    IN [selected |-> selected,
        fallback |-> IF kept THEN proposal[2] ELSE NoTool,
        used     |-> FALSE]
=============================================================================
