----------------------------- MODULE MCWeaving -----------------------------
(* A network for TLC: fan-in with a predecessor used twice, once below a     *)
(* nested parameter node, and a node with two outputs, the second of which   *)
(* is the result.                                                            *)
EXTENDS Weaving

CONSTANTS agent, mix, inner, source

MCPorts == {agent, mix, inner, source}
MCLead == [p \in MCPorts |-> CASE p = agent -> <<mix>>
                               [] p = mix -> <<inner, source>>
                               [] p = inner -> <<source>>
                               [] p = source -> << >>]
MCKind == [p \in MCPorts |-> IF p \in {agent, inner} THEN "param" ELSE "media"]
MCOuts == [p \in MCPorts |-> IF p = mix THEN 2 ELSE 1]
MCResultSlot == [p \in MCPorts |-> IF p = mix THEN 2 ELSE 1]
MCSegment == [p \in MCPorts |-> CASE p = agent -> 1 [] p = inner -> 2 [] OTHER -> 0]
=============================================================================
