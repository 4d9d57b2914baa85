------------------------------ MODULE MCGateway ------------------------------
(* A small instance of LLMGateway for TLC: the routing of the example      *)
(* configuration for two of its backends, and a fallback that is missing   *)
(* from the "backends" section.                                            *)
EXTENDS LLMGateway

CONSTANTS qwen, deepseek

MCRoute == [b \in Backend |-> IF b = qwen THEN <<deepseek>> ELSE <<qwen>>]
=============================================================================
