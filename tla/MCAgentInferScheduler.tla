---------------------- MODULE MCAgentInferScheduler ----------------------
\* Values of the constants of AgentInferScheduler for TLC.
EXTENDS AgentInferScheduler

CONSTANTS i1, b1, b2, w1

\* One interactive call among batch ones.
MCPriority(r) == IF r = i1 THEN 0 ELSE 2
=============================================================================
