------------------------------ MODULE MCMcpSession ------------------------------
\* Instances of McpSession for TLC.
EXTENDS McpSession, TLC

CONSTANTS k1, k2, k3, owner, agent, garbled

\* The agents' keys are for the scope below the root.
KeysForSub == [c \in AgentCred |-> "/sub"]

CallSymmetry == Permutations(Call)

===============================================================================
