----------------------------- MODULE MCMcpCalls -----------------------------
EXTENDS McpCalls, TLC
CONSTANTS here, known, other
OneProcess == [t \in Tasks |-> here]
MCGrants == {{<<"client", known>>, <<"server", known>>, <<"server", other>>}}
AnyTask == Permutations(Tasks)
=============================================================================
