-------------------------- MODULE MCPagesWorkspace --------------------------
EXTENDS PagesWorkspace
CONSTANTS v1, v2, c1, c2
MCFigured == [v \in Versions |-> IF v = v1 THEN {1, 2} ELSE {}]
MCPagesInit == PagesInit /\ source = v1 /\ code = c1
MCSettings == bundle # NotThere /\ (ReviseSource \/ Upgrade)
MCPagesNext == PagesSteps \/ MCSettings
=============================================================================
