------------------------- MODULE MC_BatchCoordinator -------------------------
EXTENDS BatchCoordinator, TLC

CONSTANTS p1

MCPeers == {p1}

=============================================================================
