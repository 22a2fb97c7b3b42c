---------------------------- MODULE MCCoordinator ----------------------------
(* Coordinator on small instances: the handles that MaxRestarts restarts give *)
(* the panes.                                                                 *)
EXTENDS Coordinator

CONSTANTS A, B

MCHandles == Panes \X (0 .. MaxRestarts)
MCPaneOf == [h \in MCHandles |-> h[1]]

=============================================================================
