----------------------------- MODULE MCTaskBoard -----------------------------
(* TaskBoard on a small instance: pane A has two handles (a2 was issued to it  *)
(* after a restart), pane B has one.                                           *)
EXTENDS TaskBoard, TLC

CONSTANTS a1, a2, b1, A, B

MCHandles == {a1, a2, b1}
MCPaneOf == a1 :> A @@ a2 :> A @@ b1 :> B

=============================================================================
