--------------------------- MODULE MCRunOwnership ---------------------------
(* Instances of RunOwnership for TLC: two runners of one process and a third *)
(* runner in another process.                                                *)
EXTENDS RunOwnership, TLC

CONSTANTS r1, r2, r3, p1, p2

TwoProcesses == r1 :> p1 @@ r2 :> p1 @@ r3 :> p2
=============================================================================
