------------------------- MODULE MCLoweringPipeline -------------------------
(* The bodies of MCMemOpLowering through LowerMemOps, ReplaceBarrier and   *)
(* RemoveUndefFuncCalls.  A body of three calls and a use has at most ten  *)
(* instructions after lowering (three f80 accesses of three each, and the  *)
(* use).                                                                  *)
EXTENDS LoweringPipeline, MCMemOpLowering

MCMaxBody == 10
=============================================================================
