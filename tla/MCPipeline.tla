------------------------------ MODULE MCPipeline ------------------------------
(* Pipeline with two pushers and two poppers, for TLC. *)
EXTENDS Pipeline, TLC

CONSTANTS w1, w2, a, b, c, d

TwoEach == (w1 :> <<a, b>>) @@ (w2 :> <<c, d>>)
=============================================================================
