---------------------------- MODULE MCScriptCalls ----------------------------
(* The instances of ScriptCalls for TLC: calls that have all one size, as  *)
(* those of AI players, and calls of two sizes, as those of scenarios.     *)
EXTENDS ScriptCalls, TLC

CONSTANTS step, goal, rule   \* calls; step gives no value

OneSize  == step :> 1 @@ goal :> 1 @@ rule :> 1
TwoSizes == step :> 1 @@ goal :> 2 @@ rule :> 2
==============================================================================
