----------------------------- MODULE MCModelCalls -----------------------------
(* ModelCalls with two tasks that are routed to two models, and prompts that repeat a value *)
(* and differ in their values only.  Client c1 masks; c2 does, or does not.                 *)
EXTENDS ModelCalls, TLC

CONSTANTS judge, discover, m1, m2, v1, v2, c1, c2

MCModelFor  == (judge :> m1 @@ discover :> m2)
MCBound     == (c1 :> <<2, 1>> @@ c2 :> <<1>>)
MCSettings  == {(c1 :> TRUE @@ c2 :> b) : b \in BOOLEAN}
MCPrompts   == {<<v1, v2, v1>>, <<v2, v1, v2>>}
===============================================================================
