----------------------------- MODULE MCPipeline -----------------------------
(* Pipeline with two targets, which the relay may name in any order.       *)
EXTENDS Pipeline

CONSTANTS t1, t2

TwoTargets == {t1, t2}
=============================================================================
