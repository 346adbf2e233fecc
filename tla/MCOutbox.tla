------------------------------ MODULE MCOutbox ------------------------------
(* Instance of Outbox: three Report calls, two of them under one report id, *)
(* and the two flows the process has, the ticker's drain and the flush of    *)
(* the shutdown.                                                             *)
EXTENDS Outbox, TLC

CONSTANTS c1, c2, k1, k2

KeyPerCall == (c1 :> k1) @@ (c2 :> k2)
SharedKey  == (c1 :> k1) @@ (c2 :> k1)
=============================================================================
