-------------------------- MODULE MCAggregatorFeed --------------------------
(* A small instance of AggregatorFeed.                                     *)
EXTENDS AggregatorFeed

ThreeIndexes == {0, 1, 2}
=============================================================================
