---------------------------- MODULE MCRateEvents ----------------------------
(* Values of RateEvents' constants for TLC. *)
EXTENDS RateEvents

CONSTANT OneLimit

MCLimit == [b \in Bucket |-> OneLimit]
=============================================================================
