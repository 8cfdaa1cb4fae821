------------------------------ MODULE MCImages ------------------------------
EXTENDS Images, TLC

Ask(t, asks, force, keep) ==
    [tenant |-> t, asks |-> asks, force |-> force, keep |-> keep]

MCRequest == {Ask(Global, {"code"}, TRUE, FALSE), Ask(Global, {}, FALSE, TRUE)}
             \union {Ask(t, {"tag"}, FALSE, FALSE) : t \in Tenant \ {Global}}

AlikeImages == Permutations(Processor)
=============================================================================
