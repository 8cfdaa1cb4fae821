------------------------------ MODULE Bindings ------------------------------
(***************************************************************************)
(* What an external code promises its consumers (spec/jobs-and-codes.md,   *)
(* "Unique codes"): one code names one image, one that was submitted under *)
(* it, and what it names changes only when a submission asked to replace   *)
(* it. Deleting an image, or a tenant's claim on it, forgets codes.        *)
(***************************************************************************)
CONSTANTS Code, Image, None

VARIABLES
    asked,      \* <<code, image>> of all submissions
    replacing,  \* those with on_conflict=replace
    bound       \* the image a code names, or None

vars == <<asked, replacing, bound>>

Init ==
    /\ asked = {} /\ replacing = {}
    /\ bound = [c \in Code |-> None]

Ask(c, i) ==
    /\ asked' = asked \union {<<c, i>>}
    /\ replacing' \in {replacing, replacing \union {<<c, i>>}}
    /\ UNCHANGED bound

Bind(c, i) ==
    /\ bound[c] = None /\ <<c, i>> \in asked
    /\ bound' = [bound EXCEPT ![c] = i]
    /\ UNCHANGED <<asked, replacing>>

Replace(c, i) ==
    /\ bound[c] # None /\ <<c, i>> \in replacing
    /\ bound' = [bound EXCEPT ![c] = i]
    /\ UNCHANGED <<asked, replacing>>

Forget(gone) ==
    /\ bound' = [c \in Code |-> IF c \in gone THEN None ELSE bound[c]]
    /\ UNCHANGED <<asked, replacing>>

Next ==
    \/ \E c \in Code, i \in Image : Ask(c, i) \/ Bind(c, i) \/ Replace(c, i)
    \/ \E gone \in SUBSET Code : Forget(gone)

Spec == Init /\ [][Next]_vars
=============================================================================
