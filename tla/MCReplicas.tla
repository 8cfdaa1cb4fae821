----------------------------- MODULE MCReplicas -----------------------------
(* Values of Replicas' constants for TLC. *)
EXTENDS Replicas, TLC

CONSTANT Big    \* uploads larger than MaxBytes

MCSize == [j \in Job |-> CASE j \in Big -> MaxBytes + 1
                           [] j \in Uploads \ Big -> 1
                           [] OTHER -> 0]

Alike == Permutations(Uploads \ Big) \union Permutations(Job \ Uploads)
         \union Permutations(Worker)
=============================================================================
