----------------------------- MODULE MCSettles -----------------------------
(* What must come to an end: every job of a server that keeps its database   *)
(* to itself, and every byte that is past its deadline. The two share        *)
(* nothing: a behaviour is one of them, and the other has not begun.         *)
EXTENDS MCReplicas, MCImages

VARIABLE part

settlesVars == <<part, vars, imagesVars>>

SettlesInit ==
    /\ part \in {"jobs", "bytes"}
    /\ Init /\ ImagesInit

SettlesNext ==
    /\ \/ part = "jobs"  /\ Next       /\ UNCHANGED imagesVars
       \/ part = "bytes" /\ ImagesNext /\ UNCHANGED vars
    /\ UNCHANGED part

\* Fairness and ImagesFairness, where there are jobs and where there are images:
\* what can be taken before a part has begun is asked for in that part alone.
SettlesFairness ==
    /\ \A i \in Instance : /\ WF_vars(part = "jobs" /\ StartStep(i))
                           /\ WF_vars(ReapStep(i)) /\ WF_vars(DrainStep(i))
                           /\ WF_vars(Heartbeat(i)) /\ WF_vars(proc[i] = "gone" /\ Expire(i))
                           /\ \A w \in Worker : WF_vars(WorkerStep(i, w))
    /\ \A j \in Job : WF_vars(SubmitStep(j))
    /\ \A w \in Processor : WF_imagesVars(WorkStep(w))
    /\ \A p \in Pruner : /\ WF_imagesVars(PassStep(p))
                         /\ WF_imagesVars(part = "bytes" /\ SelectBlobs(p))
    /\ \A d \in Deleter : WF_imagesVars(DeleteStep(d))

Settles == SettlesInit /\ [][SettlesNext]_settlesVars /\ SettlesFairness
=============================================================================
