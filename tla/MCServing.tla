----------------------------- MODULE MCServing -----------------------------
(* What keeps a server serving: starts on one database, jobs that replicas   *)
(* take over from each other, the rate limiter, the pid file of a daemon and *)
(* the sizes of its pools. They share nothing: a behaviour is one of them,   *)
(* and the others have not begun.                                            *)
EXTENDS MCReplicas, Schema, MCRateEvents, Daemon, Sizing

VARIABLE part

Parts == {"queue", "schema", "limiter", "daemon", "sizes"}

servingVars ==
    <<part, vars, schemaVars, limiterVars, daemonVars, sizingVars>>

ServingInit ==
    /\ part \in Parts
    /\ Init /\ SchemaInit /\ LimiterInit /\ DaemonInit /\ SizingInit
    /\ part # "schema" => backend = "mongo" /\ index = "none" /\ labelled = {}

ServingNext ==
    /\ \/ /\ part = "queue" /\ Next
          /\ UNCHANGED <<schemaVars, limiterVars, daemonVars, sizingVars>>
       \/ /\ part = "schema" /\ SchemaNext
          /\ UNCHANGED <<vars, limiterVars, daemonVars, sizingVars>>
       \/ /\ part = "limiter" /\ LimiterNext
          /\ UNCHANGED <<vars, schemaVars, daemonVars, sizingVars>>
       \/ /\ part = "daemon" /\ DaemonNext
          /\ UNCHANGED <<vars, schemaVars, limiterVars, sizingVars>>
       \/ /\ part = "sizes" /\ SizingNext
          /\ UNCHANGED <<vars, schemaVars, limiterVars, daemonVars>>
    /\ UNCHANGED part

\* Fairness, SchemaFairness and LimiterFairness: what can be taken before a part
\* has begun is asked for in that part alone.
Limiting(step) == part = "limiter" /\ step

ServingFairness ==
    /\ \A i \in Instance : /\ WF_vars(part = "queue" /\ StartStep(i))
                           /\ WF_vars(ReapStep(i)) /\ WF_vars(DrainStep(i))
                           /\ WF_vars(Heartbeat(i)) /\ WF_vars(proc[i] = "gone" /\ Expire(i))
                           /\ \A w \in Worker : WF_vars(WorkerStep(i, w))
    /\ \A j \in Job : WF_vars(SubmitStep(j))
    /\ SchemaFairness
    /\ WF_limiterVars(Limiting(Tick)) /\ WF_limiterVars(Limiting(Sweep))
    /\ \A t \in Thread : WF_limiterVars(Limiting(Count(t)))
    /\ \A t \in Flusher : WF_limiterVars(Limiting(Flush(t)))

Serving == ServingInit /\ [][ServingNext]_servingVars /\ ServingFairness

\* The variables of every part keep their types.
ServingTypeOK ==
    TypeOK /\ SchemaTypeOK /\ LimiterTypeOK /\ DaemonTypeOK /\ SizingTypeOK
=============================================================================
