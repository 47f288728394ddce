---------------------------- MODULE TaskLifecycle ----------------------------
(***************************************************************************)
(* What the service promises a client about its tasks, with every worker,  *)
(* queue and retry hidden: a task that was accepted is worked on until it  *)
(* has succeeded or failed, and only a retry request opens it again.       *)
(***************************************************************************)
CONSTANT Tasks

VARIABLE life

LifeTypeOK == life \in [Tasks -> {"absent", "active", "succeeded", "failed"}]

LifeInit == life = [t \in Tasks |-> "absent"]

Accept(t) == life[t] = "absent" /\ life' = [life EXCEPT ![t] = "active"]

Settle(t) == /\ life[t] = "active"
             /\ \E outcome \in {"succeeded", "failed"} :
                  life' = [life EXCEPT ![t] = outcome]

Reopen(t) == /\ life[t] \in {"succeeded", "failed"}
             /\ life' = [life EXCEPT ![t] = "active"]

LifeNext == \E t \in Tasks : Accept(t) \/ Settle(t) \/ Reopen(t)

\* The order of things, and that work on a task comes to an end.
LifeSteps == LifeInit /\ [][LifeNext]_life
LifeSpec  == LifeSteps /\ \A t \in Tasks : WF_life(Settle(t))
=============================================================================
