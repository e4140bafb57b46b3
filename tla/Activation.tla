------------------------------ MODULE Activation ------------------------------
(***************************************************************************)
(* What an Application's user may rely on.  A Deployment is proposed as a  *)
(* candidate, and ends once: rejected, or promoted to be the current one,  *)
(* which retires its predecessor in the same step.  An Application has at  *)
(* most one candidate, and nothing but a promotion changes what is current.*)
(***************************************************************************)
CONSTANTS Applications, Deployments, None

VARIABLES
    phase,     \* of every Deployment
    owner,     \* its Application
    current    \* the Deployment an Application runs

avars == <<phase, owner, current>>

Phases == {"unborn", "candidate", "current", "retired", "rejected"}

Init ==
    /\ phase = [d \in Deployments |-> "unborn"]
    /\ owner = [d \in Deployments |-> None]
    /\ current = [a \in Applications |-> None]

\* DeploymentStatus::Pending, the row of a new Deployment.
Propose(a, d) ==
    /\ phase[d] = "unborn"
    /\ \A e \in Deployments : owner[e] = a => phase[e] # "candidate"
    /\ phase' = [phase EXCEPT ![d] = "candidate"]
    /\ owner' = [owner EXCEPT ![d] = a]
    /\ UNCHANGED current

\* DeploymentStatus::Failed
Reject(d) ==
    /\ phase[d] = "candidate"
    /\ phase' = [phase EXCEPT ![d] = "rejected"]
    /\ UNCHANGED <<owner, current>>

\* DeploymentStatus::Succeeded together with applications.active_deployment_id.
Promote(d) ==
    /\ phase[d] = "candidate"
    /\ phase' = [e \in Deployments |->
                    IF e = d THEN "current"
                    ELSE IF e = current[owner[d]] THEN "retired" ELSE phase[e]]
    /\ current' = [current EXCEPT ![owner[d]] = d]
    /\ UNCHANGED owner

Next ==
    \E d \in Deployments :
        Reject(d) \/ Promote(d) \/ \E a \in Applications : Propose(a, d)

Spec == Init /\ [][Next]_avars

===============================================================================
