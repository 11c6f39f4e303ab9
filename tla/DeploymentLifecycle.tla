------------------------ MODULE DeploymentLifecycle ------------------------
(***************************************************************************)
(* What the deployments service promises of device deployments, without    *)
(* documents, counters, requests in flight or copies of what was read:     *)
(* each device goes through the deployments that list it in the order they *)
(* were created, one at a time; an outcome is final; a closed deployment    *)
(* takes in no device and changes no more.                                 *)
(***************************************************************************)
EXTENDS DeploymentModel

CONSTANTS Devices, NumDeployments

Deployments == 1..NumDeployments
NotStarted == "none"

VARIABLES
    listed,   \* the devices of each open or closed deployment
    closed,   \* deployments with a finish time
    outcome   \* status of each device in each deployment

vars == <<listed, closed, outcome>>

Init ==
    /\ listed = [d \in Deployments |-> {}]
    /\ closed = [d \in Deployments |-> FALSE]
    /\ outcome = [d \in Deployments |-> [dev \in Devices |-> NotStarted]]

ActiveIn(d) == {dev \in Devices : outcome[d][dev] \in ActiveStatuses}

Open(d, S) ==
    /\ listed[d] = {} /\ S # {}
    /\ listed' = [listed EXCEPT ![d] = S]
    /\ UNCHANGED <<closed, outcome>>

\* A device enters an open deployment that is newer than all it has entered,
\* having finished those; st is "pending", or the outcome an operator gives.
Start(dev, d, st) ==
    /\ dev \in listed[d]
    /\ ~closed[d]
    /\ \A e \in Deployments : dev \notin ActiveIn(e)
    /\ \A e \in Deployments : e >= d => outcome[e][dev] = NotStarted
    /\ outcome' = [outcome EXCEPT ![d][dev] = st]
    /\ UNCHANGED <<listed, closed>>

\* A device, or an operator on the device, changes a status that is no outcome.
Change(dev, d, st) ==
    /\ ~closed[d]
    /\ dev \in ActiveIn(d)
    /\ outcome' = [outcome EXCEPT ![d][dev] = st]
    /\ UNCHANGED <<listed, closed>>

AbortAll(d) ==
    /\ ~closed[d]
    /\ outcome' = [outcome EXCEPT ![d] =
            [dev \in Devices |-> IF dev \in ActiveIn(d) THEN "aborted" ELSE @[dev]]]
    /\ UNCHANGED <<listed, closed>>

Close(d) ==
    /\ listed[d] # {}
    /\ ActiveIn(d) = {}
    /\ closed' = [closed EXCEPT ![d] = TRUE]
    /\ UNCHANGED <<listed, outcome>>

Next ==
    \E d \in Deployments :
        \/ \E S \in SUBSET Devices : Open(d, S)
        \/ \E dev \in Devices, st \in {"pending", "aborted", "decommissioned"} :
              Start(dev, d, st)
        \/ \E dev \in Devices, st \in Statuses \ {"pending"} : Change(dev, d, st)
        \/ AbortAll(d)
        \/ Close(d)

Spec == Init /\ [][Next]_vars
=============================================================================
