-------------------------- MODULE DeploymentModel --------------------------
(***************************************************************************)
(* The pure part of the deployments service: the statuses a device can     *)
(* have within a deployment, the counters a deployment keeps per status,   *)
(* and the overall status computed from those counters                     *)
(* (services/deployments/model).                                           *)
(***************************************************************************)
EXTENDS Integers

\* Statuses of a device that is still carrying out the deployment.  The code
\* numbers the statuses so that these lie between ActiveLow and ActiveHigh.
ActiveStatuses ==
    {"pause_before_install", "pause_before_commit", "pause_before_reboot",
     "downloading", "installing", "rebooting", "pending"}

\* Statuses the code treats as an outcome (IsDeviceDeploymentStatusFinished).
FinishedStatuses ==
    {"failure", "aborted", "success", "noartifact", "already-installed",
     "decommissioned"}

Statuses == ActiveStatuses \union FinishedStatuses

Active(st) == st \in ActiveStatuses

\* What a device may put in a status report (StatusReport.Validate).
ReportStatuses ==
    {"downloading", "installing", "rebooting", "success", "failure",
     "already-installed", "pause_before_install", "pause_before_commit",
     "pause_before_reboot"}

DeploymentStatuses == {"pending", "inprogress", "finished"}

---------------------------------------------------------------------------
(* Counters, one per status.                                               *)

StatsType == [Statuses -> Int]

NewStats == [st \in Statuses |-> 0]

\* A new deployment counts every listed device as pending before any device
\* deployment exists.
InitialStats(max) == [NewStats EXCEPT !["pending"] = max]

\* Faulty variant of StatsInc: the counter of the former status stays.
StatsIncOnly(stats, from, to) == [stats EXCEPT ![to] = @ + 1]

\* UpdateStatsInc: one $inc with both counters in it.
StatsInc(stats, from, to) ==
    [stats EXCEPT ![from] = @ - 1, ![to] = @ + 1]

\* Faulty variant of CountedOutcomes: one outcome is forgotten.
OutcomesButInstalled(stats) ==
    stats["success"] + stats["failure"] + stats["noartifact"]
      + stats["decommissioned"] + stats["aborted"]

\* Devices whose outcome has been counted.
CountedOutcomes(stats) ==
    stats["already-installed"] + stats["success"] + stats["failure"]
      + stats["noartifact"] + stats["decommissioned"] + stats["aborted"]

\* Every device counted, whatever its status.
CountedDevices(stats) ==
    CountedOutcomes(stats) + stats["pending"] + stats["downloading"]
      + stats["installing"] + stats["rebooting"]
      + stats["pause_before_install"] + stats["pause_before_commit"]
      + stats["pause_before_reboot"]

---------------------------------------------------------------------------
(* The overall status of a deployment.                                     *)

\* Faulty variant of IsFinished: off by one.
IsAlmostFinished(finished, max, stats) ==
    finished \/ (max > 0 /\ CountedOutcomes(stats) + 1 >= max)

\* finished: the deployment document carries a finish time.
IsFinished(finished, max, stats) ==
    finished \/ (max > 0 /\ CountedOutcomes(stats) >= max)

\* "decommissioned" is missing from the statuses the code looks at here.
IsNotPending(stats) ==
    \E st \in Statuses \ {"pending", "decommissioned"} : stats[st] > 0

GetStatus(finished, max, stats) ==
    IF IsFinished(finished, max, stats) THEN "finished"
    ELSE IF IsNotPending(stats) THEN "inprogress"
    ELSE "pending"
=============================================================================
