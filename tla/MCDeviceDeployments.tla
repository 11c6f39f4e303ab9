------------------------ MODULE MCDeviceDeployments ------------------------
(* Values for the constants of DeviceDeployments.                          *)
EXTENDS DeviceDeployments, TLC

CONSTANTS a, b, w1, w2, old, new, other

\* One deployment for both devices, with or without one for the first device.
MCBoth == {<<a, b>>}
MCLists == {<<a>>, <<a, b>>}

MCAlone == {<<a>>}

\* An artifact fits the devices that ask as "old" or "new"; those that ask as
\* "new" run what the first deployment installs.
MCMatching == Deployments \X (Requests \intersect {old, new})
MCInstalled == {<<1, new>>} \intersect (Deployments \X Requests)

\* Workers are interchangeable.
MCSymmetry == Permutations(Workers)
=============================================================================
