------------------------------ MODULE MCDashboard ------------------------------
(***************************************************************************)
(* Instance of Dashboard for TLC: a person with every permission but those *)
(* to view cameras.                                                        *)
(***************************************************************************)
EXTENDS Dashboard

AllButCameras == UNION {ReadBy[k] : k \in Key \ {"cameras"}} \cup {"administer_camera_devices"}

\* From a page with a form to the pages that show what it writes.
Carries(p, q) ==
  p = "home" \/ q = "home" \/ \E f \in App[p].forms : f.refreshes \cap App[q].shows # {}
=============================================================================
