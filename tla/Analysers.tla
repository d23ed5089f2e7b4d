----------------------------- MODULE Analysers -----------------------------
(***************************************************************************)
(* The analysers of the server, on the heartbeats of one node.             *)
(*                                                                         *)
(* The transaction that accepts a heartbeat (cider_api.rs 119-288) hands   *)
(* its collections to each analyser: the USB watches, the activity         *)
(* detector, the drive assessment and the filesystem rules.  Each keeps    *)
(* tables of its own and none reads another's, so a behaviour of the four  *)
(* is one behaviour of each; focus is the analyser whose steps are shown.  *)
(***************************************************************************)
EXTENDS DeviceWatch, Detection, Reliability, SecurityRules

VARIABLE focus

vars == <<focus, watchVars, detectionVars, reliabilityVars, securityVars>>

Init ==
  /\ focus \in {"watches", "activity", "drive", "rules"}
  /\ focus # "drive" => collector = "iokit.block"   \* of no account elsewhere
  /\ InitWatch /\ InitDetection /\ InitReliability /\ InitSecurity

Next ==
  /\ UNCHANGED focus
  /\ \/ /\ focus = "watches" /\ NextWatch
        /\ UNCHANGED <<detectionVars, reliabilityVars, securityVars>>
     \/ /\ focus = "activity" /\ NextDetection
        /\ UNCHANGED <<watchVars, reliabilityVars, securityVars>>
     \/ /\ focus = "drive" /\ NextReliability
        /\ UNCHANGED <<watchVars, detectionVars, securityVars>>
     \/ /\ focus = "rules" /\ NextSecurity
        /\ UNCHANGED <<watchVars, detectionVars, reliabilityVars>>

Spec == Init /\ [][Next]_vars

-----------------------------------------------------------------------------
(* Every analyser writes a finding where it ends it: the open rows of its  *)
(* table are the findings its sources still follow, and the episodes of    *)
(* the rules are those findings but for the ones that found no room.  A    *)
(* row that nothing follows would be shown for ever.                       *)
OpenFindingsAreLive == ActivityRowsAreLive /\ DriveRowsAreLive /\ RuleRowsAreLive
=============================================================================
