---------------------------- MODULE MCHeartbeats ----------------------------
(***************************************************************************)
(* Instances of Heartbeats for TLC.  A disk and the namespaces smartctl    *)
(* finds on it (a group the disk owns); an I/O driver, found with the     *)
(* disk, which topology joins to it.                                       *)
(***************************************************************************)
EXTENDS Heartbeats

CONSTANTS host, disk0, ns, driver, join, scan, detail

DiskOwner == [g \in Groups |-> IF g = detail THEN disk0
                               ELSE IF g = scan THEN host ELSE None]
DiskReports == [g \in Groups |-> IF g = HostGroup THEN {host}
                                 ELSE IF g = scan THEN {disk0} \cup (Resources \cap {driver})
                                 ELSE IF g = detail THEN {ns}
                                 ELSE IF g = Derived THEN Links ELSE {}]
JoinFrom == [l \in Links |-> driver]
JoinTo == [l \in Links |-> disk0]
=============================================================================
