-------------------------- MODULE MCNotifications --------------------------
(* TLC instances of Notifications: a capacity concern, a USB presence and a *)
(* physical removal of the disk behind it.                                  *)
EXTENDS Notifications

CONSTANTS cap, usb, disk, epoch1, epoch2

Cond(k, st, sv, fr, ep) ==
  [key |-> k, status |-> st, sev |-> sv, fresh |-> fr, epoch |-> ep]

\* A concern that opens, escalates, becomes stale, and recovers.
CapReports ==
  {Cond(cap, "open", "warning", TRUE, None), Cond(cap, "open", "critical", TRUE, None),
   Cond(cap, "interrupted", "warning", FALSE, None),
   Cond(cap, "resolved", "warning", TRUE, None)}

\* Two observations of one disconnect, each recovering on its own.
UsbReports ==
  {Cond(usb, "open", "warning", TRUE, epoch1), Cond(usb, "open", "warning", FALSE, epoch1),
   Cond(usb, "resolved", "warning", TRUE, None),
   Cond(disk, "open", "warning", TRUE, epoch1), Cond(disk, "resolved", "warning", TRUE, None)}

CapBatches == {<<Cond(cap, "open", "warning", TRUE, None), Cond(cap, "open", "critical", TRUE, None)>>}
UsbBatches == {<<Cond(usb, "open", "warning", TRUE, epoch1), Cond(disk, "resolved", "warning", TRUE, None)>>}

AllReports == CapReports \cup UsbReports
AllBatches == CapBatches \cup UsbBatches

\* A behaviour is about the capacity or about the disconnect, with bounds of its own:
\* without crashes the disconnect needs one more episode and one more revision.
OneConcern ==
  LET keys == {db.ep[e].key : e \in 1..(db.nextEp - 1)}
  IN \/ keys \subseteq {cap} /\ db.nextEp <= 3 /\ db.nextRev <= 5
     \/ keys \subseteq {usb, disk} /\ crashes = 0
=============================================================================
