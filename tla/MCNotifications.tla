--------------------------- MODULE MCNotifications ---------------------------
(***************************************************************************)
(* Instances of Notifications for TLC: two watchers and one thread beside  *)
(* the driver's, and the removal of the driver.                            *)
(***************************************************************************)
EXTENDS Notifications
CONSTANTS app, w1, w2

BothWatchers == <<w1, w2>>
Setters == App \cup (Deliverer \ {Driver})
=============================================================================
