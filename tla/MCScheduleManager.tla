--------------------------- MODULE MCScheduleManager ---------------------------
(* Instances of ScheduleManager for TLC. *)
EXTENDS ScheduleManager

CONSTANTS p1, p2, k1, k2

TwoRoutes == {p1, p2}
OneNever == {p2}
OneLook == {k1}
TwoLooks == {k1, k2}
================================================================================
