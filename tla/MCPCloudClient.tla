---------------------------- MODULE MCPCloudClient -----------------------------
(* Instances of PCloudClient for TLC. *)
EXTENDS PCloudClient

CONSTANTS c1, c2, c3

TwoCallers == {c1, c2}
ThreeCallers == {c1, c2, c3}
================================================================================
