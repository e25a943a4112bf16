------------------------------ MODULE MCMediaSync ------------------------------
(* Instances of MediaSync for TLC. *)
EXTENDS SyncMirror, TLC

CONSTANTS r1, r2, f1, f2, d1, d2, n1, n2, n3

NoRun == {}
OneRun == {r1}
TwoRuns == {r1, r2}
OneFile == {f1}
TwoFiles == {f1, f2}
OneFolder == {d1}
TwoFolders == {d1, d2}
TwoNames == {n1, n2}
ThreeNames == {n1, n2, n3}
NoFiles == {}

\* A cover file differs from another, the scheduler from a manual run; folders
\* and names are alike.
Symmetry == Permutations(Runs \ Scheduled) \cup Permutations(Folders) \cup Permutations(Names)
================================================================================
