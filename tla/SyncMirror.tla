------------------------------- MODULE SyncMirror -------------------------------
(***************************************************************************)
(* The inductive invariant behind CleanRunMirrors and RenameKeepsAlbum of  *)
(* MediaSync: what a run that has the tables to itself may rely on between *)
(* any two of its statements.                                              *)
(***************************************************************************)
EXTENDS MediaSync

\* The unique indexes of the albums table.
TablesKeyed ==
  \A a, b \in AlbumIds :
    /\ albums[a].name = albums[b].name => a = b
    /\ (albums[a].folder = albums[b].folder /\ albums[a].folder # None) => a = b

\* A walk meets each file in one folder, and each folder under one name.
WalkKeyed(w) ==
  \A e, x \in w : /\ e[1] = x[1] => e = x
                  /\ e[2] = x[2] => e[3] = x[3]

\* A clean run shares the tables with no other.
Alone(r) == \A q \in Runs \ {r} : ~Running(q)

\* The groups a run is through with, which mirror the walk already.
AfterMark  == {"retire", "record", "finish"}
Waiting(r) == IF run[r].pc \in AfterMark THEN {} ELSE run[r].todo \cup {run[r].name}
Handled(r) == GroupNames(run[r].walk) \ Waiting(r)

HandledMirror(r) ==
  \A n \in Handled(r) : \E a \in Named(n) : Mirrors(r, n, a)

\* The group at hand: by name and by folder, what the run knows of its album is what the
\* tables say.
ByFolder == {"lookup", "rename", "insert"}
ByName   == {"detach", "attach"}
Bound    == {"path", "upsert", "prune", "findcover", "setcover"}

GroupAtHand(r) ==
  LET s == run[r]
  IN  s.pc \in GroupPCs =>
        /\ s.folder \in FoldersOf(s.walk, s.name) /\ s.name \notin s.todo
        /\ s.pc \in ByFolder => Named(s.name) = {}
        /\ s.pc = "rename" => s.album \in HoldersOf(s.folder)
        /\ s.pc = "insert" => HoldersOf(s.folder) = {}
        /\ s.pc \in ByName \cup Bound => s.album \in Named(s.name)
        /\ s.pc = "attach" => HoldersOf(s.folder) \subseteq {s.album}
        /\ s.pc \in Bound => s.album \in HoldersOf(s.folder)

PathKnown(r) ==
  LET s == run[r]
  IN  /\ s.pc \in ByName \cup {"rename"} =>
           s.repath = (albums[s.album].path # <<s.folder, s.name>>)
      /\ s.pc \in Bound \ {"path"} => albums[s.album].path = <<s.folder, s.name>>

\* Its files: those still to be written, those that are live, and the cover found.
FilesAtHand(r) ==
  LET s == run[r]
      files == FilesOf(s.walk, s.name)
  IN  /\ s.pc \in ByFolder \cup ByName \cup {"path"} => s.left = files
      /\ s.pc = "upsert" => s.left \subseteq files /\ files \ s.left \subseteq LiveIn(s.album)
      /\ s.pc = "prune" => files \subseteq LiveIn(s.album)
      /\ s.pc \in {"findcover", "setcover"} => LiveIn(s.album) = files
      /\ s.pc = "setcover" => CoverOf(s.album, s.cover)

\* The walk before the groups, and the missing flags after them.
FlagsAtHand(r) ==
  LET s == run[r]
      walked(a) == albums[a].name \in GroupNames(s.walk)
  IN  /\ s.pc = "walk" => s.walk = {}
      /\ s.pc \in {"walk", "resolve", "clear", "mark"} => s.name = None
      /\ s.pc \in {"clear", "mark"} => s.todo = {}
      /\ s.pc = "mark" => \A a \in AlbumIds : walked(a) => ~albums[a].missing
      /\ (s.pc \in AfterMark /\ s.walk # {}) => \A a \in AlbumIds : albums[a].missing <=> ~walked(a)
      /\ s.pc = "retire" => \A a \in s.marked : a \in AlbumIds => ~walked(a)

\* What became of the bindings the run began with: the album of a renamed folder has its
\* old name until the group of the new one is resolved, and the new one after that.
Awaiting(r, n) ==
  \/ run[r].pc \notin AfterMark /\ n \in run[r].todo
  \/ run[r].pc \in {"lookup", "rename"} /\ n = run[r].name

OldBinding(r, d) == KeptBy(r, d, run[r].held[d][2])

BindingsRead(r) ==
  run[r].pc = "walk" =>
    /\ \A d \in Folders : run[r].held[d][1] # 0 => OldBinding(r, d)
    /\ \A n \in Names : n \notin run[r].taken => Named(n) = {}

BindingsHeld(r) ==
  \A d \in Folders, n \in Names :
    RenamedTo(r, d, n) =>
      IF Awaiting(r, n) THEN OldBinding(r, d) /\ Named(n) = {} ELSE KeptBy(r, d, n)

OnCourse(r) ==
  /\ HandledMirror(r)
  /\ GroupAtHand(r) /\ PathKnown(r) /\ FilesAtHand(r)
  /\ FlagsAtHand(r)
  /\ BindingsRead(r) /\ BindingsHeld(r)

RunsOnCourse ==
  \A r \in Runs :
    /\ WalkKeyed(run[r].walk)
    /\ run[r].clean => Running(r) /\ Alone(r) /\ OnCourse(r)

(***************************************************************************)
(* A run that has the tables to itself stays on course: the groups it is   *)
(* through with mirror the walk, whatever it does to the others, since no  *)
(* two groups of a walk share a file, a folder or a name, and no two       *)
(* albums a name or a folder; what it read about the group at hand still   *)
(* is so; and a renamed folder's album is where it was, or where it goes.  *)
(***************************************************************************)
MirrorInv == TypeOK /\ TablesKeyed /\ RunsOnCourse
================================================================================
