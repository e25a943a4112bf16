---------------------------- MODULE MediaSyncProofs ----------------------------
(***************************************************************************)
(* Proofs about MediaSync, for any runs, files, folders, names and bounds: *)
(* type correctness, that a file is announced and delivered at most once,  *)
(* and that the sync implements DiscoveryLedger; then, from the inductive  *)
(* invariant of SyncMirror, that a run which has the tables to itself      *)
(* leaves them equal to its walk (CleanRunMirrors) and keeps the album of  *)
(* a renamed folder (RenameKeepsAlbum).                                    *)
(***************************************************************************)
EXTENDS SyncMirror, TLAPS

-----------------------------------------------------------------------------
(* Typed local states                                                      *)

\* A typed local state keeps the runs typed.
LEMMA BecomesTyped ==
  ASSUME RunsOK, NEW r \in Runs, NEW s \in RunState, OfGroup(s), Becomes(r, s)
  PROVE  RunsOK'
BY DEF RunsOK, Becomes

\* The state a run starts from and ends in is typed.
LEMMA IdleTyped == Idle \in RunState /\ OfGroup(Idle)
BY DEF Idle, RunState, PCs, NotHeld, OfGroup, GroupPCs

\* An aborted run leaves the runs typed.
LEMMA AbortTyped ==
  ASSUME RunsOK, NEW r \in Runs, Abort(r)
  PROVE  RunsOK'
BY IdleTyped, BecomesTyped DEF Abort

\* A disturbed run is typed.
LEMMA DisturbedTyped ==
  ASSUME NEW s \in RunState, OfGroup(s)
  PROVE  Disturbed(s) \in RunState /\ OfGroup(Disturbed(s))
<1>1. Disturbed(s) \in RunState
  BY DEF Disturbed, RunState, NotHeld
<1>2. OfGroup(Disturbed(s))
  BY DEF Disturbed, RunState, OfGroup
<1> QED BY <1>1, <1>2

\* What a run remembers of the tables is typed.
LEMMA BindingsTyped ==
  ASSUME AlbumsOK
  PROVE  Bindings \in [Folders -> Nat \X (Names \cup {None})]
<1>1. SUFFICES ASSUME NEW d \in Folders, HoldersOf(d) # {}
               PROVE  LET a == CHOOSE x \in HoldersOf(d) : TRUE
                      IN  a \in Nat /\ albums[a].name \in Names
  BY DEF Bindings
<1>2. \A a \in AlbumIds : a \in Nat /\ albums[a].name \in Names
  BY DEF AlbumsOK, AlbumRow
<1>3. (CHOOSE x \in HoldersOf(d) : TRUE) \in HoldersOf(d)
  BY <1>1
<1> QED BY <1>2, <1>3 DEF HoldersOf

\* A run moves on to another statement, of its group or of none.
LEMMA PCTyped ==
  ASSUME NEW s \in RunState, NEW p \in PCs,
         p \in GroupPCs => s.name \in Names /\ s.folder \in Folders
  PROVE  [s EXCEPT !.pc = p] \in RunState /\ OfGroup([s EXCEPT !.pc = p])
BY DEF RunState, OfGroup

\* A run that found its album keeps a typed state.
LEMMA FoundTyped ==
  ASSUME AlbumsOK, NEW s \in RunState, NEW a \in AlbumIds
  PROVE  /\ Found(s, a) \in RunState
         /\ Found(s, a).name = s.name /\ Found(s, a).folder = s.folder
<1> DEFINE b == albums[a].path # <<s.folder, s.name>>
<1>1. a \in Nat /\ b \in BOOLEAN
  BY DEF AlbumsOK
<1>2. [s EXCEPT !.album = a, !.repath = b] \in RunState
  <2> HIDE DEF b
  <2> QED BY <1>1 DEF RunState
<1>3. Found(s, a).name = s.name /\ Found(s, a).folder = s.folder
  BY DEF Found, RunState
<1> QED BY <1>2, <1>3 DEF Found

\* After the row of a group is found, its path is written or the files follow.
LEMMA MatchedTyped ==
  ASSUME NEW s \in RunState, s.name \in Names, s.folder \in Folders
  PROVE  Matched(s) \in RunState /\ OfGroup(Matched(s))
<1>1. (IF s.repath THEN "path" ELSE "upsert") \in PCs
  BY DEF PCs
<1> QED BY <1>1, PCTyped DEF Matched

\* A written file leaves the group's list, and is new content if it was inserted.
LEMMA AfterUpsertTyped ==
  ASSUME NEW s \in RunState, s.name \in Names, s.folder \in Folders, NEW f \in Files,
         NEW new, RowId(f) \in Nat
  PROVE  AfterUpsert(s, f, new) \in RunState /\ OfGroup(AfterUpsert(s, f, new))
<1> DEFINE p == IF s.left = {f} THEN "prune" ELSE "upsert"
           t == [s EXCEPT !.left = @ \ {f}, !.pc = p]
           u == [t EXCEPT !.fresh[s.name] = @ \cup {RowId(f)}]
<1>1. p \in PCs
  BY DEF PCs
<1>2. t \in RunState /\ t.name \in Names /\ t.folder \in Folders
  <2> HIDE DEF p
  <2> QED BY <1>1 DEF RunState
<1>3. u \in RunState /\ u.name \in Names /\ u.folder \in Folders
  <2> HIDE DEF t
  <2> QED BY <1>2 DEF RunState
<1> QED BY <1>2, <1>3 DEF AfterUpsert, OfGroup

\* The end of a group clears what belongs to it.
LEMMA NextGroupTyped ==
  ASSUME NEW s \in RunState
  PROVE  NextGroup(s) \in RunState /\ OfGroup(NextGroup(s))
<1>1. EndGroup(s) \in RunState
  BY DEF EndGroup, RunState
<1>2. \A p \in PCs \ GroupPCs : /\ [EndGroup(s) EXCEPT !.pc = p] \in RunState
                               /\ OfGroup([EndGroup(s) EXCEPT !.pc = p])
  BY <1>1, PCTyped
<1>3. (IF s.todo = {} THEN "clear" ELSE "resolve") \in PCs \ GroupPCs
  BY DEF PCs, GroupPCs
<1>4. NextGroup(s) = [EndGroup(s) EXCEPT !.pc = IF s.todo = {} THEN "clear" ELSE "resolve"]
  BY DEF NextGroup
<1> HIDE DEF NextGroup
<1> QED BY <1>2, <1>3, <1>4

\* After an album is retired the next one is, or the events are recorded.
LEMMA AfterRetireTyped ==
  ASSUME NEW s \in RunState
  PROVE  AfterRetire(s) \in RunState /\ OfGroup(AfterRetire(s))
<1> DEFINE N == {n \in Names : s.fresh[n] # {}}
<1>1. N \in SUBSET Names
  OBVIOUS
<1>2. \A p \in PCs \ GroupPCs : /\ [s EXCEPT !.pc = p, !.todo = N] \in RunState
                               /\ OfGroup([s EXCEPT !.pc = p, !.todo = N])
  <2> HIDE DEF N
  <2> QED BY <1>1 DEF RunState, OfGroup
<1>3. (IF s.marked # {} THEN "retire" ELSE "record") \in PCs \ GroupPCs
  BY DEF PCs, GroupPCs
<1> QED BY <1>2, <1>3 DEF AfterRetire

\* The names and files of a walk are names and files.
LEMMA GroupsTyped ==
  ASSUME NEW w \in SUBSET Entry
  PROVE  /\ GroupNames(w) \in SUBSET Names
         /\ \A n : FoldersOf(w, n) \in SUBSET Folders
         /\ \A n : FilesOf(w, n) \in SUBSET Files
BY DEF GroupNames, FoldersOf, FilesOf, Entry

\* A new state of a run, and the rest of the state left alone, keeps the types.
LEMMA LocalStep ==
  ASSUME TypeOK, RunsOK', UNCHANGED <<source, db, log>>,
         UNCHANGED bounds \/ (faults < MaxFaults /\ faults' = faults + 1
                              /\ UNCHANGED <<edits, admin>>)
  PROVE  TypeOK'
<1>1. SourceOK' /\ AlbumsOK' /\ ImagesOK' /\ LogOK'
  BY DEF TypeOK, SourceOK, AlbumsOK, ImagesOK, LogOK, AlbumIds, source, db, log
<1>2. BoundsOK'
  <2>1. CASE UNCHANGED bounds
    BY <2>1 DEF TypeOK, BoundsOK, bounds
  <2>2. CASE faults < MaxFaults /\ faults' = faults + 1 /\ UNCHANGED <<edits, admin>>
    BY <2>2, SyncAssumption DEF TypeOK, BoundsOK
  <2> QED BY <2>1, <2>2
<1> QED BY <1>1, <1>2 DEF TypeOK

\* A typed albums table, and the rest of the state left alone, keeps the types.
LEMMA AlbumsStep ==
  ASSUME TypeOK, RunsOK', AlbumsOK',
         UNCHANGED <<source, images, nextImage, log, bounds>>
  PROVE  TypeOK'
BY DEF TypeOK, SourceOK, ImagesOK, LogOK, BoundsOK, source, log, bounds

\* A typed images table, and the rest of the state left alone, keeps the types.
LEMMA ImagesStep ==
  ASSUME TypeOK, RunsOK', ImagesOK',
         UNCHANGED <<source, albums, nextAlbum, log, bounds>>
  PROVE  TypeOK'
BY DEF TypeOK, SourceOK, AlbumsOK, AlbumIds, LogOK, BoundsOK, source, log, bounds

\* An update of some rows that adds none keeps the albums typed.
LEMMA AlbumsEdited ==
  ASSUME AlbumsOK, albums' \in [AlbumIds -> AlbumRow], UNCHANGED nextAlbum
  PROVE  AlbumsOK'
BY DEF AlbumsOK, AlbumIds

\* Renaming a row keeps the albums typed.
LEMMA RenamedTyped ==
  ASSUME AlbumsOK, NEW a, NEW n \in Names, albums' = Renamed(a, n), UNCHANGED nextAlbum
  PROVE  AlbumsOK'
<1>1. Renamed(a, n) \in [AlbumIds -> AlbumRow]
  BY DEF AlbumsOK, AlbumRow, Renamed
<1> QED BY <1>1, AlbumsEdited

-----------------------------------------------------------------------------
(* Type correctness, one lemma per action                                  *)

\* Starting a run, which disturbs the others, keeps the types.
LEMMA BeginTyped ==
  ASSUME TypeOK, NEW r \in Runs, Begin(r)
  PROVE  TypeOK'
<1> DEFINE i == AlbumIds = {}
           t == {albums[a].name : a \in AlbumIds}
           s == [Idle EXCEPT !.pc = "walk", !.initial = i]
<1>1. i \in BOOLEAN
  OBVIOUS
<1>2. t \in SUBSET Names
  BY DEF TypeOK, AlbumsOK, AlbumRow
<1>3. s \in RunState /\ s.pc = "walk"
  <2> HIDE DEF i
  <2> QED BY <1>1, IdleTyped DEF RunState, PCs
<1>4. /\ [s EXCEPT !.clean = TRUE, !.held = Bindings, !.taken = t] \in RunState
      /\ [s EXCEPT !.clean = TRUE, !.held = Bindings, !.taken = t].pc = "walk"
  <2> HIDE DEF s, t
  <2> QED BY <1>2, <1>3, BindingsTyped DEF TypeOK, RunState
<1>5. Started(Others(r) = {}) \in RunState /\ OfGroup(Started(Others(r) = {}))
  <2>1. \A x : x.pc = "walk" => OfGroup(x)
    BY DEF OfGroup, GroupPCs
  <2> QED BY <1>3, <1>4, <2>1 DEF Started
<1>6. RunsOK'
  BY <1>5, DisturbedTyped DEF Begin, RunsOK, TypeOK
<1> QED BY <1>6, LocalStep DEF Begin

\* A walk, also one wrongly empty, keeps the types.
LEMMA WalkTyped ==
  ASSUME TypeOK, NEW r \in Runs, Walk(r) \/ WalkBroken(r)
  PROVE  TypeOK'
<1>1. ASSUME NEW w \in SUBSET Entry, Walked(r, w)
      PROVE  RunsOK'
  <2> DEFINE p == IF w = {} THEN "finish" ELSE "resolve"
             s == [run[r] EXCEPT !.walk = w, !.todo = GroupNames(w), !.pc = p]
  <2>1. run[r] \in RunState
    BY DEF TypeOK, RunsOK
  <2>2. p \in PCs \ GroupPCs
    BY DEF PCs, GroupPCs
  <2>3. s \in RunState /\ OfGroup(s)
    <3> HIDE DEF p
    <3> QED BY <2>1, <2>2, GroupsTyped DEF RunState, OfGroup
  <2> QED BY <1>1, <2>3, BecomesTyped DEF TypeOK, Walked
<1>2. Entries \in SUBSET Entry
  BY DEF TypeOK, SourceOK, Entries, Entry
<1>3. CASE Walk(r)
  BY <1>1, <1>2, <1>3, LocalStep DEF Walk
<1>4. CASE WalkBroken(r)
  BY <1>1, <1>4, LocalStep DEF WalkBroken
<1> QED BY <1>3, <1>4

\* Entering a group and looking its album up by name keeps the types.
LEMMA ResolveTyped ==
  ASSUME TypeOK, NEW r \in Runs, Resolve(r)
  PROVE  TypeOK'
<1>1. run[r] \in RunState
  BY DEF TypeOK, RunsOK
<1>2. PICK n \in run[r].todo : \E d \in FoldersOf(run[r].walk, n) :
        \/ Becomes(r, [Entered(run[r], n, d) EXCEPT !.pc = "lookup"])
        \/ \E a \in Named(n) :
             \/ Becomes(r, [Found(Entered(run[r], n, d), a) EXCEPT !.pc = "detach"])
             \/ Becomes(r, Matched(Found(Entered(run[r], n, d), a)))
  BY DEF Resolve
<1>3. PICK d \in FoldersOf(run[r].walk, n) :
        \/ Becomes(r, [Entered(run[r], n, d) EXCEPT !.pc = "lookup"])
        \/ \E a \in Named(n) :
             \/ Becomes(r, [Found(Entered(run[r], n, d), a) EXCEPT !.pc = "detach"])
             \/ Becomes(r, Matched(Found(Entered(run[r], n, d), a)))
  BY <1>2
<1> DEFINE s == Entered(run[r], n, d)
<1>4. s \in RunState /\ s.name \in Names /\ s.folder \in Folders
  <2>1. run[r].walk \in SUBSET Entry /\ run[r].todo \in SUBSET Names
    BY <1>1 DEF RunState
  <2>2. n \in Names /\ d \in Folders /\ FilesOf(run[r].walk, n) \in SUBSET Files
    BY <2>1, GroupsTyped
  <2> QED BY <1>1, <2>2 DEF Entered, RunState
<1>5. \A a \in Named(n) : /\ Found(s, a) \in RunState
                          /\ Found(s, a).name \in Names /\ Found(s, a).folder \in Folders
  BY <1>4, FoundTyped DEF Named, TypeOK
<1>6. RunsOK'
  BY <1>3, <1>4, <1>5, PCTyped, MatchedTyped, BecomesTyped DEF TypeOK, PCs
<1> QED BY <1>6, LocalStep DEF Resolve

\* Looking the album up by folder id keeps the types.
LEMMA LookupTyped ==
  ASSUME TypeOK, NEW r \in Runs, Lookup(r)
  PROVE  TypeOK'
<1>1. run[r] \in RunState /\ run[r].name \in Names /\ run[r].folder \in Folders
  BY DEF TypeOK, RunsOK, Lookup, OfGroup, GroupPCs
<1>2. \A a \in HoldersOf(run[r].folder) :
        /\ Found(run[r], a) \in RunState
        /\ Found(run[r], a).name \in Names /\ Found(run[r], a).folder \in Folders
  BY <1>1, FoundTyped DEF HoldersOf, TypeOK
<1>3. RunsOK'
  BY <1>1, <1>2, PCTyped, BecomesTyped DEF Lookup, TypeOK, PCs
<1> QED BY <1>3, LocalStep DEF Lookup

\* Renaming the found album, or failing on its name, keeps the types.
LEMMA RenameTyped ==
  ASSUME TypeOK, NEW r \in Runs, Rename(r)
  PROVE  TypeOK'
<1>1. run[r] \in RunState /\ run[r].name \in Names /\ run[r].folder \in Folders
  BY DEF TypeOK, RunsOK, Rename, OfGroup, GroupPCs
<1>2. CASE Abort(r) /\ UNCHANGED albums
  BY <1>2, AbortTyped, AlbumsStep DEF Rename, TypeOK, AlbumsOK, AlbumIds
<1>3. CASE albums' = Renamed(run[r].album, run[r].name) /\ Becomes(r, Matched(run[r]))
  <2>1. AlbumsOK'
    BY <1>1, <1>3, RenamedTyped DEF TypeOK, Rename
  <2>2. RunsOK'
    BY <1>1, <1>3, MatchedTyped, BecomesTyped DEF TypeOK
  <2> QED BY <2>1, <2>2, AlbumsStep DEF Rename
<1> QED BY <1>2, <1>3 DEF Rename

\* Unbinding a folder id from other albums keeps the types.
LEMMA DetachTyped ==
  ASSUME TypeOK, NEW r \in Runs, Detach(r)
  PROVE  TypeOK'
<1>1. run[r] \in RunState /\ run[r].name \in Names /\ run[r].folder \in Folders
  BY DEF TypeOK, RunsOK, Detach, OfGroup, GroupPCs
<1>2. albums' \in [AlbumIds -> AlbumRow]
  BY DEF TypeOK, AlbumsOK, AlbumRow, Detach
<1>3. RunsOK'
  BY <1>1, PCTyped, BecomesTyped DEF TypeOK, Detach, PCs
<1> QED BY <1>2, <1>3, AlbumsEdited, AlbumsStep DEF Detach, TypeOK

\* Binding the folder id to the album keeps the types.
LEMMA AttachTyped ==
  ASSUME TypeOK, NEW r \in Runs, Attach(r)
  PROVE  TypeOK'
<1> DEFINE bound == [x \in AlbumIds |-> IF x = run[r].album
                                       THEN [albums[x] EXCEPT !.folder = run[r].folder]
                                       ELSE albums[x]]
<1>1. run[r] \in RunState /\ run[r].name \in Names /\ run[r].folder \in Folders
  BY DEF TypeOK, RunsOK, Attach, OfGroup, GroupPCs
<1>2. CASE Abort(r) /\ UNCHANGED albums
  BY <1>2, AbortTyped, AlbumsStep DEF Attach, TypeOK, AlbumsOK, AlbumIds
<1>3. CASE albums' = bound /\ Becomes(r, Matched(run[r]))
  <2>1. albums' \in [AlbumIds -> AlbumRow]
    BY <1>1, <1>3 DEF TypeOK, AlbumsOK, AlbumRow
  <2>2. RunsOK'
    BY <1>1, <1>3, MatchedTyped, BecomesTyped DEF TypeOK
  <2> QED BY <2>1, <2>2, AlbumsEdited, AlbumsStep DEF Attach, TypeOK
<1> QED BY <1>2, <1>3 DEF Attach

\* Inserting an album, with the next id, keeps the types.
LEMMA InsertAlbumTyped ==
  ASSUME TypeOK, NEW r \in Runs, InsertAlbum(r)
  PROVE  TypeOK'
<1>1. run[r] \in RunState /\ run[r].name \in Names /\ run[r].folder \in Folders
  BY DEF TypeOK, RunsOK, InsertAlbum, OfGroup, GroupPCs
<1>2. CASE Abort(r) /\ UNCHANGED <<albums, nextAlbum>>
  BY <1>2, AbortTyped, AlbumsStep DEF InsertAlbum, TypeOK, AlbumsOK, AlbumIds
<1>3. CASE Becomes(r, [run[r] EXCEPT !.pc = "upsert", !.album = nextAlbum])
  <2> DEFINE row == [name |-> run[r].name, folder |-> run[r].folder,
                     path |-> <<run[r].folder, run[r].name>>, missing |-> FALSE,
                     cover |-> None]
  <2>1. row \in AlbumRow
    BY <1>1 DEF AlbumRow, Path
  <2>2. run[r].pc = "insert" /\ Idle.pc = "idle"
    BY DEF InsertAlbum, Idle
  <2>3. run'[r].pc = "upsert"
    BY <1>1, <1>3 DEF Becomes, RunState, TypeOK, RunsOK
  <2>4. /\ albums' = [x \in AlbumIds \cup {nextAlbum} |->
                       IF x = nextAlbum THEN row ELSE albums[x]]
        /\ nextAlbum' = nextAlbum + 1
    BY <2>2, <2>3 DEF InsertAlbum, Abort, Becomes, TypeOK, RunsOK
  <2>5. AlbumsOK'
    <3> HIDE DEF row
    <3> QED BY <2>1, <2>4 DEF TypeOK, AlbumsOK, AlbumIds
  <2>6. /\ [run[r] EXCEPT !.pc = "upsert", !.album = nextAlbum] \in RunState
        /\ OfGroup([run[r] EXCEPT !.pc = "upsert", !.album = nextAlbum])
    BY <1>1 DEF RunState, PCs, OfGroup, TypeOK, AlbumsOK
  <2>7. RunsOK'
    BY <1>3, <2>6, BecomesTyped DEF TypeOK
  <2> QED BY <2>5, <2>7, AlbumsStep DEF InsertAlbum
<1> QED BY <1>2, <1>3 DEF InsertAlbum

\* Writing the source path keeps the types.
LEMMA SyncPathTyped ==
  ASSUME TypeOK, NEW r \in Runs, SyncPath(r)
  PROVE  TypeOK'
<1>1. run[r] \in RunState /\ run[r].name \in Names /\ run[r].folder \in Folders
  BY DEF TypeOK, RunsOK, SyncPath, OfGroup, GroupPCs
<1>2. albums' \in [AlbumIds -> AlbumRow]
  BY <1>1 DEF TypeOK, AlbumsOK, AlbumRow, Path, SyncPath
<1>3. RunsOK'
  BY <1>1, PCTyped, BecomesTyped DEF TypeOK, SyncPath, PCs
<1> QED BY <1>2, <1>3, AlbumsEdited, AlbumsStep DEF SyncPath, TypeOK

\* A written row keeps the images typed.
LEMMA UpsertRowTyped ==
  ASSUME ImagesOK, NEW f \in Files, NEW a \in Nat, UpsertRow(f, a)
  PROVE  ImagesOK'
<1>1. RowId(f) \in Nat
  BY DEF ImagesOK, ImageRow, RowId
<1>2. [id |-> RowId(f), album |-> a, live |-> TRUE] \in ImageRow
  BY <1>1 DEF ImageRow
<1> QED BY <1>2 DEF ImagesOK, UpsertRow

\* Writing a file of the group, new or known, keeps the types.
LEMMA UpsertTyped ==
  ASSUME TypeOK, NEW r \in Runs, Upsert(r)
  PROVE  TypeOK'
<1>1. run[r] \in RunState /\ run[r].name \in Names /\ run[r].folder \in Folders
  BY DEF TypeOK, RunsOK, Upsert, OfGroup, GroupPCs
<1>2. PICK f \in run[r].left :
        \/ Abort(r) /\ UNCHANGED <<images, nextImage>>
        \/ /\ UpsertRow(f, run[r].album)
           /\ Becomes(r, AfterUpsert(run[r], f, Inserted(f)))
  BY DEF Upsert
<1>3. f \in Files /\ RowId(f) \in Nat /\ run[r].album \in Nat
  BY <1>1 DEF RunState, RowId, TypeOK, ImagesOK, ImageRow
<1>4. CASE Abort(r) /\ UNCHANGED <<images, nextImage>>
  BY <1>4, AbortTyped, ImagesStep DEF Upsert, TypeOK, ImagesOK
<1>5. CASE /\ UpsertRow(f, run[r].album)
           /\ Becomes(r, AfterUpsert(run[r], f, Inserted(f)))
  <2>1. ImagesOK'
    BY <1>3, <1>5, UpsertRowTyped DEF TypeOK
  <2>2. /\ AfterUpsert(run[r], f, Inserted(f)) \in RunState
        /\ OfGroup(AfterUpsert(run[r], f, Inserted(f)))
    BY <1>1, <1>3, AfterUpsertTyped
  <2>3. RunsOK'
    BY <1>5, <2>2, BecomesTyped DEF TypeOK
  <2> QED BY <2>1, <2>3, ImagesStep DEF Upsert
<1> QED BY <1>2, <1>4, <1>5

\* Retiring files keeps the images typed.
LEMMA RetireFilesTyped ==
  ASSUME ImagesOK, NEW gone, RetireFiles(gone), UNCHANGED nextImage
  PROVE  ImagesOK'
BY DEF ImagesOK, ImageRow, RetireFiles

\* Retiring the files the group no longer has keeps the types.
LEMMA PruneTyped ==
  ASSUME TypeOK, NEW r \in Runs, Prune(r)
  PROVE  TypeOK'
<1>1. run[r] \in RunState /\ run[r].name \in Names /\ run[r].folder \in Folders
  BY DEF TypeOK, RunsOK, Prune, OfGroup, GroupPCs
<1>2. ImagesOK'
  BY RetireFilesTyped DEF Prune, TypeOK
<1>3. RunsOK'
  BY <1>1, PCTyped, BecomesTyped DEF TypeOK, Prune, PCs
<1> QED BY <1>2, <1>3, ImagesStep DEF Prune

\* Choosing the cover keeps the types.
LEMMA FindCoverTyped ==
  ASSUME TypeOK, NEW r \in Runs, FindCover(r)
  PROVE  TypeOK'
<1>1. run[r] \in RunState /\ run[r].name \in Names /\ run[r].folder \in Folders
  BY DEF TypeOK, RunsOK, FindCover, OfGroup, GroupPCs
<1>2. PICK c \in Files \cup {None} :
        Becomes(r, [run[r] EXCEPT !.pc = "setcover", !.cover = c])
  BY DEF FindCover, LiveIn, TypeOK, ImagesOK
<1>3. /\ [run[r] EXCEPT !.pc = "setcover", !.cover = c] \in RunState
      /\ OfGroup([run[r] EXCEPT !.pc = "setcover", !.cover = c])
  BY <1>1 DEF RunState, PCs, OfGroup
<1>4. RunsOK'
  BY <1>2, <1>3, BecomesTyped DEF TypeOK
<1> QED BY <1>4, LocalStep DEF FindCover

\* Writing the cover, which ends the group, keeps the types.
LEMMA SetCoverTyped ==
  ASSUME TypeOK, NEW r \in Runs, SetCover(r)
  PROVE  TypeOK'
<1>1. run[r] \in RunState
  BY DEF TypeOK, RunsOK
<1>2. run[r].cover \in Files \cup {None}
  BY <1>1 DEF RunState
<1>3. albums' \in [AlbumIds -> AlbumRow]
  BY <1>2 DEF TypeOK, AlbumsOK, AlbumRow, SetCover
<1>4. RunsOK'
  BY <1>1, NextGroupTyped, BecomesTyped DEF TypeOK, SetCover
<1> QED BY <1>3, <1>4, AlbumsEdited, AlbumsStep DEF SetCover, TypeOK

\* An error of the cover detection, which is passed over, keeps the types.
LEMMA CoverErrorTyped ==
  ASSUME TypeOK, NEW r \in Runs, CoverError(r)
  PROVE  TypeOK'
<1>1. run[r] \in RunState
  BY DEF TypeOK, RunsOK
<1>2. RunsOK'
  BY <1>1, NextGroupTyped, DisturbedTyped, BecomesTyped DEF TypeOK, CoverError
<1> QED BY <1>2, LocalStep DEF CoverError

\* Unflagging the walked albums keeps the types.
LEMMA ClearMissingTyped ==
  ASSUME TypeOK, NEW r \in Runs, ClearMissing(r)
  PROVE  TypeOK'
<1>1. albums' \in [AlbumIds -> AlbumRow]
  BY DEF TypeOK, AlbumsOK, AlbumRow, ClearMissing
<1>2. RunsOK'
  BY PCTyped, BecomesTyped DEF TypeOK, RunsOK, ClearMissing, PCs, GroupPCs
<1> QED BY <1>1, <1>2, AlbumsEdited, AlbumsStep DEF ClearMissing, TypeOK

\* Flagging the albums not walked keeps the types.
LEMMA MarkMissingTyped ==
  ASSUME TypeOK, NEW r \in Runs, MarkMissing(r)
  PROVE  TypeOK'
<1> DEFINE marked == {x \in AlbumIds : /\ ~albums[x].missing
                                      /\ albums[x].name \notin GroupNames(run[r].walk)}
<1>1. run[r] \in RunState
  BY DEF TypeOK, RunsOK
<1>2. marked \in SUBSET Nat
  <2>1. AlbumIds \subseteq Nat
    BY DEF TypeOK, AlbumsOK
  <2> QED BY <2>1
<1>3. albums' \in [AlbumIds -> AlbumRow]
  <2>1. albums' = [x \in AlbumIds |-> IF x \in marked THEN [albums[x] EXCEPT !.missing = TRUE]
                                                    ELSE albums[x]]
    BY DEF MarkMissing
  <2> HIDE DEF marked
  <2> QED BY <2>1 DEF TypeOK, AlbumsOK, AlbumRow
<1>4. [run[r] EXCEPT !.marked = marked] \in RunState
  <2> HIDE DEF marked
  <2> QED BY <1>1, <1>2 DEF RunState
<1>5. RunsOK'
  BY <1>4, AfterRetireTyped, BecomesTyped DEF MarkMissing, TypeOK
<1> QED BY <1>3, <1>5, AlbumsEdited, AlbumsStep DEF MarkMissing, TypeOK

\* Retiring the files of a flagged album keeps the types.
LEMMA RetireTyped ==
  ASSUME TypeOK, NEW r \in Runs, Retire(r)
  PROVE  TypeOK'
<1>1. run[r] \in RunState
  BY DEF TypeOK, RunsOK
<1>2. PICK a \in run[r].marked :
        /\ RetireFiles(LiveIn(a))
        /\ Becomes(r, AfterRetire([run[r] EXCEPT !.marked = @ \ {a}]))
  BY DEF Retire
<1>3. ImagesOK'
  BY <1>2, RetireFilesTyped DEF Retire, TypeOK
<1>4. [run[r] EXCEPT !.marked = @ \ {a}] \in RunState
  BY <1>1 DEF RunState
<1>5. RunsOK'
  BY <1>2, <1>4, AfterRetireTyped, BecomesTyped DEF TypeOK
<1> QED BY <1>3, <1>5, ImagesStep DEF Retire

\* Recording an event keeps the types.
LEMMA RecordTyped ==
  ASSUME TypeOK, NEW r \in Runs, Record(r)
  PROVE  TypeOK'
<1>1. run[r] \in RunState /\ run[r].pc = "record"
  BY DEF TypeOK, RunsOK, Record
<1>2. RunsOK' /\ announced' \in SUBSET Nat
  <2>1. CASE Becomes(r, [run[r] EXCEPT !.pc = "finish"]) /\ UNCHANGED announced
    BY <1>1, <2>1, PCTyped, BecomesTyped DEF TypeOK, PCs, GroupPCs, LogOK
  <2>2. ASSUME NEW n \in run[r].todo, announced' = announced \cup run[r].fresh[n],
               Becomes(r, [run[r] EXCEPT !.todo = @ \ {n}, !.fresh[n] = {},
                                         !.report = @ \cup run[r].fresh[n]])
        PROVE  RunsOK' /\ announced' \in SUBSET Nat
    <3> DEFINE s == [run[r] EXCEPT !.todo = @ \ {n}, !.fresh[n] = {},
                                   !.report = @ \cup run[r].fresh[n]]
    <3>1. n \in Names /\ run[r].fresh[n] \in SUBSET Nat
      BY <1>1 DEF RunState
    <3>2. s \in RunState /\ s.pc = "record"
      BY <1>1, <3>1 DEF RunState
    <3>3. OfGroup(s)
      BY <3>2 DEF OfGroup, GroupPCs
    <3>4. RunsOK'
      BY <2>2, <3>2, <3>3, BecomesTyped DEF TypeOK
    <3> QED BY <2>2, <3>1, <3>4 DEF TypeOK, LogOK
  <2> QED BY <2>1, <2>2 DEF Record
<1> QED BY <1>2 DEF Record, TypeOK, SourceOK, AlbumsOK, AlbumIds, ImagesOK, LogOK, BoundsOK,
                    source, db, bounds

\* Handing the report over keeps the types.
LEMMA FinishTyped ==
  ASSUME TypeOK, NEW r \in Runs, Finish(r)
  PROVE  TypeOK'
<1>1. run[r].report \in SUBSET Nat
  BY DEF TypeOK, RunsOK, RunState
<1>2. LogOK'
  BY <1>1 DEF Finish, TypeOK, LogOK
<1>3. RunsOK'
  BY AbortTyped DEF Finish, TypeOK
<1> QED BY <1>2, <1>3 DEF Finish, TypeOK, SourceOK, AlbumsOK, AlbumIds, ImagesOK, BoundsOK,
                         source, db, bounds

\* A failing statement, which ends its run, keeps the types.
LEMMA FailTyped ==
  ASSUME TypeOK, NEW r \in Runs, Fail(r)
  PROVE  TypeOK'
BY AbortTyped, LocalStep DEF Fail, TypeOK

\* A change of the source keeps the types.
LEMMA ReorganiseTyped ==
  ASSUME TypeOK, Reorganise
  PROVE  TypeOK'
<1>1. SourceOK'
  BY DEF Reorganise, TypeOK, SourceOK
<1>2. BoundsOK'
  BY SyncAssumption DEF Reorganise, TypeOK, BoundsOK
<1> QED BY <1>1, <1>2 DEF Reorganise, TypeOK, AlbumsOK, AlbumIds, ImagesOK, LogOK, RunsOK,
                         db, log

\* An edit of the tables by an operator keeps the types.
LEMMA OperateTyped ==
  ASSUME TypeOK, Operate
  PROVE  TypeOK'
<1>1. RunsOK'
  BY DisturbedTyped DEF Operate, TypeOK, RunsOK
<1>2. BoundsOK'
  BY SyncAssumption DEF Operate, TypeOK, BoundsOK
<1>3. ASSUME NEW a \in AlbumIds, DeleteAlbum(a)
      PROVE  AlbumsOK' /\ ImagesOK'
  BY <1>3 DEF DeleteAlbum, TypeOK, AlbumsOK, AlbumIds, AlbumRow, ImagesOK
<1>4. ASSUME NEW a \in AlbumIds, NEW n \in Names, RenameAlbum(a, n)
      PROVE  AlbumsOK' /\ ImagesOK'
  BY <1>4, RenamedTyped DEF RenameAlbum, TypeOK, ImagesOK
<1>5. ASSUME NEW n \in Names, CreateAlbum(n)
      PROVE  AlbumsOK' /\ ImagesOK'
  <2> DEFINE row == [name |-> n, folder |-> None, path |-> None, missing |-> FALSE,
                     cover |-> None]
  <2>1. row \in AlbumRow
    BY DEF AlbumRow
  <2>2. /\ albums' = [x \in AlbumIds \cup {nextAlbum} |->
                       IF x = nextAlbum THEN row ELSE albums[x]]
        /\ nextAlbum' = nextAlbum + 1
    BY <1>5 DEF CreateAlbum
  <2>3. AlbumsOK'
    <3> HIDE DEF row
    <3> QED BY <2>1, <2>2 DEF TypeOK, AlbumsOK, AlbumIds
  <2> QED BY <1>5, <2>3 DEF CreateAlbum, TypeOK, ImagesOK
<1>6. ASSUME NEW f \in DOMAIN images, DeleteImage(f)
      PROVE  AlbumsOK' /\ ImagesOK'
  BY <1>6 DEF DeleteImage, TypeOK, AlbumsOK, AlbumIds, AlbumRow, ImagesOK
<1>7. AlbumsOK' /\ ImagesOK'
  BY <1>3, <1>4, <1>5, <1>6 DEF Operate
<1> QED BY <1>1, <1>2, <1>7 DEF Operate, TypeOK, SourceOK, LogOK, source, log

-----------------------------------------------------------------------------
(***************************************************************************)
(* Every reachable state is typed, whatever the runs, the source and the   *)
(* operator do: in particular a run that works on a group always knows its *)
(* name and folder, so no album is ever written with either NULL.          *)
(***************************************************************************)
LEMMA InitTyped == Init => TypeOK
<1> SUFFICES ASSUME Init
             PROVE  TypeOK
  OBVIOUS
<1>1. RunsOK
  BY IdleTyped DEF Init, RunsOK
<1>2. AlbumsOK
  BY DEF Init, AlbumsOK, AlbumIds
<1>3. ImagesOK
  BY DEF Init, ImagesOK
<1>4. SourceOK
  BY DEF Init, SourceOK
<1>5. LogOK
  BY DEF Init, LogOK
<1>6. BoundsOK
  BY SyncAssumption DEF Init, BoundsOK
<1> QED BY <1>1, <1>2, <1>3, <1>4, <1>5, <1>6 DEF TypeOK

\* Every step keeps the types: one case per action.
LEMMA NextTyped == TypeOK /\ [Next]_vars => TypeOK'
<1> SUFFICES ASSUME TypeOK, [Next]_vars
             PROVE  TypeOK'
  OBVIOUS
<1>1. CASE UNCHANGED vars
  BY <1>1 DEF vars, TypeOK, SourceOK, AlbumsOK, AlbumIds, ImagesOK, LogOK, RunsOK, BoundsOK
<1>2. ASSUME NEW r \in Runs, Begin(r) \/ WalkBroken(r) \/ CoverError(r) \/ Fail(r)
      PROVE  TypeOK'
  BY <1>2, BeginTyped, WalkTyped, CoverErrorTyped, FailTyped
<1>3. ASSUME NEW r \in Runs, RunStep(r)
      PROVE  TypeOK'
  BY <1>3, WalkTyped, ResolveTyped, LookupTyped, RenameTyped, DetachTyped, AttachTyped,
     InsertAlbumTyped, SyncPathTyped, UpsertTyped, PruneTyped, FindCoverTyped,
     SetCoverTyped, ClearMissingTyped, MarkMissingTyped, RetireTyped, RecordTyped,
     FinishTyped DEF RunStep
<1> QED BY <1>1, <1>2, <1>3, ReorganiseTyped, OperateTyped DEF Next

\* The tables, the log and every run's local state keep their types in all behaviours.
THEOREM TypeCorrect == Spec => []TypeOK
BY InitTyped, NextTyped, PTL DEF Spec

-----------------------------------------------------------------------------
(***************************************************************************)
(* Announcements.  Most steps are quiet: they announce and insert nothing, *)
(* and no run gains a new row or an event.  The three that are not are the *)
(* insert of an image row, the insert of an event, and the end of a run.   *)
(***************************************************************************)

\* s2 holds the new rows and the report of s1, or fewer.
NoNews(s1, s2) ==
  /\ \A n \in Names : s2.fresh[n] \subseteq s1.fresh[n]
  /\ s2.report \subseteq s1.report

Quiet ==
  /\ UNCHANGED <<announced, delivered, nextImage>>
  /\ \A q \in Runs : NoNews(run[q], run'[q])

-----------------------------------------------------------------------------
(* The steps of a run that are quiet                                       *)

\* Replacing one run's state by one without news is quiet.
LEMMA QuietIfNoNews ==
  ASSUME TypeOK, NEW r \in Runs, NEW s, Becomes(r, s), NoNews(run[r], s),
         UNCHANGED <<announced, delivered, nextImage>>
  PROVE  Quiet
BY DEF Quiet, NoNews, Becomes, TypeOK, RunsOK

\* The start state of a run, and a run that was disturbed, have no news.
LEMMA NoNewsIdle ==
  ASSUME NEW s \in RunState, NEW alone \in BOOLEAN
  PROVE  NoNews(s, Idle) /\ NoNews(s, Started(alone)) /\ NoNews(s, Disturbed(s))
<1>1. NoNews(s, Idle)
  BY DEF NoNews, Idle
<1>2. NoNews(s, Started(alone))
  BY DEF NoNews, Started, Idle
<1>3. NoNews(s, Disturbed(s))
  BY DEF NoNews, Disturbed, RunState
<1> QED BY <1>1, <1>2, <1>3

\* Nor have the states between two statements that only move the run on.
LEMMA NoNewsLocal ==
  ASSUME NEW s \in RunState, NEW n, NEW d, NEW a, NEW p, NEW c, NEW M, NEW w, NEW t
  PROVE  /\ NoNews(s, [s EXCEPT !.pc = p])
         /\ NoNews(s, [s EXCEPT !.pc = p, !.cover = c])
         /\ NoNews(s, [s EXCEPT !.pc = p, !.album = a])
         /\ NoNews(s, [s EXCEPT !.walk = w, !.todo = t, !.pc = p])
         /\ NoNews(s, Matched(s)) /\ NoNews(s, NextGroup(s))
         /\ NoNews(s, Disturbed(NextGroup(s)))
         /\ NoNews(s, [Entered(s, n, d) EXCEPT !.pc = p])
         /\ NoNews(s, [Found(s, a) EXCEPT !.pc = p])
         /\ NoNews(s, [Found(Entered(s, n, d), a) EXCEPT !.pc = p])
         /\ NoNews(s, Matched(Found(Entered(s, n, d), a)))
         /\ NoNews(s, AfterRetire([s EXCEPT !.marked = M]))
BY DEF NoNews, RunState, Matched, NextGroup, EndGroup, Disturbed, Entered, Found, AfterRetire

\* The statements of a run that announce nothing new are quiet.
LEMMA QuietActions ==
  ASSUME TypeOK, NEW r \in Runs,
         \/ Begin(r) \/ Walk(r) \/ WalkBroken(r) \/ Resolve(r) \/ Lookup(r)
         \/ Rename(r) \/ Detach(r) \/ Attach(r) \/ InsertAlbum(r) \/ SyncPath(r)
         \/ Prune(r) \/ FindCover(r) \/ SetCover(r) \/ CoverError(r) \/ ClearMissing(r)
         \/ MarkMissing(r) \/ Retire(r) \/ Fail(r)
  PROVE  Quiet
<1>1. run[r] \in RunState
  BY DEF TypeOK, RunsOK
<1>2. NoNews(run[r], Idle)
  BY <1>1, NoNewsIdle
<1>3. CASE Begin(r)
  <2>1. \A q \in Runs : /\ NoNews(run[q], Started(Others(r) = {}))
                        /\ NoNews(run[q], Disturbed(run[q]))
    BY NoNewsIdle DEF TypeOK, RunsOK
  <2>2. \A q \in Runs : run'[q] = Started(Others(r) = {}) \/ run'[q] = Disturbed(run[q])
    BY <1>3 DEF Begin
  <2> QED BY <1>3, <2>1, <2>2 DEF Begin, Quiet, log, db
<1>4. CASE Walk(r) \/ WalkBroken(r)
  BY <1>1, <1>4, NoNewsLocal, QuietIfNoNews DEF Walk, WalkBroken, Walked, log, db
<1>5. CASE Resolve(r)
  <2>1. PICK n, d : \/ Becomes(r, [Entered(run[r], n, d) EXCEPT !.pc = "lookup"])
                    \/ \E a : \/ Becomes(r, [Found(Entered(run[r], n, d), a) EXCEPT !.pc = "detach"])
                            \/ Becomes(r, Matched(Found(Entered(run[r], n, d), a)))
    BY <1>5 DEF Resolve
  <2>2. NoNews(run[r], [Entered(run[r], n, d) EXCEPT !.pc = "lookup"])
    BY <1>1, NoNewsLocal
  <2>3. \A a : /\ NoNews(run[r], [Found(Entered(run[r], n, d), a) EXCEPT !.pc = "detach"])
              /\ NoNews(run[r], Matched(Found(Entered(run[r], n, d), a)))
    BY <1>1, NoNewsLocal
  <2> QED BY <1>5, <2>1, <2>2, <2>3, QuietIfNoNews DEF Resolve, log, db
<1>6. CASE Lookup(r)
  <2>1. \E s : Becomes(r, s) /\ NoNews(run[r], s)
    BY <1>1, <1>6, NoNewsLocal DEF Lookup
  <2> QED BY <1>6, <2>1, QuietIfNoNews DEF Lookup, log, db
<1>7. CASE Rename(r) \/ Attach(r)
  <2>1. Becomes(r, Idle) \/ Becomes(r, Matched(run[r]))
    BY <1>7 DEF Rename, Attach, Abort
  <2> QED BY <1>1, <1>2, <1>7, <2>1, NoNewsLocal, QuietIfNoNews DEF Rename, Attach, log
<1>8. CASE InsertAlbum(r)
  <2>1. \/ Becomes(r, Idle)
        \/ Becomes(r, [run[r] EXCEPT !.pc = "upsert", !.album = nextAlbum])
    BY <1>8 DEF InsertAlbum, Abort
  <2> QED BY <1>1, <1>2, <1>8, <2>1, NoNewsLocal, QuietIfNoNews DEF InsertAlbum, log
<1>9. CASE Detach(r) \/ SyncPath(r) \/ ClearMissing(r) \/ Prune(r)
  <2>1. \E p \in PCs : Becomes(r, [run[r] EXCEPT !.pc = p])
    BY <1>9 DEF Detach, SyncPath, ClearMissing, Prune, PCs
  <2> QED BY <1>1, <1>9, <2>1, NoNewsLocal, QuietIfNoNews
          DEF Detach, SyncPath, ClearMissing, Prune, log
<1>10. CASE FindCover(r)
  <2>1. \E c : Becomes(r, [run[r] EXCEPT !.pc = "setcover", !.cover = c])
    BY <1>10 DEF FindCover
  <2> QED BY <1>1, <1>10, <2>1, NoNewsLocal, QuietIfNoNews DEF FindCover, log, db
<1>11. CASE SetCover(r) \/ CoverError(r)
  BY <1>1, <1>11, NoNewsLocal, QuietIfNoNews DEF SetCover, CoverError, log, db
<1>12. CASE MarkMissing(r) \/ Retire(r)
  <2>1. \E M : Becomes(r, AfterRetire([run[r] EXCEPT !.marked = M]))
    BY <1>12 DEF MarkMissing, Retire
  <2> QED BY <1>1, <1>12, <2>1, NoNewsLocal, QuietIfNoNews DEF MarkMissing, Retire, log
<1>13. CASE Fail(r)
  BY <1>2, <1>13, QuietIfNoNews DEF Fail, Abort, log, db
<1> QED BY <1>3, <1>4, <1>5, <1>6, <1>7, <1>8, <1>9, <1>10, <1>11, <1>12, <1>13

\* What happens around the runs is quiet too.
LEMMA QuietAround ==
  ASSUME TypeOK, Reorganise \/ Operate \/ UNCHANGED vars
  PROVE  Quiet
<1>1. CASE Operate
  <2>1. \A q \in Runs : NoNews(run[q], run'[q])
    BY <1>1, NoNewsIdle DEF Operate, TypeOK, RunsOK
  <2>2. UNCHANGED <<announced, delivered, nextImage>>
    BY <1>1 DEF Operate, log, DeleteAlbum, RenameAlbum, CreateAlbum, DeleteImage
  <2> QED BY <2>1, <2>2 DEF Quiet
<1>2. CASE Reorganise \/ UNCHANGED vars
  BY <1>2 DEF Reorganise, vars, Quiet, NoNews, log, db
<1> QED BY <1>1, <1>2

-----------------------------------------------------------------------------
(* The invariant                                                           *)

\* A new row of a run is pending in it.
LEMMA FreshIsPending ==
  ASSUME NEW r, NEW n \in Names
  PROVE  run[r].fresh[n] \subseteq Pending(r)
BY DEF Pending

\* A quiet step takes nothing but rows away.
LEMMA QuietShrinks ==
  ASSUME Quiet, NEW q \in Runs
  PROVE  Pending(q)' \subseteq Pending(q) /\ run'[q].report \subseteq run[q].report
BY DEF Quiet, NoNews, Pending

\* A quiet step preserves the invariant.
LEMMA QuietKeepsInv ==
  ASSUME SyncInv, TypeOK', Quiet
  PROVE  SyncInv'
<1>1. IdsAllocated'
  BY QuietShrinks DEF SyncInv, IdsAllocated, Quiet
<1>2. AnnouncedOnce'
  <2>1. ASSUME NEW q \in Runs
        PROVE  /\ Pending(q)' \cap announced' = {}
               /\ \A s \in Runs \ {q} : Pending(q)' \cap Pending(s)' = {}
    BY QuietShrinks DEF SyncInv, AnnouncedOnce, Quiet
  <2>2. ASSUME NEW q \in Runs, NEW m \in Names, NEW n \in Names, m # n
        PROVE  run'[q].fresh[m] \cap run'[q].fresh[n] = {}
    BY <2>2 DEF SyncInv, AnnouncedOnce, Quiet, NoNews
  <2> QED BY <2>1, <2>2 DEF AnnouncedOnce
<1>3. DeliveredOnce'
  BY QuietShrinks DEF SyncInv, DeliveredOnce, Quiet
<1> QED BY <1>1, <1>2, <1>3 DEF SyncInv

\* What an upsert does to the run: the new row, if any, has the next id.
LEMMA UpsertEffect ==
  ASSUME TypeOK, NEW r \in Runs, Upsert(r)
  PROVE  \/ Quiet
         \/ /\ UNCHANGED <<announced, delivered>>
            /\ nextImage' = nextImage + 1
            /\ \A q \in Runs : run'[q].report = run[q].report
            /\ \A q \in Runs \ {r} : run'[q] = run[q]
            /\ \E m \in Names :
                 \A n \in Names : run'[r].fresh[n] =
                   IF n = m THEN run[r].fresh[n] \cup {nextImage} ELSE run[r].fresh[n]
<1>1. run[r] \in RunState /\ run[r].name \in Names
  BY DEF TypeOK, RunsOK, Upsert, OfGroup, GroupPCs
<1>2. PICK f \in run[r].left :
        \/ Abort(r) /\ UNCHANGED <<images, nextImage>>
        \/ /\ UpsertRow(f, run[r].album)
           /\ Becomes(r, AfterUpsert(run[r], f, Inserted(f)))
  BY DEF Upsert
<1>3. CASE Abort(r) /\ UNCHANGED <<images, nextImage>>
  BY <1>1, <1>3, NoNewsIdle, QuietIfNoNews DEF Upsert, Abort, log
<1> DEFINE t == [run[r] EXCEPT !.left = @ \ {f},
                               !.pc = IF run[r].left = {f} THEN "prune" ELSE "upsert"]
<1>4. t.fresh = run[r].fresh /\ t.report = run[r].report
  BY <1>1 DEF RunState
<1>5. CASE UpsertRow(f, run[r].album) /\ Becomes(r, t) /\ ~Inserted(f)
  <2>1. NoNews(run[r], t)
    BY <1>4 DEF NoNews
  <2>2. UNCHANGED <<announced, delivered, nextImage>>
    BY <1>5 DEF Upsert, UpsertRow, Inserted, log
  <2> HIDE DEF t
  <2> QED BY <1>5, <2>1, <2>2, QuietIfNoNews
<1>6. CASE /\ UpsertRow(f, run[r].album) /\ Inserted(f)
           /\ Becomes(r, [t EXCEPT !.fresh[run[r].name] = @ \cup {RowId(f)}])
  <2> DEFINE m == run[r].name
             u == [t EXCEPT !.fresh[m] = @ \cup {RowId(f)}]
  <2>1. nextImage' = nextImage + 1 /\ RowId(f) = nextImage
    BY <1>6 DEF UpsertRow, Inserted, RowId
  <2>2. u.report = run[r].report
    BY <1>1 DEF RunState
  <2>3. \A n \in Names : u.fresh[n] =
          IF n = m THEN run[r].fresh[n] \cup {nextImage} ELSE run[r].fresh[n]
    BY <1>1, <2>1 DEF RunState
  <2>4. run' = [run EXCEPT ![r] = u]
    BY <1>6 DEF Becomes
  <2>5. run'[r] = u /\ \A q \in Runs \ {r} : run'[q] = run[q]
    <3> HIDE DEF u
    <3> QED BY <2>4 DEF TypeOK, RunsOK
  <2>6. \A n \in Names : run'[r].fresh[n] =
          IF n = m THEN run[r].fresh[n] \cup {nextImage} ELSE run[r].fresh[n]
    <3> HIDE DEF u
    <3> QED BY <2>3, <2>5
  <2>7. \A q \in Runs : run'[q].report = run[q].report
    <3> HIDE DEF u
    <3> QED BY <2>2, <2>5
  <2>8. m \in Names /\ UNCHANGED <<announced, delivered>>
    BY <1>1 DEF Upsert, log
  <2> HIDE DEF m, u
  <2> QED BY <2>1, <2>5, <2>6, <2>7, <2>8
<1> QED BY <1>2, <1>3, <1>5, <1>6 DEF AfterUpsert

\* An inserted row has an id no run and no event holds, so the invariant survives.
LEMMA UpsertKeepsInv ==
  ASSUME SyncInv, TypeOK', NEW r \in Runs, Upsert(r)
  PROVE  SyncInv'
<1>1. CASE Quiet
  BY <1>1, QuietKeepsInv
<1>2. ASSUME NEW k \in Names,
             UNCHANGED <<announced, delivered>>,
             nextImage' = nextImage + 1,
             \A q \in Runs : run'[q].report = run[q].report,
             \A q \in Runs \ {r} : run'[q] = run[q],
             \A n \in Names : run'[r].fresh[n] =
               IF n = k THEN run[r].fresh[n] \cup {nextImage} ELSE run[r].fresh[n]
      PROVE  SyncInv'
  <2>1. nextImage \in Nat \ {0}
    BY DEF SyncInv, TypeOK, ImagesOK
  <2>2. Pending(r)' = Pending(r) \cup {nextImage}
    <3>1. ASSUME NEW x
          PROVE  (\E n \in Names : x \in run'[r].fresh[n]) <=>
                 (x = nextImage \/ \E n \in Names : x \in run[r].fresh[n])
      BY <1>2
    <3> QED BY <3>1 DEF Pending
  <2>3. \A q \in Runs \ {r} : Pending(q)' = Pending(q)
    BY <1>2 DEF Pending
  <2>4. nextImage \notin announced /\ \A q \in Runs : nextImage \notin Pending(q)
    BY <2>1 DEF SyncInv, IdsAllocated
  <2>5. IdsAllocated'
    <3>1. announced' \subseteq 1 .. nextImage' - 1
      BY <1>2, <2>1 DEF SyncInv, IdsAllocated
    <3>2. \A q \in Runs : Pending(q)' \subseteq 1 .. nextImage' - 1
      BY <1>2, <2>1, <2>2, <2>3 DEF SyncInv, IdsAllocated
    <3> QED BY <3>1, <3>2 DEF IdsAllocated
  <2>6. AnnouncedOnce'
    <3>1. ASSUME NEW q \in Runs
          PROVE  /\ Pending(q)' \cap announced' = {}
                 /\ \A s \in Runs \ {q} : Pending(q)' \cap Pending(s)' = {}
      BY <1>2, <2>2, <2>3, <2>4 DEF SyncInv, AnnouncedOnce
    <3>2. ASSUME NEW q \in Runs, NEW m \in Names, NEW n \in Names, m # n
          PROVE  run'[q].fresh[m] \cap run'[q].fresh[n] = {}
      <4>1. CASE q = r
        <5>1. run[r].fresh[m] \subseteq Pending(r) /\ run[r].fresh[n] \subseteq Pending(r)
          BY FreshIsPending
        <5>2. nextImage \notin run[r].fresh[m] /\ nextImage \notin run[r].fresh[n]
          BY <2>4, <5>1
        <5>3. run[r].fresh[m] \cap run[r].fresh[n] = {}
          BY <3>2 DEF SyncInv, AnnouncedOnce
        <5>4. /\ run'[r].fresh[m] = IF m = k THEN run[r].fresh[m] \cup {nextImage} ELSE run[r].fresh[m]
              /\ run'[r].fresh[n] = IF n = k THEN run[r].fresh[n] \cup {nextImage} ELSE run[r].fresh[n]
          BY <1>2
        <5> QED BY <3>2, <4>1, <5>2, <5>3, <5>4
      <4>2. CASE q # r
        BY <1>2, <3>2, <4>2 DEF SyncInv, AnnouncedOnce
      <4> QED BY <4>1, <4>2
    <3> QED BY <3>1, <3>2 DEF AnnouncedOnce
  <2>7. DeliveredOnce'
    BY <1>2 DEF SyncInv, DeliveredOnce
  <2> QED BY <2>5, <2>6, <2>7 DEF SyncInv
<1> QED BY <1>1, <1>2, UpsertEffect DEF SyncInv

\* What recording does: nothing, or the new rows of one group are announced.
LEMMA RecordEffect ==
  ASSUME TypeOK, NEW r \in Runs, Record(r)
  PROVE  \/ Quiet
         \/ \E m \in Names :
              /\ announced' = announced \cup run[r].fresh[m]
              /\ UNCHANGED <<nextImage, delivered>>
              /\ \A q \in Runs \ {r} : run'[q] = run[q]
              /\ run'[r].report = run[r].report \cup run[r].fresh[m]
              /\ \A n \in Names : run'[r].fresh[n] = IF n = m THEN {} ELSE run[r].fresh[n]
<1>1. run[r] \in RunState
  BY DEF TypeOK, RunsOK
<1>2. CASE Becomes(r, [run[r] EXCEPT !.pc = "finish"]) /\ UNCHANGED announced
  BY <1>1, <1>2, NoNewsLocal, QuietIfNoNews DEF Record, db
<1>3. ASSUME NEW m \in run[r].todo, announced' = announced \cup run[r].fresh[m],
             Becomes(r, [run[r] EXCEPT !.todo = @ \ {m}, !.fresh[m] = {},
                                       !.report = @ \cup run[r].fresh[m]])
      PROVE  \E x \in Names :
              /\ announced' = announced \cup run[r].fresh[x]
              /\ UNCHANGED <<nextImage, delivered>>
              /\ \A q \in Runs \ {r} : run'[q] = run[q]
              /\ run'[r].report = run[r].report \cup run[r].fresh[x]
              /\ \A n \in Names : run'[r].fresh[n] = IF n = x THEN {} ELSE run[r].fresh[n]
  <2> DEFINE u == [run[r] EXCEPT !.todo = @ \ {m}, !.fresh[m] = {},
                                 !.report = @ \cup run[r].fresh[m]]
  <2>1. m \in Names
    BY <1>1 DEF RunState
  <2>2. /\ u.report = run[r].report \cup run[r].fresh[m]
        /\ \A n \in Names : u.fresh[n] = IF n = m THEN {} ELSE run[r].fresh[n]
    BY <1>1 DEF RunState
  <2>3. run'[r] = u /\ \A q \in Runs \ {r} : run'[q] = run[q]
    <3>1. run' = [run EXCEPT ![r] = u]
      BY <1>3 DEF Becomes
    <3> HIDE DEF u
    <3> QED BY <3>1 DEF TypeOK, RunsOK
  <2>4. UNCHANGED <<nextImage, delivered>>
    BY DEF Record, db
  <2> HIDE DEF u
  <2> QED BY <1>3, <2>1, <2>2, <2>3, <2>4
<1> QED BY <1>2, <1>3 DEF Record

\* Recording moves a group from the new rows to the announced ones.
LEMMA RecordKeepsInv ==
  ASSUME SyncInv, TypeOK', NEW r \in Runs, Record(r)
  PROVE  SyncInv'
<1>1. CASE Quiet
  BY <1>1, QuietKeepsInv
<1>2. ASSUME NEW m \in Names,
             announced' = announced \cup run[r].fresh[m],
             UNCHANGED <<nextImage, delivered>>,
             \A q \in Runs \ {r} : run'[q] = run[q],
             run'[r].report = run[r].report \cup run[r].fresh[m],
             \A n \in Names : run'[r].fresh[n] = IF n = m THEN {} ELSE run[r].fresh[n]
      PROVE  SyncInv'
  <2>1. run[r].fresh[m] \subseteq Pending(r)
    BY FreshIsPending
  <2>2. Pending(r)' \subseteq Pending(r) /\ Pending(r)' \cap run[r].fresh[m] = {}
    BY <1>2 DEF Pending, SyncInv, AnnouncedOnce
  <2>3. \A q \in Runs \ {r} : Pending(q)' = Pending(q)
    BY <1>2 DEF Pending
  <2>4. IdsAllocated'
    BY <1>2, <2>1, <2>2, <2>3 DEF SyncInv, IdsAllocated
  <2>5. AnnouncedOnce'
    <3>1. ASSUME NEW q \in Runs
          PROVE  /\ Pending(q)' \cap announced' = {}
                 /\ \A s \in Runs \ {q} : Pending(q)' \cap Pending(s)' = {}
      BY <1>2, <2>1, <2>2, <2>3 DEF SyncInv, AnnouncedOnce
    <3>2. ASSUME NEW q \in Runs, NEW k \in Names, NEW n \in Names, k # n
          PROVE  run'[q].fresh[k] \cap run'[q].fresh[n] = {}
      BY <1>2, <3>2 DEF SyncInv, AnnouncedOnce
    <3> QED BY <3>1, <3>2 DEF AnnouncedOnce
  <2>6. DeliveredOnce'
    <3>1. run[r].fresh[m] \cap announced = {}
      BY <2>1 DEF SyncInv, AnnouncedOnce
    <3> QED BY <1>2, <3>1 DEF SyncInv, DeliveredOnce
  <2> QED BY <2>4, <2>5, <2>6 DEF SyncInv
<1> QED BY <1>1, <1>2, RecordEffect DEF SyncInv

\* The end of a run delivers its report, or drops it.
LEMMA FinishKeepsInv ==
  ASSUME SyncInv, TypeOK', NEW r \in Runs, Finish(r)
  PROVE  SyncInv'
<1>1. run'[r] = Idle /\ \A q \in Runs \ {r} : run'[q] = run[q]
  BY DEF Finish, Abort, Becomes, SyncInv, TypeOK, RunsOK
<1>2. Idle.report = {} /\ \A n \in Names : Idle.fresh[n] = {}
  BY DEF Idle
<1>3. Pending(r)' = {} /\ \A q \in Runs \ {r} : Pending(q)' = Pending(q)
  BY <1>1, <1>2 DEF Pending
<1>4. UNCHANGED <<announced, nextImage>>
  BY DEF Finish, db
<1>5. IdsAllocated'
  BY <1>3, <1>4 DEF SyncInv, IdsAllocated
<1>6. AnnouncedOnce'
  <2>1. ASSUME NEW q \in Runs
        PROVE  /\ Pending(q)' \cap announced' = {}
               /\ \A s \in Runs \ {q} : Pending(q)' \cap Pending(s)' = {}
    BY <1>3, <1>4 DEF SyncInv, AnnouncedOnce
  <2>2. ASSUME NEW q \in Runs, NEW m \in Names, NEW n \in Names, m # n
        PROVE  run'[q].fresh[m] \cap run'[q].fresh[n] = {}
    BY <1>1, <1>2, <2>2 DEF SyncInv, AnnouncedOnce
  <2> QED BY <2>1, <2>2 DEF AnnouncedOnce
<1>7. DeliveredOnce'
  <2>1. delivered' = delivered \/ delivered' = delivered \cup run[r].report
    BY DEF Finish
  <2> QED BY <1>1, <1>2, <1>4, <2>1 DEF SyncInv, DeliveredOnce
<1> QED BY <1>5, <1>6, <1>7 DEF SyncInv

-----------------------------------------------------------------------------
\* At the start nothing is announced, pending or delivered.
LEMMA InitInv == Init => SyncInv
<1> SUFFICES ASSUME Init
             PROVE  SyncInv
  OBVIOUS
<1>1. \A r \in Runs : run[r] = Idle
  BY DEF Init
<1>2. \A r \in Runs : run[r].report = {} /\ \A n \in Names : run[r].fresh[n] = {}
  <2>1. Idle.report = {} /\ \A n \in Names : Idle.fresh[n] = {}
    BY DEF Idle
  <2> QED BY <1>1, <2>1
<1>3. \A r \in Runs : Pending(r) = {}
  BY <1>2 DEF Pending
<1>4. announced = {} /\ delivered = {}
  BY DEF Init
<1>5. IdsAllocated
  BY <1>3, <1>4 DEF IdsAllocated
<1>6. AnnouncedOnce
  BY <1>2, <1>3 DEF AnnouncedOnce
<1>7. DeliveredOnce
  BY <1>2, <1>4 DEF DeliveredOnce
<1> QED BY <1>5, <1>6, <1>7, InitTyped DEF SyncInv

\* The steps that are not quiet.
LEMMA NextKinds ==
  ASSUME TypeOK, [Next]_vars
  PROVE  Quiet \/ \E r \in Runs : Upsert(r) \/ Record(r) \/ Finish(r)
<1>1. ASSUME NEW r \in Runs, RunStep(r)
      PROVE  Quiet \/ Upsert(r) \/ Record(r) \/ Finish(r)
  BY <1>1, QuietActions DEF RunStep
<1>2. ASSUME NEW r \in Runs, Begin(r) \/ WalkBroken(r) \/ CoverError(r) \/ Fail(r)
      PROVE  Quiet
  BY <1>2, QuietActions
<1> QED BY <1>1, <1>2, QuietAround DEF Next

\* Every step preserves the invariant.
LEMMA NextInv == SyncInv /\ [Next]_vars => SyncInv'
<1> SUFFICES ASSUME SyncInv, [Next]_vars
             PROVE  SyncInv'
  OBVIOUS
<1>1. TypeOK /\ TypeOK'
  BY NextTyped DEF SyncInv
<1> QED BY <1>1, NextKinds, QuietKeepsInv, UpsertKeepsInv, RecordKeepsInv, FinishKeepsInv

(***************************************************************************)
(* However many runs overlap, fail and are repeated, no image row is new   *)
(* content of two runs or of two events, and none is delivered twice or    *)
(* without an event (sync.go's upsertEntry, recordEvents and the report).  *)
(***************************************************************************)
THEOREM SyncInvariant == Spec => []SyncInv
BY InitInv, NextInv, PTL DEF Spec

\* An image row is announced at most once, by one run.
THEOREM AnnouncedAtMostOnce == Spec => []AnnouncedOnce
<1>1. SyncInv => AnnouncedOnce
  BY DEF SyncInv
<1> QED BY <1>1, SyncInvariant, PTL

\* An image row is delivered at most once, and only after its event was recorded.
THEOREM DeliveredAtMostOnce == Spec => []DeliveredOnce
<1>1. SyncInv => DeliveredOnce
  BY DEF SyncInv
<1> QED BY <1>1, SyncInvariant, PTL

-----------------------------------------------------------------------------
(* Refinement                                                              *)

AllPending == UNION {Pending(r) : r \in Runs}

\* The ledger starts empty, too.
LEMMA InitRefines == Init => Ledger!Init
<1> SUFFICES ASSUME Init
             PROVE  Ledger!Init
  OBVIOUS
<1>1. \A r \in Runs : \A n \in Names : run[r].fresh[n] = {}
  BY DEF Init, Idle
<1>2. AllPending = {}
  BY <1>1 DEF AllPending, Pending
<1> QED BY <1>2 DEF Init, Ledger!Init, AllPending

\* A quiet step drops some pending rows, or none.
LEMMA QuietRefines ==
  ASSUME Quiet
  PROVE  Ledger!Drop
<1>1. AllPending' \subseteq AllPending
  BY QuietShrinks DEF AllPending
<1> QED BY <1>1 DEF Quiet, Ledger!Drop, AllPending

\* An upsert that inserts hands the next number out.
LEMMA UpsertRefines ==
  ASSUME SyncInv, NEW r \in Runs, Upsert(r)
  PROVE  Ledger!Discover \/ Ledger!Drop
<1>1. CASE Quiet
  BY <1>1, QuietRefines
<1>2. ASSUME NEW k \in Names,
             UNCHANGED announced,
             nextImage' = nextImage + 1,
             \A q \in Runs \ {r} : run'[q] = run[q],
             \A n \in Names : run'[r].fresh[n] =
               IF n = k THEN run[r].fresh[n] \cup {nextImage} ELSE run[r].fresh[n]
      PROVE  Ledger!Discover
  <2>1. ASSUME NEW x
        PROVE  (\E q \in Runs, n \in Names : x \in run'[q].fresh[n]) <=>
               (x = nextImage \/ \E q \in Runs, n \in Names : x \in run[q].fresh[n])
    BY <1>2
  <2>2. /\ \A x : x \in AllPending <=> \E q \in Runs, n \in Names : x \in run[q].fresh[n]
        /\ \A x : x \in AllPending' <=> \E q \in Runs, n \in Names : x \in run'[q].fresh[n]
    BY DEF AllPending, Pending
  <2>3. AllPending' = AllPending \cup {nextImage}
    BY <2>1, <2>2
  <2> QED BY <1>2, <2>3 DEF Ledger!Discover, AllPending
<1> QED BY <1>1, <1>2, UpsertEffect DEF SyncInv

\* A recorded event announces its group's rows; no other group or run holds them.
LEMMA RecordRefines ==
  ASSUME SyncInv, NEW r \in Runs, Record(r)
  PROVE  Ledger!Announce \/ Ledger!Drop
<1>1. CASE Quiet
  BY <1>1, QuietRefines
<1>2. ASSUME NEW m \in Names,
             announced' = announced \cup run[r].fresh[m],
             UNCHANGED nextImage,
             \A q \in Runs \ {r} : run'[q] = run[q],
             \A n \in Names : run'[r].fresh[n] = IF n = m THEN {} ELSE run[r].fresh[n]
      PROVE  Ledger!Announce
  <2>1. run[r].fresh[m] \subseteq Pending(r)
    BY FreshIsPending
  <2>2. run[r].fresh[m] \subseteq AllPending
    BY <2>1 DEF AllPending
  <2>3. \A q \in Runs \ {r} : /\ Pending(q)' = Pending(q)
                             /\ Pending(q) \cap run[r].fresh[m] = {}
    BY <1>2, <2>1 DEF Pending, SyncInv, AnnouncedOnce
  <2>4. Pending(r)' = Pending(r) \ run[r].fresh[m]
    <3>1. \A n \in Names \ {m} : run[r].fresh[n] \cap run[r].fresh[m] = {}
      BY DEF SyncInv, AnnouncedOnce
    <3> QED BY <1>2, <3>1 DEF Pending
  <2>5. AllPending' = AllPending \ run[r].fresh[m]
    BY <2>3, <2>4 DEF AllPending
  <2> QED BY <1>2, <2>2, <2>5 DEF Ledger!Announce, AllPending
<1> QED BY <1>1, <1>2, RecordEffect DEF SyncInv

\* The end of a run drops what it had not announced.
LEMMA FinishRefines ==
  ASSUME SyncInv, NEW r \in Runs, Finish(r)
  PROVE  Ledger!Drop
<1>1. run'[r] = Idle /\ \A q \in Runs \ {r} : run'[q] = run[q]
  BY DEF Finish, Abort, Becomes, SyncInv, TypeOK, RunsOK
<1>2. \A n \in Names : Idle.fresh[n] = {}
  BY DEF Idle
<1>3. AllPending' \subseteq AllPending
  BY <1>1, <1>2 DEF AllPending, Pending
<1> QED BY <1>3 DEF Finish, db, Ledger!Drop, AllPending

\* Every step of a run is a step of the ledger, or leaves it alone.
LEMMA NextRefines == SyncInv /\ [Next]_vars => [Ledger!Next]_(Ledger!lvars)
<1> SUFFICES ASSUME SyncInv, [Next]_vars
             PROVE  Ledger!Next
  BY DEF Ledger!Next
<1> QED BY NextKinds, QuietRefines, UpsertRefines, RecordRefines, FinishRefines
        DEF SyncInv, Ledger!Next

(***************************************************************************)
(* The sync implements the ledger: seen from sync_events it hands each id  *)
(* out once, announces it at most once, and only ever drops what it had    *)
(* not announced.                                                          *)
(***************************************************************************)
THEOREM SyncImplementsLedger == Spec => ImplementsLedger
BY InitRefines, NextRefines, SyncInvariant, PTL DEF Spec, ImplementsLedger, Ledger!Spec

-----------------------------------------------------------------------------
(* The ledger itself                                                       *)

(***************************************************************************)
(* Theorem: a ledger of discoveries never announces a number twice (what   *)
(* it announced is never pending again, because a number is handed out     *)
(* once).  With SyncImplementsLedger this holds of recordEvents.           *)
(***************************************************************************)
THEOREM LedgerInvariant == Ledger!Spec => []Ledger!LedgerInv
<1>1. Ledger!Init => Ledger!LedgerInv
  BY DEF Ledger!Init, Ledger!LedgerInv
<1>2. Ledger!LedgerInv /\ [Ledger!Next]_(Ledger!lvars) => Ledger!LedgerInv'
  <2> SUFFICES ASSUME Ledger!LedgerInv, [Ledger!Next]_(Ledger!lvars)
               PROVE  Ledger!LedgerInv'
    OBVIOUS
  <2>1. CASE Ledger!Discover
    BY <2>1 DEF Ledger!Discover, Ledger!LedgerInv
  <2>2. CASE Ledger!Announce
    BY <2>2 DEF Ledger!Announce, Ledger!LedgerInv
  <2>3. CASE Ledger!Drop
    BY <2>3 DEF Ledger!Drop, Ledger!LedgerInv
  <2>4. CASE UNCHANGED Ledger!lvars
    BY <2>4 DEF Ledger!lvars, Ledger!LedgerInv
  <2> QED BY <2>1, <2>2, <2>3, <2>4 DEF Ledger!Next
<1> QED BY <1>1, <1>2, PTL DEF Ledger!Spec

-----------------------------------------------------------------------------
(* The unique indexes                                                      *)

\* Statements that add no row and give no row a name or a folder keep the tables keyed.
LEMMA KeyedIfKept ==
  ASSUME TablesKeyed, AlbumIds' \subseteq AlbumIds,
         \A x \in AlbumIds' : /\ albums'[x].name = albums[x].name
                              /\ albums'[x].folder \in {albums[x].folder, None}
  PROVE  TablesKeyed'
BY DEF TablesKeyed

\* A rename that the unique index on names lets through keeps them keyed.
LEMMA KeyedIfRenamed ==
  ASSUME TypeOK, TablesKeyed, NEW a, NEW n \in Names, albums' = Renamed(a, n),
         Named(n) \ {a} = {} \/ a \notin AlbumIds
  PROVE  TablesKeyed'
<1>1. AlbumIds' = AlbumIds
  BY DEF AlbumIds, Renamed
<1>2. \A x \in AlbumIds : /\ albums'[x].folder = albums[x].folder
                          /\ albums'[x].name = IF x = a THEN n ELSE albums[x].name
  BY DEF Renamed, TypeOK, AlbumsOK, AlbumRow
<1>3. \A x \in AlbumIds : a \in AlbumIds /\ albums[x].name = n => x = a
  BY DEF Named
<1> QED BY <1>1, <1>2, <1>3 DEF TablesKeyed

\* A new row whose name and folder no row has keeps them keyed.
LEMMA KeyedIfAdded ==
  ASSUME TypeOK, TablesKeyed, NEW row \in AlbumRow,
         albums' = [x \in AlbumIds \cup {nextAlbum} |->
                      IF x = nextAlbum THEN row ELSE albums[x]],
         Named(row.name) = {}, row.folder # None => HoldersOf(row.folder) = {}
  PROVE  TablesKeyed'
<1>1. AlbumIds' = AlbumIds \cup {nextAlbum}
  BY DEF AlbumIds
<1>2. \A x \in AlbumIds : albums[x].name # row.name
  BY DEF Named
<1>3. \A x \in AlbumIds : row.folder # None => albums[x].folder # row.folder
  BY DEF HoldersOf
<1> QED BY <1>1, <1>2, <1>3 DEF TablesKeyed

\* Every statement of a run keeps the tables keyed.
LEMMA RunKeepsKeys ==
  ASSUME TypeOK, TablesKeyed, NEW r \in Runs, RunStep(r)
  PROVE  TablesKeyed'
<1>1. ASSUME UNCHANGED albums
      PROVE  TablesKeyed'
  BY <1>1 DEF TablesKeyed, AlbumIds
<1>2. run[r] \in RunState /\ OfGroup(run[r])
  BY DEF TypeOK, RunsOK
<1>3. CASE Rename(r)
  <2>1. run[r].name \in Names
    BY <1>2, <1>3 DEF Rename, OfGroup, GroupPCs
  <2> QED BY <1>1, <1>3, <2>1, KeyedIfRenamed DEF Rename
<1>4. CASE Detach(r)
  BY <1>4, KeyedIfKept DEF Detach, TypeOK, AlbumsOK, AlbumIds, AlbumRow
<1>5. CASE Attach(r)
  <2> DEFINE a == run[r].album
             d == run[r].folder
  <2>1. d \in Folders /\ d # None
    BY <1>2, <1>5, SyncAssumption DEF Attach, OfGroup, GroupPCs
  <2>2. CASE HoldersOf(d) \ {a} # {} /\ a \in AlbumIds
    BY <1>1, <1>5, <2>2 DEF Attach
  <2>3. CASE /\ a \in AlbumIds => HoldersOf(d) \ {a} = {}
             /\ albums' = [x \in AlbumIds |-> IF x = a THEN [albums[x] EXCEPT !.folder = d]
                                                       ELSE albums[x]]
    <3>1. AlbumIds' = AlbumIds
      BY <2>3 DEF AlbumIds
    <3>2. \A x \in AlbumIds : /\ albums'[x].name = albums[x].name
                              /\ albums'[x].folder = IF x = a THEN d ELSE albums[x].folder
      BY <2>3 DEF TypeOK, AlbumsOK, AlbumRow
    <3>3. \A x \in AlbumIds : a \in AlbumIds /\ albums[x].folder = d => x = a
      BY <2>3 DEF HoldersOf
    <3> QED BY <2>1, <3>1, <3>2, <3>3 DEF TablesKeyed
  <2> QED BY <1>5, <2>2, <2>3 DEF Attach
<1>6. CASE InsertAlbum(r)
  <2> DEFINE row == [name |-> run[r].name, folder |-> run[r].folder,
                     path |-> <<run[r].folder, run[r].name>>, missing |-> FALSE,
                     cover |-> None]
  <2>1. row \in AlbumRow /\ row.name = run[r].name /\ row.folder = run[r].folder
    BY <1>2, <1>6 DEF InsertAlbum, AlbumRow, Path, OfGroup, GroupPCs
  <2>2. CASE UNCHANGED albums
    BY <1>1, <2>2
  <2>3. CASE /\ Named(row.name) \cup HoldersOf(row.folder) = {}
             /\ albums' = [x \in AlbumIds \cup {nextAlbum} |->
                             IF x = nextAlbum THEN row ELSE albums[x]]
    <3> HIDE DEF row
    <3> QED BY <2>1, <2>3, KeyedIfAdded
  <2> QED BY <1>6, <2>2, <2>3 DEF InsertAlbum
<1>7. CASE SyncPath(r)
  BY <1>7, KeyedIfKept DEF SyncPath, TypeOK, AlbumsOK, AlbumIds, AlbumRow
<1>8. CASE SetCover(r)
  BY <1>8, KeyedIfKept DEF SetCover, TypeOK, AlbumsOK, AlbumIds, AlbumRow
<1>9. CASE ClearMissing(r)
  BY <1>9, KeyedIfKept DEF ClearMissing, TypeOK, AlbumsOK, AlbumIds, AlbumRow
<1>10. CASE MarkMissing(r)
  <2>1. AlbumIds' = AlbumIds
    BY <1>10 DEF MarkMissing, AlbumIds
  <2>2. \A x \in AlbumIds : /\ albums'[x].name = albums[x].name
                            /\ albums'[x].folder = albums[x].folder
    BY <1>10 DEF MarkMissing, TypeOK, AlbumsOK, AlbumRow
  <2> QED BY <2>1, <2>2, KeyedIfKept
<1>11. CASE \/ Walk(r) \/ Resolve(r) \/ Lookup(r) \/ Upsert(r) \/ Prune(r) \/ FindCover(r)
            \/ Retire(r) \/ Record(r) \/ Finish(r)
  BY <1>1, <1>11 DEF Walk, Resolve, Lookup, Upsert, Prune, FindCover, Retire, Record, Finish,
                     db
<1> QED BY <1>3, <1>4, <1>5, <1>6, <1>7, <1>8, <1>9, <1>10, <1>11 DEF RunStep

\* So does every edit by an operator.
LEMMA OperateKeepsKeys ==
  ASSUME TypeOK, TablesKeyed, Operate
  PROVE  TablesKeyed'
<1>1. ASSUME NEW a \in AlbumIds, DeleteAlbum(a)
      PROVE  TablesKeyed'
  BY <1>1, KeyedIfKept DEF DeleteAlbum, TypeOK, AlbumsOK, AlbumIds, AlbumRow
<1>2. ASSUME NEW a \in AlbumIds, NEW n \in Names, RenameAlbum(a, n)
      PROVE  TablesKeyed'
  BY <1>2, KeyedIfRenamed DEF RenameAlbum
<1>3. ASSUME NEW n \in Names, CreateAlbum(n)
      PROVE  TablesKeyed'
  <2> DEFINE row == [name |-> n, folder |-> None, path |-> None, missing |-> FALSE,
                     cover |-> None]
  <2>1. row \in AlbumRow /\ row.name = n /\ row.folder = None
    BY DEF AlbumRow
  <2>2. /\ Named(n) = {}
        /\ albums' = [x \in AlbumIds \cup {nextAlbum} |->
                       IF x = nextAlbum THEN row ELSE albums[x]]
    BY <1>3 DEF CreateAlbum
  <2> HIDE DEF row
  <2> QED BY <2>1, <2>2, KeyedIfAdded
<1>4. ASSUME NEW f \in DOMAIN images, DeleteImage(f)
      PROVE  TablesKeyed'
  BY <1>4, KeyedIfKept DEF DeleteImage, TypeOK, AlbumsOK, AlbumIds, AlbumRow
<1> QED BY <1>1, <1>2, <1>3, <1>4 DEF Operate

\* No statement of anyone ever gives two albums one name or one folder.
LEMMA NextKeepsKeys == TypeOK /\ TablesKeyed /\ [Next]_vars => TablesKeyed'
<1> SUFFICES ASSUME TypeOK, TablesKeyed, [Next]_vars
             PROVE  TablesKeyed'
  OBVIOUS
<1>1. ASSUME UNCHANGED albums
      PROVE  TablesKeyed'
  BY <1>1 DEF TablesKeyed, AlbumIds
<1>2. ASSUME NEW r \in Runs, Begin(r) \/ WalkBroken(r) \/ CoverError(r) \/ Fail(r)
      PROVE  TablesKeyed'
  BY <1>1, <1>2 DEF Begin, WalkBroken, CoverError, Fail, db
<1>3. CASE Reorganise \/ UNCHANGED vars
  BY <1>1, <1>3 DEF Reorganise, vars, db
<1> QED BY <1>2, <1>3, RunKeepsKeys, OperateKeepsKeys DEF Next

-----------------------------------------------------------------------------
(* The walks, and who is clean                                             *)

\* The source holds a file in one folder, and a folder has one name.
LEMMA EntriesKeyed == WalkKeyed(Entries) /\ WalkKeyed({})
<1>1. WalkKeyed(Entries)
  <2> SUFFICES ASSUME NEW e \in Entries, NEW x \in Entries
               PROVE  /\ e[1] = x[1] => e = x
                      /\ e[2] = x[2] => e[3] = x[3]
    BY DEF WalkKeyed
  <2>1. PICK f : e = <<f, place[f], called[place[f]]>>
    BY DEF Entries
  <2>2. PICK g : x = <<g, place[g], called[place[g]]>>
    BY DEF Entries
  <2> QED BY <2>1, <2>2
<1> QED BY <1>1 DEF WalkKeyed

\* Two groups of a keyed walk have no folder and no file in common.
LEMMA GroupsDisjoint ==
  ASSUME NEW w, WalkKeyed(w), NEW m, NEW n, m # n
  PROVE  /\ FoldersOf(w, m) \cap FoldersOf(w, n) = {}
         /\ FilesOf(w, m) \cap FilesOf(w, n) = {}
BY DEF WalkKeyed, FoldersOf, FilesOf

\* A name with a folder in the walk is the name of a group.
LEMMA FolderOfGroup ==
  ASSUME NEW w, NEW n, NEW d \in FoldersOf(w, n)
  PROVE  n \in GroupNames(w)
BY DEF FoldersOf, GroupNames

\* What a run keeps from its walk on.
Kept(s1, s2) ==
  s2.walk = s1.walk /\ s2.clean = s1.clean /\ s2.held = s1.held /\ s2.taken = s1.taken

\* So it does through every helper that edits its locals.
LEMMA KeptLocal ==
  ASSUME NEW s \in RunState, NEW n \in Names, NEW d, NEW a, NEW p, NEW f, NEW new
  PROVE  /\ Kept(s, [s EXCEPT !.pc = p]) /\ Kept(s, Matched(s))
         /\ Kept(s, [Entered(s, n, d) EXCEPT !.pc = p])
         /\ Kept(s, [Found(s, a) EXCEPT !.pc = p])
         /\ Kept(s, [Found(Entered(s, n, d), a) EXCEPT !.pc = p])
         /\ Kept(s, Matched(Found(Entered(s, n, d), a)))
         /\ Kept(s, AfterUpsert(s, f, new))
         /\ Kept(s, [s EXCEPT !.todo = @ \ {n}, !.fresh[n] = {}, !.report = @ \cup s.fresh[n]])
<1> USE DEF Kept, RunState
<1>1. /\ Kept(s, [s EXCEPT !.pc = p]) /\ Kept(s, Matched(s))
      /\ Kept(s, AfterUpsert(s, f, new))
      /\ Kept(s, [s EXCEPT !.todo = @ \ {n}, !.fresh[n] = {}, !.report = @ \cup s.fresh[n]])
  BY DEF Matched, AfterUpsert
<1>2. /\ Kept(s, [Entered(s, n, d) EXCEPT !.pc = p])
      /\ Kept(s, [Found(s, a) EXCEPT !.pc = p])
      /\ Kept(s, [Found(Entered(s, n, d), a) EXCEPT !.pc = p])
      /\ Kept(s, Matched(Found(Entered(s, n, d), a)))
  BY DEF Entered, Found, Matched
<1> QED BY <1>1, <1>2

\* A step of a run that is not its walk either keeps the walk and the memory, or ends
\* the run.
LEMMA RunKeepsWalk ==
  ASSUME TypeOK, NEW r \in Runs, RunStep(r), ~Walk(r)
  PROVE  /\ \A q \in Runs \ {r} : run'[q] = run[q]
         /\ Kept(run[r], run'[r]) \/ run'[r] = Idle
<1>1. run[r] \in RunState /\ OfGroup(run[r])
  BY DEF TypeOK, RunsOK
<1>2. ASSUME NEW s, Becomes(r, s), Kept(run[r], s) \/ s = Idle
      PROVE  /\ \A q \in Runs \ {r} : run'[q] = run[q]
             /\ Kept(run[r], run'[r]) \/ run'[r] = Idle
  BY <1>2 DEF Becomes, TypeOK, RunsOK
<1>3. CASE Resolve(r)
  <2> DEFINE Went(n, d) ==
        \/ Becomes(r, [Entered(run[r], n, d) EXCEPT !.pc = "lookup"])
        \/ \E a : \/ Becomes(r, [Found(Entered(run[r], n, d), a) EXCEPT !.pc = "detach"])
                  \/ Becomes(r, Matched(Found(Entered(run[r], n, d), a)))
  <2>0. PICK n \in run[r].todo : \E d : Went(n, d)
    BY <1>3 DEF Resolve
  <2>1. PICK d : Went(n, d)
    BY <2>0
  <2>2. n \in Names
    BY <1>1, <2>1 DEF RunState
  <2>3. Kept(run[r], [Entered(run[r], n, d) EXCEPT !.pc = "lookup"])
    BY <1>1, <2>2, KeptLocal
  <2>4. \A a : /\ Kept(run[r], [Found(Entered(run[r], n, d), a) EXCEPT !.pc = "detach"])
              /\ Kept(run[r], Matched(Found(Entered(run[r], n, d), a)))
    BY <1>1, <2>2, KeptLocal
  <2> QED BY <1>2, <2>1, <2>3, <2>4
<1>4. CASE Lookup(r) \/ Rename(r) \/ Attach(r)
  <2>1. run[r].name \in Names
    BY <1>1, <1>4 DEF Lookup, Rename, Attach, OfGroup, GroupPCs
  <2>2. \E s : Becomes(r, s) /\ (Kept(run[r], s) \/ s = Idle)
    BY <1>1, <1>4, <2>1, KeptLocal DEF Lookup, Rename, Attach, Abort
  <2> QED BY <1>2, <2>2
<1>5. CASE InsertAlbum(r) \/ Detach(r) \/ SyncPath(r) \/ ClearMissing(r) \/ Prune(r)
  <2>1. \/ Becomes(r, Idle)
        \/ \E p \in PCs : Becomes(r, [run[r] EXCEPT !.pc = p])
        \/ Becomes(r, [run[r] EXCEPT !.pc = "upsert", !.album = nextAlbum])
    BY <1>5 DEF InsertAlbum, Detach, SyncPath, ClearMissing, Prune, Abort, PCs
  <2>2. /\ \A p \in PCs : Kept(run[r], [run[r] EXCEPT !.pc = p])
        /\ Kept(run[r], [run[r] EXCEPT !.pc = "upsert", !.album = nextAlbum])
    BY <1>1 DEF Kept, RunState
  <2> QED BY <1>2, <2>1, <2>2
<1>6. CASE Upsert(r)
  <2>1. PICK f : Becomes(r, Idle) \/ Becomes(r, AfterUpsert(run[r], f, Inserted(f)))
    BY <1>6 DEF Upsert, Abort
  <2>2. run[r].name \in Names
    BY <1>1, <1>6 DEF Upsert, OfGroup, GroupPCs
  <2>3. Kept(run[r], AfterUpsert(run[r], f, Inserted(f)))
    BY <1>1, <2>2, KeptLocal
  <2> QED BY <1>2, <2>1, <2>3
<1>7. CASE FindCover(r)
  <2>1. PICK c : Becomes(r, [run[r] EXCEPT !.pc = "setcover", !.cover = c])
    BY <1>7 DEF FindCover
  <2>2. Kept(run[r], [run[r] EXCEPT !.pc = "setcover", !.cover = c])
    BY <1>1 DEF Kept, RunState
  <2> QED BY <1>2, <2>1, <2>2
<1>8. CASE SetCover(r)
  <2>1. Kept(run[r], NextGroup(run[r]))
    BY <1>1 DEF Kept, RunState, NextGroup, EndGroup
  <2> QED BY <1>2, <1>8, <2>1 DEF SetCover
<1>9. CASE MarkMissing(r) \/ Retire(r)
  <2>1. PICK M : Becomes(r, AfterRetire([run[r] EXCEPT !.marked = M]))
    BY <1>9 DEF MarkMissing, Retire
  <2>2. Kept(run[r], AfterRetire([run[r] EXCEPT !.marked = M]))
    BY <1>1 DEF Kept, RunState, AfterRetire
  <2> QED BY <1>2, <2>1, <2>2
<1>10. CASE Record(r)
  <2>1. CASE Becomes(r, [run[r] EXCEPT !.pc = "finish"])
    <3>1. Kept(run[r], [run[r] EXCEPT !.pc = "finish"])
      BY <1>1 DEF Kept, RunState
    <3> QED BY <1>2, <2>1, <3>1
  <2>2. ASSUME NEW n \in run[r].todo,
               Becomes(r, [run[r] EXCEPT !.todo = @ \ {n}, !.fresh[n] = {},
                                         !.report = @ \cup run[r].fresh[n]])
        PROVE  /\ \A q \in Runs \ {r} : run'[q] = run[q]
               /\ Kept(run[r], run'[r]) \/ run'[r] = Idle
    <3>1. n \in Names
      BY <1>1 DEF RunState
    <3>2. Kept(run[r], [run[r] EXCEPT !.todo = @ \ {n}, !.fresh[n] = {},
                                      !.report = @ \cup run[r].fresh[n]])
      BY <1>1, <3>1, KeptLocal
    <3> QED BY <1>2, <2>2, <3>2
  <2> QED BY <1>10, <2>1, <2>2 DEF Record
<1>11. CASE Finish(r)
  BY <1>2, <1>11 DEF Finish, Abort
<1> QED BY <1>3, <1>4, <1>5, <1>6, <1>7, <1>8, <1>9, <1>10, <1>11 DEF RunStep

-----------------------------------------------------------------------------
(* A clean run stays on course, one lemma per statement                    *)

\* What a clean run may rely on.
LEMMA CleanRun ==
  ASSUME MirrorInv, NEW r \in Runs, run[r].clean
  PROVE  /\ TypeOK /\ TablesKeyed /\ OnCourse(r) /\ Running(r) /\ Alone(r)
         /\ run[r] \in RunState /\ OfGroup(run[r]) /\ WalkKeyed(run[r].walk)
         /\ GroupNames(run[r].walk) \subseteq Names
<1>1. run[r] \in RunState /\ OfGroup(run[r])
  BY DEF MirrorInv, TypeOK, RunsOK
<1>2. GroupNames(run[r].walk) \subseteq Names
  BY <1>1, GroupsTyped DEF RunState
<1> QED BY <1>1, <1>2 DEF MirrorInv, RunsOnCourse

\* The state of the run after a statement is the one the statement gives it.
LEMMA BecomesIt ==
  ASSUME TypeOK, NEW r \in Runs, NEW s, Becomes(r, s)
  PROVE  run'[r] = s
BY DEF Becomes, TypeOK, RunsOK

\* The groups a run was through with still mirror its walk when the statement leaves
\* their albums and the files of these alone.
SameRow(a) ==
  /\ a \in AlbumIds'
  /\ albums'[a].name = albums[a].name /\ albums'[a].folder = albums[a].folder
  /\ albums'[a].path = albums[a].path /\ albums'[a].cover = albums[a].cover

\* One such group does.
LEMMA MirrorStays ==
  ASSUME NEW r \in Runs, NEW n, NEW a \in Named(n), Mirrors(r, n, a),
         run'[r].walk = run[r].walk, SameRow(a), LiveIn(a)' = LiveIn(a)
  PROVE  a \in Named(n)' /\ Mirrors(r, n, a)'
BY DEF Named, SameRow, Mirrors, CoverOf

\* So all of them do.
LEMMA HandledStay ==
  ASSUME NEW r \in Runs, HandledMirror(r), run'[r].walk = run[r].walk,
         Handled(r)' \subseteq Handled(r),
         \A n \in Handled(r) : \A a \in Named(n) :
           Mirrors(r, n, a) => SameRow(a) /\ LiveIn(a)' = LiveIn(a)
  PROVE  HandledMirror(r)'
<1> SUFFICES ASSUME NEW n \in Handled(r)'
             PROVE  \E a \in Named(n)' : Mirrors(r, n, a)'
  BY DEF HandledMirror
<1>1. PICK a \in Named(n) : Mirrors(r, n, a)
  BY DEF HandledMirror
<1> QED BY <1>1, MirrorStays

\* Statements that leave the tables alone leave all of it alone.
LEMMA SameTables ==
  ASSUME UNCHANGED <<albums, images>>
  PROVE  /\ \A n : Named(n)' = Named(n)
         /\ \A d : HoldersOf(d)' = HoldersOf(d)
         /\ \A a : LiveIn(a)' = LiveIn(a)
         /\ \A a \in AlbumIds : SameRow(a)
         /\ AlbumIds' = AlbumIds
BY DEF Named, HoldersOf, LiveIn, AlbumIds, SameRow

\* A walk gives the run the files of the source, or none.
LEMMA WalkStep ==
  ASSUME TypeOK, NEW r \in Runs, Walk(r) \/ WalkBroken(r)
  PROVE  /\ \A q \in Runs \ {r} : run'[q] = run[q]
         /\ UNCHANGED <<albums, images>> /\ run[r].pc = "walk"
         /\ \E w \in {Entries, {}} : Walked(r, w) /\ run'[r].walk = w
         /\ run'[r].clean = run[r].clean /\ WalkKeyed(run'[r].walk)
<1>1. PICK w \in {Entries, {}} : Walked(r, w)
  BY DEF Walk, WalkBroken
<1>2. run'[r] = [run[r] EXCEPT !.walk = w, !.todo = GroupNames(w),
                               !.pc = IF w = {} THEN "finish" ELSE "resolve"]
  BY <1>1, BecomesIt DEF Walked
<1>3. run[r] \in RunState
  BY DEF TypeOK, RunsOK
<1>4. run'[r].walk = w /\ run'[r].clean = run[r].clean
  BY <1>2, <1>3 DEF RunState
<1>5. \A q \in Runs \ {r} : run'[q] = run[q]
  BY <1>1 DEF Walked, Becomes, TypeOK, RunsOK
<1>6. UNCHANGED <<albums, images>> /\ run[r].pc = "walk"
  BY DEF Walk, WalkBroken, db
<1> QED BY <1>1, <1>4, <1>5, <1>6, EntriesKeyed

\* After its walk, a run has all groups before it, and the bindings it read.
LEMMA WalkOnCourse ==
  ASSUME MirrorInv, NEW r \in Runs, run[r].clean, Walk(r) \/ WalkBroken(r)
  PROVE  OnCourse(r)' /\ run'[r].pc # "idle"
<1> DEFINE s == run[r]
           t == run'[r]
<1>1. /\ TypeOK /\ s \in RunState /\ OnCourse(r) /\ s.pc = "walk"
      /\ UNCHANGED <<albums, images>>
  BY CleanRun, WalkStep
<1>2. PICK w : Walked(r, w)
  BY <1>1, WalkStep
<1>3. t = [s EXCEPT !.walk = w, !.todo = GroupNames(w),
                    !.pc = IF w = {} THEN "finish" ELSE "resolve"]
  BY <1>1, <1>2, BecomesIt DEF Walked
<1>4. /\ t.walk = w /\ t.todo = GroupNames(w) /\ t.name = s.name
      /\ t.pc = IF w = {} THEN "finish" ELSE "resolve"
      /\ t.held = s.held /\ t.taken = s.taken
  BY <1>1, <1>3 DEF RunState
<1>5. w = {} => GroupNames(w) = {} /\ \A n : FoldersOf(w, n) = {}
  BY DEF GroupNames, FoldersOf
<1>6. HandledMirror(r)'
  BY <1>4, <1>5 DEF HandledMirror, Handled, Waiting, AfterMark
<1>7. GroupAtHand(r)' /\ PathKnown(r)' /\ FilesAtHand(r)' /\ BindingsRead(r)'
  BY <1>4 DEF GroupAtHand, PathKnown, FilesAtHand, BindingsRead, GroupPCs, ByFolder, ByName,
              Bound
<1>8. FlagsAtHand(r)'
  BY <1>1, <1>4 DEF FlagsAtHand, AfterMark, OnCourse
<1>9. BindingsHeld(r)'
  <2> SUFFICES ASSUME NEW d \in Folders, NEW n \in Names, RenamedTo(r, d, n)'
               PROVE  Awaiting(r, n)' /\ OldBinding(r, d)' /\ Named(n)' = {}
    BY DEF BindingsHeld
  <2>1. d \in FoldersOf(w, n) /\ t.held[d][1] # 0 /\ n \notin t.taken
    BY <1>4 DEF RenamedTo
  <2>2. Awaiting(r, n)'
    BY <1>4, <1>5, <2>1, FolderOfGroup DEF Awaiting, AfterMark
  <2>3. OldBinding(r, d) /\ Named(n) = {}
    BY <1>1, <1>4, <2>1 DEF OnCourse, BindingsRead
  <2> QED BY <1>1, <1>4, <2>2, <2>3, SameTables DEF OldBinding, KeptBy
<1> QED BY <1>4, <1>6, <1>7, <1>8, <1>9 DEF OnCourse

\* Entering a group, a run knows whether an album has its name.
LEMMA ResolveOnCourse ==
  ASSUME MirrorInv, NEW r \in Runs, run[r].clean, Resolve(r)
  PROVE  OnCourse(r)' /\ run'[r].pc # "idle"
<1> DEFINE s == run[r]
           t == run'[r]
<1>1. /\ TypeOK /\ s \in RunState /\ OnCourse(r) /\ s.pc = "resolve"
      /\ GroupNames(s.walk) \subseteq Names /\ UNCHANGED <<albums, images>>
  BY CleanRun DEF Resolve, db
<1>2. PICK n, d :
        /\ n \in s.todo /\ d \in FoldersOf(s.walk, n)
        /\ \/ Named(n) = {} /\ Becomes(r, [Entered(s, n, d) EXCEPT !.pc = "lookup"])
           \/ \E a \in Named(n) :
                Becomes(r, IF albums[a].folder # d
                           THEN [Found(Entered(s, n, d), a) EXCEPT !.pc = "detach"]
                           ELSE Matched(Found(Entered(s, n, d), a)))
  BY DEF Resolve
<1>3. n \in GroupNames(s.walk) /\ n # None /\ n \in Names
  BY <1>1, <1>2, FolderOfGroup, SyncAssumption
<1>4. /\ t.walk = s.walk /\ t.todo = s.todo \ {n} /\ t.name = n /\ t.folder = d
      /\ t.left = FilesOf(s.walk, n) /\ t.held = s.held /\ t.taken = s.taken
      /\ \/ t.pc = "lookup" /\ Named(n) = {}
         \/ /\ t.album \in Named(n)
            /\ t.repath = (albums[t.album].path # <<d, n>>)
            /\ \/ t.pc = "detach"
               \/ t.pc = "path" /\ albums[t.album].folder = d
               \/ t.pc = "upsert" /\ albums[t.album].folder = d /\ ~t.repath
  <2>1. CASE Named(n) = {} /\ Becomes(r, [Entered(s, n, d) EXCEPT !.pc = "lookup"])
    <3>1. t = [Entered(s, n, d) EXCEPT !.pc = "lookup"]
      BY <1>1, <2>1, BecomesIt
    <3> QED BY <1>1, <2>1, <3>1 DEF Entered, RunState
  <2>2. ASSUME NEW a \in Named(n), albums[a].folder # d,
               Becomes(r, [Found(Entered(s, n, d), a) EXCEPT !.pc = "detach"])
        PROVE  /\ t.walk = s.walk /\ t.todo = s.todo \ {n} /\ t.name = n /\ t.folder = d
               /\ t.left = FilesOf(s.walk, n) /\ t.held = s.held /\ t.taken = s.taken
               /\ t.album = a /\ t.repath = (albums[a].path # <<d, n>>) /\ t.pc = "detach"
    <3>1. t = [Found(Entered(s, n, d), a) EXCEPT !.pc = "detach"]
      BY <1>1, <2>2, BecomesIt
    <3> QED BY <1>1, <3>1 DEF Entered, Found, RunState
  <2>3. ASSUME NEW a \in Named(n), albums[a].folder = d,
               Becomes(r, Matched(Found(Entered(s, n, d), a)))
        PROVE  /\ t.walk = s.walk /\ t.todo = s.todo \ {n} /\ t.name = n /\ t.folder = d
               /\ t.left = FilesOf(s.walk, n) /\ t.held = s.held /\ t.taken = s.taken
               /\ t.album = a /\ t.repath = (albums[a].path # <<d, n>>)
               /\ t.pc = IF t.repath THEN "path" ELSE "upsert"
    <3>1. t = Matched(Found(Entered(s, n, d), a))
      BY <1>1, <2>3, BecomesIt
    <3> QED BY <1>1, <3>1 DEF Entered, Found, Matched, RunState
  <2> QED BY <1>2, <2>1, <2>2, <2>3
<1>5. HandledMirror(r)'
  <2>1. s.name = None
    BY <1>1 DEF OnCourse, FlagsAtHand
  <2>2. Handled(r)' \subseteq Handled(r)
    BY <1>1, <1>3, <1>4, <2>1, SyncAssumption DEF Handled, Waiting, AfterMark
  <2> QED BY <1>1, <1>4, <2>2, SameTables, HandledStay DEF OnCourse, Named
<1>6. GroupAtHand(r)'
  <2>1. t.album \in Named(n) => t.album \in AlbumIds
    BY DEF Named
  <2> QED BY <1>1, <1>2, <1>4, <2>1, SameTables
          DEF GroupAtHand, GroupPCs, ByFolder, ByName, Bound, HoldersOf
<1>7. PathKnown(r)' /\ FilesAtHand(r)'
  BY <1>1, <1>4 DEF PathKnown, FilesAtHand, ByFolder, ByName, Bound
<1>8. FlagsAtHand(r)' /\ BindingsRead(r)'
  BY <1>4 DEF FlagsAtHand, BindingsRead, AfterMark
<1>9. BindingsHeld(r)'
  <2> SUFFICES ASSUME NEW e \in Folders, NEW m \in Names, RenamedTo(r, e, m)'
               PROVE  IF Awaiting(r, m)' THEN OldBinding(r, e)' /\ Named(m)' = {}
                                         ELSE KeptBy(r, e, m)'
    BY DEF BindingsHeld
  <2>1. RenamedTo(r, e, m)
    BY <1>4 DEF RenamedTo
  <2>2. IF Awaiting(r, m) THEN OldBinding(r, e) /\ Named(m) = {} ELSE KeptBy(r, e, m)
    BY <1>1, <2>1 DEF OnCourse, BindingsHeld
  <2>3. /\ Awaiting(r, m)' => Awaiting(r, m)
        /\ Awaiting(r, m) /\ ~Awaiting(r, m)' => m = n /\ Named(n) # {}
    BY <1>1, <1>2, <1>4 DEF Awaiting, AfterMark
  <2>4. /\ OldBinding(r, e)' <=> OldBinding(r, e)
        /\ KeptBy(r, e, m)' <=> KeptBy(r, e, m)
    BY <1>1, <1>4 DEF OldBinding, KeptBy, AlbumIds
  <2> QED BY <1>1, <2>2, <2>3, <2>4, SameTables
<1> QED BY <1>4, <1>5, <1>6, <1>7, <1>8, <1>9 DEF OnCourse

\* Then it knows whether an album has its folder.
LEMMA LookupOnCourse ==
  ASSUME MirrorInv, NEW r \in Runs, run[r].clean, Lookup(r)
  PROVE  OnCourse(r)' /\ run'[r].pc # "idle"
<1> DEFINE s == run[r]
           t == run'[r]
<1>1. /\ TypeOK /\ s \in RunState /\ OnCourse(r) /\ s.pc = "lookup"
      /\ GroupNames(s.walk) \subseteq Names /\ UNCHANGED <<albums, images>>
  BY CleanRun DEF Lookup, db
<1>2. /\ t.walk = s.walk /\ t.todo = s.todo /\ t.name = s.name /\ t.folder = s.folder
      /\ t.left = s.left /\ t.held = s.held /\ t.taken = s.taken
      /\ \/ t.pc = "insert" /\ HoldersOf(s.folder) = {}
         \/ /\ t.pc = "rename" /\ t.album \in HoldersOf(s.folder)
            /\ t.repath = (albums[t.album].path # <<s.folder, s.name>>)
  <2>1. CASE HoldersOf(s.folder) = {} /\ Becomes(r, [s EXCEPT !.pc = "insert"])
    <3>1. t = [s EXCEPT !.pc = "insert"]
      BY <1>1, <2>1, BecomesIt
    <3> QED BY <1>1, <2>1, <3>1 DEF RunState
  <2>2. ASSUME NEW a \in HoldersOf(s.folder), Becomes(r, [Found(s, a) EXCEPT !.pc = "rename"])
        PROVE  /\ t.walk = s.walk /\ t.todo = s.todo /\ t.name = s.name /\ t.folder = s.folder
               /\ t.left = s.left /\ t.held = s.held /\ t.taken = s.taken
               /\ t.pc = "rename" /\ t.album = a
               /\ t.repath = (albums[a].path # <<s.folder, s.name>>)
    <3>1. t = [Found(s, a) EXCEPT !.pc = "rename"]
      BY <1>1, <2>2, BecomesIt
    <3> QED BY <1>1, <3>1 DEF Found, RunState
  <2> QED BY <2>1, <2>2 DEF Lookup
<1>3. /\ s.folder \in FoldersOf(s.walk, s.name) /\ Named(s.name) = {} /\ s.name \notin s.todo
      /\ s.left = FilesOf(s.walk, s.name)
  BY <1>1 DEF OnCourse, GroupAtHand, FilesAtHand, GroupPCs, ByFolder
<1>4. HandledMirror(r)'
  <2>1. Handled(r)' = Handled(r)
    BY <1>1, <1>2 DEF Handled, Waiting, AfterMark
  <2> QED BY <1>1, <1>2, <2>1, SameTables, HandledStay DEF OnCourse, Named
<1>5. GroupAtHand(r)'
  BY <1>1, <1>2, <1>3, SameTables DEF GroupAtHand, GroupPCs, ByFolder, ByName, Bound
<1>6. PathKnown(r)' /\ FilesAtHand(r)'
  BY <1>1, <1>2, <1>3 DEF PathKnown, FilesAtHand, ByFolder, ByName, Bound
<1>7. FlagsAtHand(r)' /\ BindingsRead(r)'
  BY <1>2 DEF FlagsAtHand, BindingsRead, AfterMark
<1>8. BindingsHeld(r)'
  <2> SUFFICES ASSUME NEW e \in Folders, NEW m \in Names, RenamedTo(r, e, m)'
               PROVE  IF Awaiting(r, m)' THEN OldBinding(r, e)' /\ Named(m)' = {}
                                         ELSE KeptBy(r, e, m)'
    BY DEF BindingsHeld
  <2>1. RenamedTo(r, e, m)
    BY <1>2 DEF RenamedTo
  <2>2. IF Awaiting(r, m) THEN OldBinding(r, e) /\ Named(m) = {} ELSE KeptBy(r, e, m)
    BY <1>1, <2>1 DEF OnCourse, BindingsHeld
  <2>3. CASE Awaiting(r, m)' <=> Awaiting(r, m)
    <3>1. /\ OldBinding(r, e)' <=> OldBinding(r, e)
          /\ KeptBy(r, e, m)' <=> KeptBy(r, e, m)
      BY <1>1, <1>2 DEF OldBinding, KeptBy, AlbumIds
    <3> QED BY <1>1, <2>2, <2>3, <3>1, SameTables
  <2>4. CASE t.pc = "insert" /\ m = s.name
    <3>1. s.folder = e
      BY <1>3, <2>1, <2>4 DEF RenamedTo
    <3>2. OldBinding(r, e)
      BY <1>1, <2>2, <2>4 DEF Awaiting
    <3> QED BY <1>2, <2>4, <3>1, <3>2 DEF OldBinding, KeptBy, HoldersOf
  <2> QED BY <1>1, <1>2, <2>3, <2>4 DEF Awaiting, AfterMark
<1> QED BY <1>2, <1>4, <1>5, <1>6, <1>7, <1>8 DEF OnCourse

(***************************************************************************)
(* The statements about the group at hand touch no other album than those  *)
(* of its name or its folder, and no other file than its own.              *)
(***************************************************************************)
AtHand(r) == Named(run[r].name) \cup HoldersOf(run[r].folder)

Elsewhere(r) ==
  \A x \in AlbumIds \ AtHand(r) :
    /\ SameRow(x)
    /\ LiveIn(x) \cap FilesOf(run[r].walk, run[r].name) = {} => LiveIn(x)' = LiveIn(x)

\* So the other groups it is through with go on mirroring the walk.
LEMMA OthersMirror ==
  ASSUME MirrorInv, NEW r \in Runs, run[r].clean, run[r].pc \in GroupPCs,
         run'[r].walk = run[r].walk, Elsewhere(r), NEW n \in Handled(r)
  PROVE  \E a \in Named(n)' : Mirrors(r, n, a)'
<1>1. OnCourse(r) /\ WalkKeyed(run[r].walk)
  BY CleanRun
<1>2. n # run[r].name
  BY DEF Handled, Waiting, GroupPCs, AfterMark
<1>3. PICK a \in Named(n) : Mirrors(r, n, a)
  BY <1>1 DEF OnCourse, HandledMirror
<1>4. run[r].folder \in FoldersOf(run[r].walk, run[r].name)
  BY <1>1 DEF OnCourse, GroupAtHand
<1>5. a \in AlbumIds \ AtHand(r)
  BY <1>1, <1>2, <1>3, <1>4, GroupsDisjoint DEF Named, HoldersOf, AtHand, Mirrors
<1>6. LiveIn(a) \cap FilesOf(run[r].walk, run[r].name) = {}
  BY <1>1, <1>2, <1>3, GroupsDisjoint DEF Mirrors
<1> QED BY <1>3, <1>5, <1>6, MirrorStays DEF Elsewhere

\* And the bindings stay or go over, if those of the group at hand do.
LEMMA OthersBound ==
  ASSUME MirrorInv, NEW r \in Runs, run[r].clean, run[r].pc \in GroupPCs,
         Kept(run[r], run'[r]), Elsewhere(r),
         \A x \in AlbumIds' : \/ albums'[x].name = run[r].name
                              \/ x \in AlbumIds /\ albums'[x].name = albums[x].name,
         \A m \in Names : m # run[r].name => (Awaiting(r, m)' <=> Awaiting(r, m)),
         \A e \in Folders, m \in Names : m = run[r].name /\ RenamedTo(r, e, m) =>
             ~Awaiting(r, m)' /\ KeptBy(r, e, m)'
  PROVE  BindingsHeld(r)'
<1> DEFINE s == run[r]
           t == run'[r]
<1> SUFFICES ASSUME NEW e \in Folders, NEW m \in Names, RenamedTo(r, e, m)'
             PROVE  IF Awaiting(r, m)' THEN OldBinding(r, e)' /\ Named(m)' = {}
                                       ELSE KeptBy(r, e, m)'
  BY DEF BindingsHeld
<1>1. OnCourse(r) /\ WalkKeyed(s.walk)
  BY CleanRun
<1>2. t.walk = s.walk /\ t.held = s.held /\ t.taken = s.taken
  BY DEF Kept
<1>3. RenamedTo(r, e, m)
  BY <1>2 DEF RenamedTo
<1>4. CASE m = s.name
  BY <1>3, <1>4
<1>5. CASE m # s.name
  <2> DEFINE h == s.held[e][1]
  <2>1. IF Awaiting(r, m) THEN OldBinding(r, e) /\ Named(m) = {} ELSE KeptBy(r, e, m)
    BY <1>1, <1>3 DEF OnCourse, BindingsHeld
  <2>2. s.folder \in FoldersOf(s.walk, s.name) /\ s.name \in GroupNames(s.walk)
    BY <1>1, FolderOfGroup DEF OnCourse, GroupAtHand
  <2>3. e # s.folder /\ s.held[e][2] # s.name
    BY <1>1, <1>3, <1>5, <2>2, GroupsDisjoint DEF RenamedTo
  <2>4. /\ h \in AlbumIds /\ albums[h].folder = e
        /\ albums[h].name = IF Awaiting(r, m) THEN s.held[e][2] ELSE m
    BY <2>1 DEF OldBinding, KeptBy
  <2>5. SameRow(h)
    BY <1>5, <2>3, <2>4 DEF AtHand, Named, HoldersOf, Elsewhere
  <2>6. Named(m) = {} => Named(m)' = {}
    BY <1>5 DEF Named
  <2>7. Awaiting(r, m)' <=> Awaiting(r, m)
    BY <1>5
  <2> QED BY <1>2, <2>1, <2>4, <2>5, <2>6, <2>7 DEF OldBinding, KeptBy, SameRow
<1> QED BY <1>4, <1>5

\* An album renamed after its folder is the group's, by name and by folder.
LEMMA RenameOnCourse ==
  ASSUME MirrorInv, NEW r \in Runs, run[r].clean, Rename(r)
  PROVE  OnCourse(r)' /\ run'[r].pc # "idle"
<1> DEFINE s == run[r]
           t == run'[r]
           a == s.album
<1>1. /\ TypeOK /\ TablesKeyed /\ s \in RunState /\ OfGroup(s) /\ OnCourse(r) /\ s.pc = "rename"
      /\ UNCHANGED images
  BY CleanRun DEF Rename
<1>2. /\ s.folder \in FoldersOf(s.walk, s.name) /\ Named(s.name) = {} /\ s.name \notin s.todo
      /\ a \in HoldersOf(s.folder)
      /\ s.left = FilesOf(s.walk, s.name) /\ s.folder \in Folders /\ s.folder # None
      /\ s.repath = (albums[a].path # <<s.folder, s.name>>) /\ s.name \in Names
  BY <1>1, SyncAssumption
     DEF OnCourse, GroupAtHand, FilesAtHand, PathKnown, GroupPCs, ByFolder, ByName, OfGroup
<1>3. albums' = Renamed(a, s.name) /\ t = Matched(s)
  BY <1>1, <1>2, BecomesIt DEF Rename
<1>4. /\ Kept(s, t) /\ t.todo = s.todo /\ t.name = s.name /\ t.folder = s.folder
      /\ t.left = s.left /\ t.album = a
      /\ t.pc = "path" \/ (t.pc = "upsert" /\ albums[a].path = <<s.folder, s.name>>)
  <2>1. t.pc = IF s.repath THEN "path" ELSE "upsert"
    BY <1>1, <1>3 DEF Matched, RunState
  <2>2. s.repath \/ albums[a].path = <<s.folder, s.name>>
    BY <1>2
  <2> QED BY <1>1, <1>3, <2>1, <2>2 DEF Kept, Matched, RunState
<1>5. /\ AlbumIds' = AlbumIds /\ a \in AlbumIds /\ albums[a].folder = s.folder
      /\ \A x \in AlbumIds : /\ albums'[x].folder = albums[x].folder
                             /\ albums'[x].path = albums[x].path
                             /\ albums'[x].cover = albums[x].cover
                             /\ albums'[x].name = IF x = a THEN s.name ELSE albums[x].name
  BY <1>1, <1>2, <1>3 DEF AlbumIds, HoldersOf, Renamed, TypeOK, AlbumsOK, AlbumRow
<1>6. Elsewhere(r)
  BY <1>1, <1>2, <1>5 DEF Elsewhere, AtHand, SameRow, LiveIn
<1>7. HandledMirror(r)'
  <2>1. Handled(r)' = Handled(r)
    BY <1>1, <1>4 DEF Handled, Waiting, AfterMark, Kept
  <2> QED BY <1>1, <1>4, <1>6, <2>1, OthersMirror DEF HandledMirror, GroupPCs, Kept
<1>8. GroupAtHand(r)'
  BY <1>2, <1>4, <1>5 DEF GroupAtHand, GroupPCs, ByFolder, ByName, Bound, Named, HoldersOf, Kept
<1>9. PathKnown(r)' /\ FilesAtHand(r)'
  BY <1>1, <1>2, <1>4, <1>5
     DEF PathKnown, FilesAtHand, ByFolder, ByName, Bound, Kept
<1>10. FlagsAtHand(r)' /\ BindingsRead(r)'
  BY <1>4 DEF FlagsAtHand, BindingsRead, AfterMark
<1>11. BindingsHeld(r)'
  <2>1. \A m \in Names : m # s.name => (Awaiting(r, m)' <=> Awaiting(r, m))
    BY <1>1, <1>4 DEF Awaiting, AfterMark
  <2>2. ASSUME NEW e \in Folders, NEW m \in Names, m = s.name, RenamedTo(r, e, m)
        PROVE  ~Awaiting(r, m)' /\ KeptBy(r, e, m)'
    <3>1. e = s.folder
      BY <1>2, <2>2 DEF RenamedTo
    <3>2. OldBinding(r, e)
      BY <1>1, <1>2, <2>2 DEF OnCourse, BindingsHeld, Awaiting
    <3>3. s.held[e][1] = a
      BY <1>1, <1>2, <1>5, <3>1, <3>2 DEF OldBinding, KeptBy, TablesKeyed
    <3> QED BY <1>4, <1>2, <1>5, <2>2, <3>1, <3>3 DEF KeptBy, Awaiting, Kept
  <2> QED BY <1>1, <1>4, <1>5, <1>6, <2>1, <2>2, OthersBound DEF GroupPCs
<1> QED BY <1>4, <1>7, <1>8, <1>9, <1>10, <1>11 DEF OnCourse

\* What the other statements about the group at hand leave of the course.
LEMMA GroupGoesOn ==
  ASSUME MirrorInv, NEW r \in Runs, run[r].clean,
         run[r].pc \in {"insert"} \cup ByName \cup Bound,
         run'[r].pc \in ByName \cup Bound,
         Kept(run[r], run'[r]), run'[r].todo = run[r].todo, run'[r].name = run[r].name,
         Elsewhere(r),
         \A x \in AlbumIds' : \/ albums'[x].name = run[r].name
                              \/ x \in AlbumIds /\ albums'[x].name = albums[x].name,
         \A x \in Named(run[r].name) \cap HoldersOf(run[r].folder) :
           x \in AlbumIds' /\ albums'[x].name = albums[x].name /\ albums'[x].folder = albums[x].folder
  PROVE  /\ HandledMirror(r)' /\ FlagsAtHand(r)' /\ BindingsRead(r)' /\ BindingsHeld(r)'
         /\ run'[r].pc # "idle"
<1> DEFINE s == run[r]
           t == run'[r]
<1>1. OnCourse(r)
  BY CleanRun
<1>2. s.folder \in FoldersOf(s.walk, s.name) /\ s.name \notin s.todo
  BY <1>1 DEF OnCourse, GroupAtHand, GroupPCs, ByName, Bound
<1>3. HandledMirror(r)'
  <2>1. Handled(r)' = Handled(r)
    BY DEF Handled, Waiting, AfterMark, Kept, ByName, Bound
  <2> QED BY <2>1, OthersMirror DEF HandledMirror, GroupPCs, Kept, ByName, Bound
<1>4. FlagsAtHand(r)' /\ BindingsRead(r)' /\ t.pc # "idle"
  BY DEF FlagsAtHand, BindingsRead, AfterMark, ByName, Bound
<1>5. BindingsHeld(r)'
  <2>1. \A m \in Names : m # s.name => (Awaiting(r, m)' <=> Awaiting(r, m))
    BY DEF Awaiting, AfterMark, ByName, Bound
  <2>2. ASSUME NEW e \in Folders, NEW m \in Names, m = s.name, RenamedTo(r, e, m)
        PROVE  ~Awaiting(r, m)' /\ KeptBy(r, e, m)'
    <3>1. ~Awaiting(r, m) /\ ~Awaiting(r, m)'
      BY <1>2, <2>2 DEF Awaiting, ByName, Bound
    <3>2. KeptBy(r, e, m)
      BY <1>1, <2>2, <3>1 DEF OnCourse, BindingsHeld
    <3>3. e = s.folder
      BY <1>2, <2>2 DEF RenamedTo
    <3> QED BY <2>2, <3>1, <3>2, <3>3 DEF KeptBy, Kept, Named, HoldersOf
  <2> QED BY <2>1, <2>2, OthersBound DEF GroupPCs, ByName, Bound
<1> QED BY <1>3, <1>4, <1>5

\* No other album keeps the folder that is about to be the group's.
LEMMA DetachOnCourse ==
  ASSUME MirrorInv, NEW r \in Runs, run[r].clean, Detach(r)
  PROVE  OnCourse(r)' /\ run'[r].pc # "idle"
<1> DEFINE s == run[r]
           t == run'[r]
<1>1. /\ TypeOK /\ TablesKeyed /\ s \in RunState /\ OfGroup(s) /\ OnCourse(r) /\ s.pc = "detach"
      /\ UNCHANGED images
  BY CleanRun DEF Detach
<1>2. /\ s.folder \in FoldersOf(s.walk, s.name) /\ s.name \notin s.todo /\ s.album \in Named(s.name)
      /\ s.left = FilesOf(s.walk, s.name) /\ s.folder \in Folders /\ s.folder # None
      /\ s.repath = (albums[s.album].path # <<s.folder, s.name>>)
  BY <1>1, SyncAssumption
     DEF OnCourse, GroupAtHand, FilesAtHand, PathKnown, GroupPCs, ByFolder, ByName, OfGroup
<1>3. t = [s EXCEPT !.pc = "attach"]
  BY <1>1, BecomesIt DEF Detach
<1>4. /\ Kept(s, t) /\ t.todo = s.todo /\ t.name = s.name /\ t.folder = s.folder
      /\ t.left = s.left /\ t.album = s.album /\ t.repath = s.repath /\ t.pc = "attach"
  <2>1. Kept(s, [s EXCEPT !.pc = "attach"])
    BY <1>1 DEF Kept, RunState
  <2> QED BY <1>1, <1>3, <2>1 DEF RunState
<1>5. /\ AlbumIds' = AlbumIds
      /\ \A x \in AlbumIds : /\ albums'[x].name = albums[x].name
                             /\ albums'[x].path = albums[x].path
                             /\ albums'[x].cover = albums[x].cover
                             /\ albums'[x].folder =
                                  IF albums[x].folder = s.folder /\ x # s.album
                                  THEN None ELSE albums[x].folder
  BY <1>1 DEF Detach, AlbumIds, TypeOK, AlbumsOK, AlbumRow
<1>6. Elsewhere(r)
  BY <1>1, <1>5 DEF Elsewhere, AtHand, HoldersOf, SameRow, LiveIn
<1>7. \A x \in Named(s.name) \cap HoldersOf(s.folder) : x = s.album
  BY <1>1, <1>2 DEF Named, HoldersOf, TablesKeyed
<1>8. /\ HandledMirror(r)' /\ FlagsAtHand(r)' /\ BindingsRead(r)' /\ BindingsHeld(r)'
      /\ t.pc # "idle"
  BY <1>1, <1>4, <1>5, <1>6, <1>7, GroupGoesOn DEF ByName, Named
<1>9. GroupAtHand(r)'
  BY <1>2, <1>4, <1>5 DEF GroupAtHand, GroupPCs, ByFolder, ByName, Bound, Named, HoldersOf, Kept
<1>10. PathKnown(r)' /\ FilesAtHand(r)'
  BY <1>2, <1>4, <1>5 DEF PathKnown, FilesAtHand, ByFolder, ByName, Bound, Kept, Named
<1> QED BY <1>8, <1>9, <1>10 DEF OnCourse

\* Then it has it.
LEMMA AttachOnCourse ==
  ASSUME MirrorInv, NEW r \in Runs, run[r].clean, Attach(r)
  PROVE  OnCourse(r)' /\ run'[r].pc # "idle"
<1> DEFINE s == run[r]
           t == run'[r]
           a == s.album
<1>1. /\ TypeOK /\ TablesKeyed /\ s \in RunState /\ OfGroup(s) /\ OnCourse(r) /\ s.pc = "attach"
      /\ UNCHANGED images
  BY CleanRun DEF Attach
<1>2. /\ s.folder \in FoldersOf(s.walk, s.name) /\ s.name \notin s.todo /\ a \in Named(s.name)
      /\ HoldersOf(s.folder) \subseteq {a}
      /\ s.left = FilesOf(s.walk, s.name) /\ s.folder \in Folders /\ s.folder # None
      /\ s.repath = (albums[a].path # <<s.folder, s.name>>)
  BY <1>1, SyncAssumption
     DEF OnCourse, GroupAtHand, FilesAtHand, PathKnown, GroupPCs, ByFolder, ByName, OfGroup
<1>3. /\ albums' = [x \in AlbumIds |-> IF x = a THEN [albums[x] EXCEPT !.folder = s.folder]
                                                ELSE albums[x]]
      /\ t = Matched(s)
  BY <1>1, <1>2, BecomesIt DEF Attach
<1>4. /\ Kept(s, t) /\ t.todo = s.todo /\ t.name = s.name /\ t.folder = s.folder
      /\ t.left = s.left /\ t.album = a
      /\ t.pc = "path" \/ (t.pc = "upsert" /\ albums[a].path = <<s.folder, s.name>>)
  <2>1. t.pc = IF s.repath THEN "path" ELSE "upsert"
    BY <1>1, <1>3 DEF Matched, RunState
  <2>2. s.repath \/ albums[a].path = <<s.folder, s.name>>
    BY <1>2
  <2> QED BY <1>1, <1>3, <2>1, <2>2 DEF Kept, Matched, RunState
<1>5. /\ AlbumIds' = AlbumIds /\ a \in AlbumIds /\ albums[a].name = s.name
      /\ \A x \in AlbumIds : /\ albums'[x].name = albums[x].name
                             /\ albums'[x].path = albums[x].path
                             /\ albums'[x].cover = albums[x].cover
                             /\ albums'[x].folder = IF x = a THEN s.folder ELSE albums[x].folder
  BY <1>1, <1>2, <1>3 DEF AlbumIds, Named, TypeOK, AlbumsOK, AlbumRow
<1>6. Elsewhere(r)
  BY <1>1, <1>2, <1>5 DEF Elsewhere, AtHand, SameRow, LiveIn
<1>7. /\ HandledMirror(r)' /\ FlagsAtHand(r)' /\ BindingsRead(r)' /\ BindingsHeld(r)'
      /\ t.pc # "idle"
  BY <1>1, <1>4, <1>5, <1>6, GroupGoesOn DEF ByName, Bound, Named, HoldersOf
<1>8. GroupAtHand(r)'
  BY <1>2, <1>4, <1>5 DEF GroupAtHand, GroupPCs, ByFolder, ByName, Bound, Named, HoldersOf, Kept
<1>9. PathKnown(r)' /\ FilesAtHand(r)'
  BY <1>2, <1>4, <1>5 DEF PathKnown, FilesAtHand, ByFolder, ByName, Bound, Kept
<1> QED BY <1>7, <1>8, <1>9 DEF OnCourse

\* A new row has the group's name, folder and path from the start.
LEMMA InsertOnCourse ==
  ASSUME MirrorInv, NEW r \in Runs, run[r].clean, InsertAlbum(r)
  PROVE  OnCourse(r)' /\ run'[r].pc # "idle"
<1> DEFINE s == run[r]
           t == run'[r]
           a == nextAlbum
<1>1. /\ TypeOK /\ s \in RunState /\ OnCourse(r) /\ s.pc = "insert" /\ UNCHANGED images
  BY CleanRun DEF InsertAlbum
<1>2. /\ s.folder \in FoldersOf(s.walk, s.name) /\ s.name \notin s.todo
      /\ Named(s.name) = {} /\ HoldersOf(s.folder) = {} /\ s.left = FilesOf(s.walk, s.name)
  BY <1>1 DEF OnCourse, GroupAtHand, FilesAtHand, GroupPCs, ByFolder
<1>3. /\ albums' = [x \in AlbumIds \cup {a} |->
                     IF x = a
                     THEN [name |-> s.name, folder |-> s.folder, path |-> <<s.folder, s.name>>,
                           missing |-> FALSE, cover |-> None]
                     ELSE albums[x]]
      /\ t = [s EXCEPT !.pc = "upsert", !.album = a]
  BY <1>1, <1>2, BecomesIt DEF InsertAlbum
<1>4. /\ Kept(s, t) /\ t.todo = s.todo /\ t.name = s.name /\ t.folder = s.folder
      /\ t.left = s.left /\ t.album = a /\ t.pc = "upsert"
  <2>1. Kept(s, [s EXCEPT !.pc = "upsert", !.album = a])
    BY <1>1 DEF Kept, RunState
  <2> QED BY <1>1, <1>3, <2>1 DEF RunState
<1>5. /\ AlbumIds' = AlbumIds \cup {a} /\ a \notin AlbumIds
      /\ \A x \in AlbumIds : albums'[x] = albums[x]
      /\ albums'[a].name = s.name /\ albums'[a].folder = s.folder
      /\ albums'[a].path = <<s.folder, s.name>>
  BY <1>1, <1>3 DEF AlbumIds, TypeOK, AlbumsOK
<1>6. Elsewhere(r)
  BY <1>1, <1>5 DEF Elsewhere, SameRow, LiveIn
<1>7. /\ HandledMirror(r)' /\ FlagsAtHand(r)' /\ BindingsRead(r)' /\ BindingsHeld(r)'
      /\ t.pc # "idle"
  BY <1>1, <1>2, <1>4, <1>5, <1>6, GroupGoesOn DEF Bound
<1>8. GroupAtHand(r)'
  BY <1>2, <1>4, <1>5 DEF GroupAtHand, GroupPCs, ByFolder, ByName, Bound, Named, HoldersOf, Kept
<1>9. PathKnown(r)' /\ FilesAtHand(r)'
  BY <1>2, <1>4, <1>5 DEF PathKnown, FilesAtHand, ByFolder, ByName, Bound, Kept
<1> QED BY <1>7, <1>8, <1>9 DEF OnCourse

\* Its path is the walked one.
LEMMA PathOnCourse ==
  ASSUME MirrorInv, NEW r \in Runs, run[r].clean, SyncPath(r)
  PROVE  OnCourse(r)' /\ run'[r].pc # "idle"
<1> DEFINE s == run[r]
           t == run'[r]
           a == s.album
<1>1. /\ TypeOK /\ s \in RunState /\ OnCourse(r) /\ s.pc = "path" /\ UNCHANGED images
  BY CleanRun DEF SyncPath
<1>2. /\ s.folder \in FoldersOf(s.walk, s.name) /\ s.name \notin s.todo /\ a \in Named(s.name)
      /\ a \in HoldersOf(s.folder) /\ s.left = FilesOf(s.walk, s.name)
  BY <1>1 DEF OnCourse, GroupAtHand, FilesAtHand, GroupPCs, Bound
<1>3. t = [s EXCEPT !.pc = "upsert"]
  BY <1>1, BecomesIt DEF SyncPath
<1>4. /\ Kept(s, t) /\ t.todo = s.todo /\ t.name = s.name /\ t.folder = s.folder
      /\ t.left = s.left /\ t.album = a /\ t.pc = "upsert"
  <2>1. Kept(s, [s EXCEPT !.pc = "upsert"])
    BY <1>1 DEF Kept, RunState
  <2> QED BY <1>1, <1>3, <2>1 DEF RunState
<1>5. /\ AlbumIds' = AlbumIds /\ a \in AlbumIds
      /\ \A x \in AlbumIds : /\ albums'[x].name = albums[x].name
                             /\ albums'[x].folder = albums[x].folder
                             /\ albums'[x].cover = albums[x].cover
                             /\ albums'[x].path = IF x = a THEN <<s.folder, s.name>>
                                                           ELSE albums[x].path
  BY <1>1, <1>2 DEF SyncPath, AlbumIds, Named, TypeOK, AlbumsOK, AlbumRow
<1>6. Elsewhere(r)
  BY <1>1, <1>2, <1>5 DEF Elsewhere, AtHand, SameRow, LiveIn
<1>7. /\ HandledMirror(r)' /\ FlagsAtHand(r)' /\ BindingsRead(r)' /\ BindingsHeld(r)'
      /\ t.pc # "idle"
  BY <1>1, <1>4, <1>5, <1>6, GroupGoesOn DEF Bound, Named
<1>8. GroupAtHand(r)'
  BY <1>2, <1>4, <1>5 DEF GroupAtHand, GroupPCs, ByFolder, ByName, Bound, Named, HoldersOf, Kept
<1>9. PathKnown(r)' /\ FilesAtHand(r)'
  BY <1>2, <1>4, <1>5 DEF PathKnown, FilesAtHand, ByFolder, ByName, Bound, Kept
<1> QED BY <1>7, <1>8, <1>9 DEF OnCourse

\* A file written is live in the group's album, and in no other.
LEMMA UpsertOnCourse ==
  ASSUME MirrorInv, NEW r \in Runs, run[r].clean, Upsert(r)
  PROVE  OnCourse(r)' /\ run'[r].pc # "idle"
<1> DEFINE s == run[r]
           t == run'[r]
           a == s.album
           files == FilesOf(s.walk, s.name)
<1>1. /\ TypeOK /\ s \in RunState /\ OfGroup(s) /\ OnCourse(r) /\ s.pc = "upsert"
      /\ UNCHANGED albums
  BY CleanRun DEF Upsert
<1>2. /\ s.folder \in FoldersOf(s.walk, s.name) /\ s.name \notin s.todo /\ a \in Named(s.name)
      /\ a \in HoldersOf(s.folder) /\ s.left \subseteq files /\ files \ s.left \subseteq LiveIn(a)
      /\ albums[a].path = <<s.folder, s.name>> /\ s.name \in Names
  BY <1>1 DEF OnCourse, GroupAtHand, FilesAtHand, PathKnown, GroupPCs, Bound, OfGroup
<1>3. a \in AlbumIds
  BY <1>2 DEF Named
<1>4. PICK f \in s.left : UpsertRow(f, a) /\ Becomes(r, AfterUpsert(s, f, Inserted(f)))
  BY <1>3 DEF Upsert
<1>5. t = AfterUpsert(s, f, Inserted(f))
  BY <1>1, <1>4, BecomesIt
<1>6. /\ Kept(s, t) /\ t.todo = s.todo /\ t.name = s.name /\ t.folder = s.folder
      /\ t.left = s.left \ {f} /\ t.album = a
      /\ t.pc = IF s.left = {f} THEN "prune" ELSE "upsert"
  <2>1. Kept(s, AfterUpsert(s, f, Inserted(f)))
    BY <1>1, <1>2, KeptLocal
  <2> QED BY <1>1, <1>5, <2>1 DEF AfterUpsert, RunState
<1>7. \A x : x = a \/ f \notin LiveIn(x) =>
              LiveIn(x)' = IF x = a THEN LiveIn(x) \cup {f} ELSE LiveIn(x)
  BY <1>4 DEF UpsertRow, LiveIn
<1>8. /\ \A n : Named(n)' = Named(n)
      /\ \A d : HoldersOf(d)' = HoldersOf(d)
      /\ \A x \in AlbumIds : SameRow(x)
      /\ AlbumIds' = AlbumIds
  BY <1>1 DEF Named, HoldersOf, AlbumIds, SameRow
<1>9. Elsewhere(r)
  BY <1>2, <1>4, <1>7, <1>8 DEF Elsewhere, AtHand
<1>10. /\ HandledMirror(r)' /\ FlagsAtHand(r)' /\ BindingsRead(r)' /\ BindingsHeld(r)'
       /\ t.pc # "idle"
  BY <1>1, <1>6, <1>8, <1>9, GroupGoesOn DEF Bound, Named, SameRow
<1>11. GroupAtHand(r)'
  BY <1>2, <1>6, <1>8 DEF GroupAtHand, GroupPCs, ByFolder, ByName, Bound, Kept
<1>12. PathKnown(r)'
  BY <1>1, <1>2, <1>6 DEF PathKnown, ByName, Bound, Kept
<1>13. FilesAtHand(r)'
  <2>1. FilesOf(t.walk, t.name) = files
    BY <1>6 DEF Kept
  <2>2. ASSUME NEW x, x = a
        PROVE  files \ t.left \subseteq LiveIn(x)'
    <3>1. LiveIn(x)' = LiveIn(x) \cup {f}
      BY <1>7, <2>2
    <3>2. t.left = s.left \ {f}
      BY <1>6
    <3>3. files \ s.left \subseteq LiveIn(x)
      BY <1>2, <2>2
    <3> QED BY <3>1, <3>2, <3>3
  <2>3. t.left \subseteq files /\ (t.pc = "prune" => t.left = {})
    BY <1>2, <1>4, <1>6
  <2> QED BY <1>6, <2>1, <2>2, <2>3 DEF FilesAtHand, ByFolder, ByName
<1> QED BY <1>10, <1>11, <1>12, <1>13 DEF OnCourse

\* When they all are, the group's album keeps no other.
LEMMA PruneOnCourse ==
  ASSUME MirrorInv, NEW r \in Runs, run[r].clean, Prune(r)
  PROVE  OnCourse(r)' /\ run'[r].pc # "idle"
<1> DEFINE s == run[r]
           t == run'[r]
           a == s.album
           files == FilesOf(s.walk, s.name)
<1>1. /\ TypeOK /\ s \in RunState /\ OnCourse(r) /\ s.pc = "prune" /\ UNCHANGED albums
  BY CleanRun DEF Prune
<1>2. /\ s.folder \in FoldersOf(s.walk, s.name) /\ s.name \notin s.todo /\ a \in Named(s.name)
      /\ a \in HoldersOf(s.folder) /\ files \subseteq LiveIn(a)
      /\ albums[a].path = <<s.folder, s.name>>
  BY <1>1 DEF OnCourse, GroupAtHand, FilesAtHand, PathKnown, GroupPCs, Bound
<1>3. t = [s EXCEPT !.pc = "findcover"]
  BY <1>1, BecomesIt DEF Prune
<1>4. /\ Kept(s, t) /\ t.todo = s.todo /\ t.name = s.name /\ t.folder = s.folder
      /\ t.album = a /\ t.pc = "findcover"
  <2>1. Kept(s, [s EXCEPT !.pc = "findcover"])
    BY <1>1 DEF Kept, RunState
  <2> QED BY <1>1, <1>3, <2>1 DEF RunState
<1>5. \A x : LiveIn(x)' = IF x = a THEN files ELSE LiveIn(x)
  <2>1. /\ DOMAIN images' = DOMAIN images
        /\ \A g \in DOMAIN images :
             /\ images'[g].album = images[g].album
             /\ images'[g].live = IF g \in LiveIn(a) \ files THEN FALSE ELSE images[g].live
    BY <1>1 DEF Prune, RetireFiles, TypeOK, ImagesOK, ImageRow
  <2> QED BY <1>2, <2>1 DEF LiveIn
<1>6. /\ \A n : Named(n)' = Named(n)
      /\ \A d : HoldersOf(d)' = HoldersOf(d)
      /\ \A x \in AlbumIds : SameRow(x)
      /\ AlbumIds' = AlbumIds
  BY <1>1 DEF Named, HoldersOf, AlbumIds, SameRow
<1>7. Elsewhere(r)
  BY <1>2, <1>5, <1>6 DEF Elsewhere, AtHand
<1>8. /\ HandledMirror(r)' /\ FlagsAtHand(r)' /\ BindingsRead(r)' /\ BindingsHeld(r)'
      /\ t.pc # "idle"
  BY <1>1, <1>4, <1>6, <1>7, GroupGoesOn DEF Bound, Named, SameRow
<1>9. GroupAtHand(r)'
  BY <1>2, <1>4, <1>6 DEF GroupAtHand, GroupPCs, ByFolder, ByName, Bound, Kept
<1>10. PathKnown(r)' /\ FilesAtHand(r)'
  BY <1>1, <1>2, <1>4, <1>5 DEF PathKnown, FilesAtHand, ByFolder, ByName, Bound, Kept
<1> QED BY <1>8, <1>9, <1>10 DEF OnCourse

\* The cover it finds is one of the album's files.
LEMMA FindCoverOnCourse ==
  ASSUME MirrorInv, NEW r \in Runs, run[r].clean, FindCover(r)
  PROVE  OnCourse(r)' /\ run'[r].pc # "idle"
<1> DEFINE s == run[r]
           t == run'[r]
           a == s.album
           files == FilesOf(s.walk, s.name)
<1>1. /\ TypeOK /\ s \in RunState /\ OnCourse(r) /\ s.pc = "findcover"
      /\ UNCHANGED <<albums, images>>
  BY CleanRun DEF FindCover, db
<1>2. /\ s.folder \in FoldersOf(s.walk, s.name) /\ s.name \notin s.todo /\ a \in Named(s.name)
      /\ a \in HoldersOf(s.folder) /\ LiveIn(a) = files
      /\ albums[a].path = <<s.folder, s.name>>
  BY <1>1 DEF OnCourse, GroupAtHand, FilesAtHand, PathKnown, GroupPCs, Bound
<1>3. PICK c : CoverOf(a, c) /\ Becomes(r, [s EXCEPT !.pc = "setcover", !.cover = c])
  BY DEF FindCover, CoverOf
<1>4. t = [s EXCEPT !.pc = "setcover", !.cover = c]
  BY <1>1, <1>3, BecomesIt
<1>5. /\ Kept(s, t) /\ t.todo = s.todo /\ t.name = s.name /\ t.folder = s.folder
      /\ t.album = a /\ t.cover = c /\ t.pc = "setcover"
  <2>1. Kept(s, [s EXCEPT !.pc = "setcover", !.cover = c])
    BY <1>1 DEF Kept, RunState
  <2> QED BY <1>1, <1>4, <2>1 DEF RunState
<1>6. Elsewhere(r)
  BY <1>1, SameTables DEF Elsewhere
<1>7. /\ HandledMirror(r)' /\ FlagsAtHand(r)' /\ BindingsRead(r)' /\ BindingsHeld(r)'
      /\ t.pc # "idle"
  BY <1>1, <1>5, <1>6, GroupGoesOn, SameTables DEF Bound, Named, SameRow
<1>8. GroupAtHand(r)'
  BY <1>1, <1>2, <1>5, SameTables DEF GroupAtHand, GroupPCs, ByFolder, ByName, Bound, Kept
<1>9. PathKnown(r)' /\ FilesAtHand(r)'
  <2>1. \A x : x = a => CoverOf(x, c)'
    BY <1>1, <1>3, SameTables DEF CoverOf
  <2>2. \A x : x = a => LiveIn(x)' = files
    BY <1>1, <1>2, SameTables
  <2> QED BY <1>1, <1>2, <1>5, <2>1, <2>2
          DEF PathKnown, FilesAtHand, ByFolder, ByName, Bound, Kept
<1> QED BY <1>7, <1>8, <1>9 DEF OnCourse

\* With its cover set, the group's album mirrors the group.
LEMMA SetCoverOnCourse ==
  ASSUME MirrorInv, NEW r \in Runs, run[r].clean, SetCover(r)
  PROVE  OnCourse(r)' /\ run'[r].pc # "idle"
<1> DEFINE s == run[r]
           t == run'[r]
           a == s.album
           files == FilesOf(s.walk, s.name)
<1>1. /\ TypeOK /\ s \in RunState /\ OfGroup(s) /\ OnCourse(r) /\ s.pc = "setcover"
      /\ UNCHANGED images
  BY CleanRun DEF SetCover
<1>2. /\ s.folder \in FoldersOf(s.walk, s.name) /\ s.name \notin s.todo /\ a \in Named(s.name)
      /\ a \in HoldersOf(s.folder) /\ LiveIn(a) = files /\ CoverOf(a, s.cover)
      /\ albums[a].path = <<s.folder, s.name>> /\ s.name \in Names
  BY <1>1 DEF OnCourse, GroupAtHand, FilesAtHand, PathKnown, GroupPCs, Bound, OfGroup
<1>3. t = NextGroup(s)
  BY <1>1, BecomesIt DEF SetCover
<1>4. /\ Kept(s, t) /\ t.todo = s.todo /\ t.name = None
      /\ t.pc = IF s.todo = {} THEN "clear" ELSE "resolve"
  <2>1. Kept(s, NextGroup(s))
    BY <1>1 DEF Kept, RunState, NextGroup, EndGroup
  <2> QED BY <1>1, <1>3, <2>1 DEF NextGroup, EndGroup, RunState
<1>5. s.cover \in DOMAIN images \cup {None}
  BY <1>2 DEF CoverOf, LiveIn
<1>6. /\ AlbumIds' = AlbumIds /\ a \in AlbumIds
      /\ \A x \in AlbumIds : /\ albums'[x].name = albums[x].name
                             /\ albums'[x].folder = albums[x].folder
                             /\ albums'[x].path = albums[x].path
                             /\ albums'[x].cover = IF x = a THEN s.cover ELSE albums[x].cover
  BY <1>1, <1>2, <1>5 DEF SetCover, AlbumIds, Named, TypeOK, AlbumsOK, AlbumRow
<1>7. Elsewhere(r)
  BY <1>1, <1>2, <1>6 DEF Elsewhere, AtHand, SameRow, LiveIn
<1>8. HandledMirror(r)'
  <2>1. \A n \in Handled(r)' : n \in Handled(r) \/ n = s.name
    BY <1>1, <1>4 DEF Handled, Waiting, AfterMark, Kept
  <2>2. \A n \in Handled(r) : \E x \in Named(n)' : Mirrors(r, n, x)'
    BY <1>1, <1>4, <1>7, OthersMirror DEF GroupPCs, Kept
  <2>3. ASSUME NEW n, n = s.name, NEW x, x = a
        PROVE  x \in Named(n)' /\ Mirrors(r, n, x)'
    <3>1. x \in Named(n)' /\ LiveIn(x)' = files
      BY <1>1, <1>2, <1>6, <2>3 DEF Named, LiveIn
    <3>2. \A c : c = s.cover => CoverOf(x, c)'
      BY <1>1, <1>2, <2>3 DEF CoverOf, LiveIn
    <3> QED BY <1>1, <1>2, <1>4, <1>6, <2>3, <3>1, <3>2 DEF HoldersOf, Mirrors, Kept, CoverOf
  <2> QED BY <2>1, <2>2, <2>3 DEF HandledMirror
<1>9. GroupAtHand(r)' /\ PathKnown(r)' /\ FilesAtHand(r)' /\ BindingsRead(r)' /\ FlagsAtHand(r)'
  BY <1>4 DEF GroupAtHand, PathKnown, FilesAtHand, FlagsAtHand, BindingsRead, AfterMark,
              GroupPCs, ByFolder, ByName, Bound
<1>10. BindingsHeld(r)'
  <2>1. \A m \in Names : Awaiting(r, m)' <=> Awaiting(r, m)
    BY <1>1, <1>4 DEF Awaiting, AfterMark
  <2>2. ASSUME NEW e \in Folders, NEW m \in Names, m = s.name, RenamedTo(r, e, m)
        PROVE  ~Awaiting(r, m)' /\ KeptBy(r, e, m)'
    <3>1. ~Awaiting(r, m) /\ ~Awaiting(r, m)'
      BY <1>1, <1>2, <2>1, <2>2 DEF Awaiting
    <3>2. KeptBy(r, e, m)
      BY <1>1, <2>2, <3>1 DEF OnCourse, BindingsHeld
    <3> QED BY <1>4, <1>6, <3>1, <3>2 DEF KeptBy, Kept
  <2> QED BY <1>1, <1>4, <1>6, <1>7, <2>1, <2>2, OthersBound DEF GroupPCs
<1> QED BY <1>4, <1>8, <1>9, <1>10 DEF OnCourse

(***************************************************************************)
(* With the groups behind it, a run flags albums and retires the files of  *)
(* those it marks, none of which a group of its walk is in.                *)
(***************************************************************************)
\* What it then leaves of the course.
LEMMA TailOnCourse ==
  ASSUME MirrorInv, NEW r \in Runs, run[r].clean,
         run[r].pc \in {"clear", "mark", "retire", "record"},
         run'[r].pc \in {"mark", "retire", "record", "finish"},
         Kept(run[r], run'[r]),
         \A x \in AlbumIds : SameRow(x), AlbumIds' = AlbumIds,
         \A x \in AlbumIds :
           albums[x].name \in GroupNames(run[r].walk) => LiveIn(x)' = LiveIn(x),
         FlagsAtHand(r)'
  PROVE  OnCourse(r)' /\ run'[r].pc # "idle"
<1> DEFINE s == run[r]
           t == run'[r]
<1>1. OnCourse(r)
  BY CleanRun
<1>2. /\ s.pc \in {"clear", "mark"} => s.todo = {} /\ s.name = None
      /\ t.pc \in {"clear", "mark"} => t.todo = {} /\ t.name = None
  BY <1>1 DEF OnCourse, FlagsAtHand
<1>3. None \notin GroupNames(s.walk)
  BY CleanRun, SyncAssumption
<1>4. HandledMirror(r)'
  <2>1. Handled(r) = GroupNames(s.walk) /\ Handled(r)' = GroupNames(s.walk)
    BY <1>2, <1>3 DEF Handled, Waiting, AfterMark, Kept
  <2> QED BY <1>1, <2>1, HandledStay DEF OnCourse, Kept, Named
<1>5. GroupAtHand(r)' /\ PathKnown(r)' /\ FilesAtHand(r)' /\ BindingsRead(r)'
  BY DEF GroupAtHand, PathKnown, FilesAtHand, BindingsRead, GroupPCs, ByFolder, ByName, Bound
<1>6. BindingsHeld(r)'
  <2> SUFFICES ASSUME NEW e \in Folders, NEW m \in Names, RenamedTo(r, e, m)'
               PROVE  ~Awaiting(r, m)' /\ KeptBy(r, e, m)'
    BY DEF BindingsHeld
  <2>1. ~Awaiting(r, m) /\ ~Awaiting(r, m)'
    BY <1>2 DEF Awaiting, AfterMark
  <2>2. KeptBy(r, e, m)
    BY <1>1, <2>1 DEF OnCourse, BindingsHeld, RenamedTo, Kept
  <2> QED BY <2>1, <2>2 DEF KeptBy, Kept, SameRow
<1> QED BY <1>4, <1>5, <1>6 DEF OnCourse

\* No album of the walk stays flagged missing.
LEMMA ClearOnCourse ==
  ASSUME MirrorInv, NEW r \in Runs, run[r].clean, ClearMissing(r)
  PROVE  OnCourse(r)' /\ run'[r].pc # "idle"
<1> DEFINE s == run[r]
           t == run'[r]
<1>1. /\ TypeOK /\ s \in RunState /\ OnCourse(r) /\ s.pc = "clear" /\ UNCHANGED images
  BY CleanRun DEF ClearMissing
<1>2. s.todo = {} /\ s.name = None
  BY <1>1 DEF OnCourse, FlagsAtHand
<1>3. t = [s EXCEPT !.pc = "mark"]
  BY <1>1, BecomesIt DEF ClearMissing
<1>4. Kept(s, t) /\ t.todo = {} /\ t.name = None /\ t.pc = "mark"
  <2>1. Kept(s, [s EXCEPT !.pc = "mark"])
    BY <1>1 DEF Kept, RunState
  <2> QED BY <1>1, <1>2, <1>3, <2>1 DEF RunState
<1>5. /\ AlbumIds' = AlbumIds
      /\ \A x \in AlbumIds : /\ SameRow(x)
                             /\ albums[x].name \in GroupNames(s.walk) => albums'[x].missing = FALSE
  BY <1>1 DEF ClearMissing, AlbumIds, SameRow, TypeOK, AlbumsOK, AlbumRow
<1>6. FlagsAtHand(r)'
  BY <1>4, <1>5 DEF FlagsAtHand, AfterMark, Kept, SameRow
<1> QED BY <1>1, <1>2, <1>4, <1>5, <1>6, TailOnCourse DEF LiveIn

\* All others are flagged, and only those are marked to be retired.
LEMMA MarkOnCourse ==
  ASSUME MirrorInv, NEW r \in Runs, run[r].clean, MarkMissing(r)
  PROVE  OnCourse(r)' /\ run'[r].pc # "idle"
<1> DEFINE s == run[r]
           t == run'[r]
           walked(x) == albums[x].name \in GroupNames(s.walk)
           marked == {x \in AlbumIds : ~albums[x].missing /\ albums[x].name \notin GroupNames(s.walk)}
<1>1. /\ TypeOK /\ s \in RunState /\ OnCourse(r) /\ s.pc = "mark" /\ UNCHANGED images
  BY CleanRun DEF MarkMissing
<1>2. \A x \in AlbumIds : walked(x) => ~albums[x].missing
  BY <1>1 DEF OnCourse, FlagsAtHand
<1>3. /\ albums' = [x \in AlbumIds |-> IF x \in marked THEN [albums[x] EXCEPT !.missing = TRUE]
                                                       ELSE albums[x]]
      /\ t = AfterRetire([s EXCEPT !.marked = marked])
  BY <1>1, BecomesIt DEF MarkMissing
<1>4. Kept(s, t) /\ t.marked = marked /\ t.pc \in {"retire", "record"}
  <2>1. Kept(s, AfterRetire([s EXCEPT !.marked = marked]))
    BY <1>1 DEF Kept, RunState, AfterRetire
  <2> HIDE DEF marked
  <2> QED BY <1>1, <1>3, <2>1 DEF RunState, AfterRetire
<1>5. AlbumIds' = AlbumIds /\ \A x \in AlbumIds : SameRow(x)
  BY <1>1, <1>3 DEF AlbumIds, SameRow, TypeOK, AlbumsOK, AlbumRow
<1>6. \A x \in AlbumIds : albums'[x].missing <=> ~walked(x)
  BY <1>1, <1>2, <1>3 DEF AlbumIds, TypeOK, AlbumsOK, AlbumRow
<1>7. FlagsAtHand(r)'
  BY <1>4, <1>5, <1>6 DEF FlagsAtHand, AfterMark, Kept, SameRow
<1> QED BY <1>1, <1>4, <1>5, <1>7, TailOnCourse DEF LiveIn

\* Retiring a marked album takes no file from a walked one.
LEMMA RetireOnCourse ==
  ASSUME MirrorInv, NEW r \in Runs, run[r].clean, Retire(r)
  PROVE  OnCourse(r)' /\ run'[r].pc # "idle"
<1> DEFINE s == run[r]
           t == run'[r]
           walked(x) == albums[x].name \in GroupNames(s.walk)
<1>1. /\ TypeOK /\ s \in RunState /\ OnCourse(r) /\ s.pc = "retire" /\ UNCHANGED albums
  BY CleanRun DEF Retire
<1>2. PICK a \in s.marked : /\ RetireFiles(LiveIn(a))
                            /\ Becomes(r, AfterRetire([s EXCEPT !.marked = s.marked \ {a}]))
  BY <1>1 DEF Retire, RunState
<1>3. t = AfterRetire([s EXCEPT !.marked = s.marked \ {a}])
  BY <1>1, <1>2, BecomesIt
<1>4. Kept(s, t) /\ t.marked = s.marked \ {a} /\ t.pc \in {"retire", "record"}
  <2>1. Kept(s, AfterRetire([s EXCEPT !.marked = s.marked \ {a}]))
    BY <1>1 DEF Kept, RunState, AfterRetire
  <2> QED BY <1>1, <1>3, <2>1 DEF RunState, AfterRetire
<1>5. AlbumIds' = AlbumIds /\ \A x \in AlbumIds : SameRow(x)
  BY <1>1 DEF AlbumIds, SameRow
<1>6. \A x : x # a => LiveIn(x)' = LiveIn(x)
  <2>1. /\ DOMAIN images' = DOMAIN images
        /\ \A g \in DOMAIN images :
             /\ images'[g].album = images[g].album
             /\ images'[g].live = IF g \in LiveIn(a) THEN FALSE ELSE images[g].live
    BY <1>1, <1>2 DEF RetireFiles, TypeOK, ImagesOK, ImageRow
  <2> QED BY <2>1 DEF LiveIn
<1>7. a \in AlbumIds => ~walked(a)
  BY <1>1 DEF OnCourse, FlagsAtHand
<1>8. FlagsAtHand(r)'
  BY <1>1, <1>4, <1>5 DEF OnCourse, FlagsAtHand, AfterMark, Kept, SameRow
<1> QED BY <1>1, <1>4, <1>5, <1>6, <1>7, <1>8, TailOnCourse

\* Recording the events touches no table of the library.
LEMMA RecordOnCourse ==
  ASSUME MirrorInv, NEW r \in Runs, run[r].clean, Record(r)
  PROVE  OnCourse(r)' /\ run'[r].pc # "idle"
<1> DEFINE s == run[r]
           t == run'[r]
<1>1. /\ TypeOK /\ s \in RunState /\ OnCourse(r) /\ s.pc = "record"
      /\ UNCHANGED <<albums, images>>
  BY CleanRun DEF Record, db
<1>2. Kept(s, t) /\ t.pc \in {"record", "finish"}
  <2>1. CASE Becomes(r, [s EXCEPT !.pc = "finish"])
    <3>1. t = [s EXCEPT !.pc = "finish"]
      BY <1>1, <2>1, BecomesIt
    <3>2. Kept(s, [s EXCEPT !.pc = "finish"])
      BY <1>1 DEF Kept, RunState
    <3> QED BY <1>1, <3>1, <3>2 DEF RunState
  <2>2. ASSUME NEW n \in s.todo,
               Becomes(r, [s EXCEPT !.todo = @ \ {n}, !.fresh[n] = {},
                                    !.report = @ \cup s.fresh[n]])
        PROVE  Kept(s, t) /\ t.pc \in {"record", "finish"}
    <3>1. n \in Names
      BY <1>1 DEF RunState
    <3>2. t = [s EXCEPT !.todo = @ \ {n}, !.fresh[n] = {}, !.report = @ \cup s.fresh[n]]
      BY <1>1, <2>2, BecomesIt
    <3>3. Kept(s, t)
      BY <1>1, <3>1, <3>2, KeptLocal
    <3> QED BY <1>1, <3>2, <3>3 DEF RunState
  <2> QED BY <2>1, <2>2 DEF Record
<1>3. FlagsAtHand(r)'
  BY <1>1, <1>2 DEF OnCourse, FlagsAtHand, AfterMark, Kept, AlbumIds
<1> QED BY <1>1, <1>2, <1>3, SameTables, TailOnCourse

-----------------------------------------------------------------------------
(* Every step of the system keeps every run on course                      *)

\* Whatever statement a clean run executes, it stays on course.
LEMMA CleanStep ==
  ASSUME MirrorInv, NEW r \in Runs, run[r].clean,
         RunStep(r) \/ WalkBroken(r), ~Finish(r)
  PROVE  OnCourse(r)' /\ run'[r].pc # "idle"
BY WalkOnCourse, ResolveOnCourse, LookupOnCourse, RenameOnCourse, DetachOnCourse,
   AttachOnCourse, InsertOnCourse, PathOnCourse, UpsertOnCourse, PruneOnCourse,
   FindCoverOnCourse, SetCoverOnCourse, ClearOnCourse, MarkOnCourse, RetireOnCourse,
   RecordOnCourse DEF RunStep

\* While one run executes, no other is clean.
LEMMA OneRunOnCourse ==
  ASSUME MirrorInv, NEW r \in Runs, Running(r), \A q \in Runs \ {r} : run'[q] = run[q],
         WalkKeyed(run'[r].walk),
         run'[r].clean => run[r].clean /\ OnCourse(r)' /\ run'[r].pc # "idle"
  PROVE  RunsOnCourse'
<1>1. \A q \in Runs \ {r} : ~run[q].clean /\ WalkKeyed(run[q].walk)
  BY DEF MirrorInv, RunsOnCourse, Alone
<1>2. run'[r].clean => Alone(r)'
  BY DEF MirrorInv, RunsOnCourse, Alone, Running
<1> QED BY <1>1, <1>2 DEF RunsOnCourse, Running

\* A run that is over is not clean, nor is one that was disturbed.
LEMMA IdleUnclean == Idle.clean = FALSE /\ Idle.walk = {}
BY DEF Idle

\* A disturbed run goes on where it was.
LEMMA DisturbedUnclean ==
  ASSUME NEW s \in RunState
  PROVE  Disturbed(s).clean = FALSE /\ Disturbed(s).walk = s.walk /\ Disturbed(s).pc = s.pc
BY DEF Disturbed, RunState

\* A statement of a run, clean or not, keeps all runs on course.
LEMMA RunStepOnCourse ==
  ASSUME MirrorInv, NEW r \in Runs, RunStep(r) \/ WalkBroken(r)
  PROVE  RunsOnCourse'
<1>1. TypeOK /\ WalkKeyed(run[r].walk) /\ Running(r)
  BY DEF MirrorInv, RunsOnCourse, Running, RunStep, WalkBroken, Walk, Resolve, Lookup, Rename,
         Detach, Attach, InsertAlbum, SyncPath, Upsert, Prune, FindCover, SetCover,
         ClearMissing, MarkMissing, Retire, Record, Finish
<1>2. CASE Walk(r) \/ WalkBroken(r)
  BY <1>1, <1>2, WalkStep, WalkOnCourse, OneRunOnCourse
<1>3. CASE RunStep(r) /\ ~Walk(r)
  <2>1. \A q \in Runs \ {r} : run'[q] = run[q]
    BY <1>1, <1>3, RunKeepsWalk
  <2>2. CASE run'[r] = Idle
    BY <1>1, <2>1, <2>2, IdleUnclean, EntriesKeyed, OneRunOnCourse
  <2>3. CASE run'[r] # Idle
    <3>1. Kept(run[r], run'[r])
      BY <1>1, <1>3, <2>3, RunKeepsWalk
    <3>2. ~Finish(r)
      BY <1>1, <2>3, BecomesIt DEF Finish, Abort
    <3> QED BY <1>1, <1>3, <2>1, <3>1, <3>2, CleanStep, OneRunOnCourse DEF Kept
  <2> QED BY <2>2, <2>3
<1> QED BY <1>2, <1>3

\* A run that begins alone has read the bindings; the others are no longer clean.
LEMMA BeginOnCourse ==
  ASSUME MirrorInv, NEW r \in Runs, Begin(r)
  PROVE  RunsOnCourse'
<1> DEFINE t == run'[r]
<1>1. /\ TypeOK /\ UNCHANGED <<albums, images>> /\ \A q \in Runs : run[q] \in RunState
      /\ \A q \in Runs : WalkKeyed(run[q].walk)
  BY DEF MirrorInv, RunsOnCourse, TypeOK, RunsOK, Begin, db
<1>2. \A q \in Runs \ {r} :
        run'[q].clean = FALSE /\ run'[q].walk = run[q].walk /\ run'[q].pc = run[q].pc
  BY <1>1, DisturbedUnclean DEF Begin
<1>3. t = Started(Others(r) = {})
  BY DEF Begin
<1>4. /\ t.pc = "walk" /\ t.walk = {} /\ t.todo = {} /\ t.name = None
      /\ Others(r) # {} => t.clean = FALSE
      /\ Others(r) = {} => t.held = Bindings /\ t.taken = {albums[a].name : a \in AlbumIds}
  BY <1>3 DEF Started, Idle
<1>5. WalkKeyed(t.walk)
  BY <1>4, EntriesKeyed
<1>6. ASSUME Others(r) = {}
      PROVE  Alone(r)' /\ OnCourse(r)'
  <2>1. Alone(r)'
    BY <1>2, <1>6 DEF Others, Alone, Running
  <2>2. GroupNames(t.walk) = {} /\ \A n : FoldersOf(t.walk, n) = {}
    BY <1>4 DEF GroupNames, FoldersOf
  <2>3. HandledMirror(r)' /\ BindingsHeld(r)'
    BY <2>2 DEF HandledMirror, Handled, BindingsHeld, RenamedTo
  <2>4. GroupAtHand(r)' /\ PathKnown(r)' /\ FilesAtHand(r)' /\ FlagsAtHand(r)'
    BY <1>4 DEF GroupAtHand, PathKnown, FilesAtHand, FlagsAtHand, AfterMark, GroupPCs,
                ByFolder, ByName, Bound
  <2>5. BindingsRead(r)'
    <3>1. ASSUME NEW d \in Folders, t.held[d][1] # 0
          PROVE  OldBinding(r, d)'
      <4>1. HoldersOf(d) # {}
        BY <1>4, <1>6, <3>1 DEF Bindings
      <4>2. PICK a \in HoldersOf(d) : t.held[d] = <<a, albums[a].name>>
        BY <1>4, <1>6, <4>1 DEF Bindings
      <4> QED BY <1>1, <4>2 DEF OldBinding, KeptBy, HoldersOf, AlbumIds
    <3>2. \A n \in Names : n \notin t.taken => Named(n)' = {}
      BY <1>1, <1>4, <1>6 DEF Named, AlbumIds
    <3> QED BY <3>1, <3>2 DEF BindingsRead
  <2> QED BY <2>1, <2>3, <2>4, <2>5 DEF OnCourse
<1> QED BY <1>1, <1>2, <1>4, <1>5, <1>6 DEF RunsOnCourse, Running

\* So does every other step.
LEMMA NextOnCourse == MirrorInv /\ [Next]_vars => RunsOnCourse'
<1> SUFFICES ASSUME MirrorInv, [Next]_vars
             PROVE  RunsOnCourse'
  OBVIOUS
<1>1. TypeOK /\ \A q \in Runs : run[q] \in RunState /\ WalkKeyed(run[q].walk)
  BY DEF MirrorInv, RunsOnCourse, TypeOK, RunsOK
<1>2. ASSUME NEW r \in Runs, CoverError(r) \/ Fail(r)
      PROVE  RunsOnCourse'
  <2>1. PICK s : Becomes(r, s) /\ s.clean = FALSE /\ (s.walk = run[r].walk \/ s.walk = {})
    <3>1. CASE CoverError(r)
      <4>1. NextGroup(run[r]) \in RunState
        BY <1>1, NextGroupTyped
      <4>2. NextGroup(run[r]).walk = run[r].walk
        BY <1>1 DEF NextGroup, EndGroup, RunState
      <4> QED BY <3>1, <4>1, <4>2, DisturbedUnclean DEF CoverError
    <3>2. CASE Fail(r)
      BY <3>2, IdleUnclean DEF Fail, Abort
    <3> QED BY <1>2, <3>1, <3>2
  <2>2. run'[r] = s /\ \A q \in Runs \ {r} : run'[q] = run[q]
    BY <1>1, <2>1, BecomesIt DEF Becomes, TypeOK, RunsOK
  <2>3. Running(r)
    BY <1>2 DEF CoverError, Fail, Running
  <2> QED BY <1>1, <2>1, <2>2, <2>3, EntriesKeyed, OneRunOnCourse
<1>3. CASE Operate
  <2>1. \A q \in Runs : run'[q].clean = FALSE /\ run'[q].walk = run[q].walk
    BY <1>1, <1>3, DisturbedUnclean DEF Operate
  <2> QED BY <1>1, <2>1 DEF RunsOnCourse
<1>4. CASE Reorganise \/ UNCHANGED vars
  <2>1. UNCHANGED <<albums, images, run>>
    BY <1>4 DEF Reorganise, vars, db
  <2>2. \A q \in Runs : OnCourse(q) => OnCourse(q)'
    BY <2>1 DEF OnCourse, HandledMirror, Handled, Waiting, Mirrors, CoverOf, GroupAtHand,
                PathKnown, FilesAtHand, FlagsAtHand, BindingsRead, BindingsHeld, Awaiting,
                OldBinding, KeptBy, RenamedTo, Named, HoldersOf, LiveIn, AlbumIds
  <2> QED BY <2>1, <2>2 DEF MirrorInv, RunsOnCourse, Running, Alone
<1> QED BY <1>2, <1>3, <1>4, RunStepOnCourse, BeginOnCourse DEF Next

(***************************************************************************)
(* Theorem: every reachable state has the runs on course (MirrorInv): no   *)
(* two albums share a name or a folder, and between any two statements of  *)
(* a run with the tables to itself, the groups it is through with mirror   *)
(* its walk and what it knows of the group at hand is so.                  *)
(***************************************************************************)
THEOREM MirrorInvariant == Spec => []MirrorInv
<1>1. Init => MirrorInv
  <2> SUFFICES ASSUME Init
               PROVE  MirrorInv
    OBVIOUS
  <2>1. TablesKeyed
    BY DEF Init, TablesKeyed, AlbumIds
  <2>2. RunsOnCourse
    BY IdleUnclean, EntriesKeyed DEF Init, RunsOnCourse
  <2> QED BY <2>1, <2>2, InitTyped DEF MirrorInv
<1>2. MirrorInv /\ [Next]_vars => MirrorInv'
  BY NextTyped, NextKeepsKeys, NextOnCourse DEF MirrorInv
<1> QED BY <1>1, <1>2, PTL DEF Spec

(***************************************************************************)
(* Theorem: a run that had the tables to itself leaves them equal to its   *)
(* walk, for any number of files, folders, names and concurrent runs       *)
(* before it (CleanRunMirrors).                                            *)
(***************************************************************************)
THEOREM CleanRunsMirror == Spec => []CleanRunMirrors
<1>1. MirrorInv => CleanRunMirrors
  <2> SUFFICES ASSUME MirrorInv, NEW r \in Runs,
                      run[r].pc = "finish", run[r].clean, run[r].walk # {}
               PROVE  /\ \A n \in GroupNames(run[r].walk) : Coherent(r, n)
                      /\ \A a \in AlbumIds :
                           albums[a].name \notin GroupNames(run[r].walk) => albums[a].missing
    BY DEF CleanRunMirrors
  <2>1. TablesKeyed /\ OnCourse(r)
    BY CleanRun
  <2>2. \A a \in AlbumIds : albums[a].missing <=> albums[a].name \notin GroupNames(run[r].walk)
    BY <2>1 DEF OnCourse, FlagsAtHand, AfterMark
  <2>3. ASSUME NEW n \in GroupNames(run[r].walk)
        PROVE  Coherent(r, n)
    <3>1. PICK a \in Named(n) : Mirrors(r, n, a)
      BY <2>1 DEF OnCourse, HandledMirror, Handled, Waiting, AfterMark
    <3>2. Named(n) = {a}
      BY <2>1 DEF TablesKeyed, Named
    <3>3. ~albums[a].missing
      BY <2>2 DEF Named
    <3> QED BY <3>1, <3>2, <3>3 DEF Coherent
  <2> QED BY <2>2, <2>3
<1> QED BY <1>1, MirrorInvariant, PTL

(***************************************************************************)
(* Theorem: a run that had the tables to itself keeps the album of every   *)
(* renamed folder (RenameKeepsAlbum).                                      *)
(***************************************************************************)
THEOREM RenamesKeepAlbums == Spec => []RenameKeepsAlbum
<1>1. MirrorInv => RenameKeepsAlbum
  <2> SUFFICES ASSUME MirrorInv, NEW r \in Runs, run[r].pc = "finish", run[r].clean,
                      NEW d \in Folders, NEW n \in Names, RenamedTo(r, d, n)
               PROVE  KeptBy(r, d, n)
    BY DEF RenameKeepsAlbum
  <2> QED BY CleanRun DEF OnCourse, BindingsHeld, Awaiting, AfterMark
<1> QED BY <1>1, MirrorInvariant, PTL

================================================================================
