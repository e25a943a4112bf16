------------------------------- MODULE MediaSync -------------------------------
(***************************************************************************)
(* The media sync: SyncImages (internal/usecase/sync/sync.go) walks the    *)
(* media source and reconciles the albums and images tables with it        *)
(* through the repositories of internal/repo/persistent.                   *)
(*                                                                         *)
(* SyncImages opens no transaction and takes no lock, so one action here   *)
(* is one SQL statement, and the runs in Runs interleave: the scheduler's  *)
(* loop is one of them, every "sync now" job another.  Around them the     *)
(* source is reorganised, an operator edits the tables, and any statement  *)
(* may fail, which aborts its run (so does a stop of the process).         *)
(*                                                                         *)
(* Abstractions: an image row is keyed by its file (images.file_id is      *)
(* unique), and its url, kind and size are left out; a folder's path is    *)
(* the pair of the folder and its name; the walk is one step.  Events of   *)
(* the types renamed, missing and removed are written by recordEvents and  *)
(* read by nothing modelled here; they are left out, and the announcements *)
(* (created, added) are kept as the ids of the image rows they report.     *)
(***************************************************************************)
EXTENDS Naturals

CONSTANTS Runs,        \* the goroutines that may execute SyncImages
          Scheduled,   \* of them, the scheduler's loop; the others are manual
          HasCredentials,  \* a pCloud token or user name is configured
          Files,       \* file ids the source may hold
          CoverFiles,  \* those whose name is cover.* or _cover.*
          Folders,     \* folder ids the source may hold
          Names,       \* folder names, which are album names
          None,        \* SQL NULL, and Go's "not found"
          MaxEdits,    \* bound: edits from outside, of the source or the tables
          MaxAdmin,    \* bound: those by an operator, of the tables
          MaxFaults    \* bound: failing statements, and walks wrongly empty

ASSUME SyncAssumption ==
  /\ Scheduled \subseteq Runs /\ HasCredentials \in BOOLEAN
  /\ CoverFiles \subseteq Files
  /\ None \notin Files \cup Folders \cup Names
  /\ MaxEdits \in Nat /\ MaxAdmin \in Nat /\ MaxFaults \in Nat

VARIABLES
  place,      \* place[f]: the folder holding file f, None if the source has no f
  called,     \* called[d]: the present name of folder d
  albums,     \* the albums table: a function from the ids of its rows
  nextAlbum,  \* albums.id sequence
  images,     \* the images table: a function from the files of its rows
  nextImage,  \* images.id sequence
  announced,  \* image ids reported by a created or added event in sync_events
  delivered,  \* image ids handed to the notifier's deliveries
  imported,   \* history: some run has completed with a non-empty walk
  run,        \* the local state of each run
  edits, admin, faults   \* counters for the bounds

db     == <<albums, nextAlbum, images, nextImage>>
source == <<place, called>>
log    == <<announced, delivered, imported>>
bounds == <<edits, admin, faults>>
vars   == <<place, called, albums, nextAlbum, images, nextImage,
            announced, delivered, imported, run, edits, admin, faults>>

PCs == {"idle", "walk", "resolve", "lookup", "rename", "detach", "attach", "insert",
        "path", "upsert", "prune", "findcover", "setcover", "clear", "mark",
        "retire", "record", "finish"}

Entry    == Files \X Folders \X Names            \* repo.MediaEntry
Path     == Folders \X Names
AlbumRow == [name: Names, folder: Folders \cup {None}, path: Path \cup {None},
             missing: BOOLEAN, cover: Files \cup {None}]
ImageRow == [id: Nat, album: Nat, live: BOOLEAN]

(***************************************************************************)
(* What a run keeps in its locals.  created, fresh and report are the      *)
(* parts of albumSyncStats and SyncReport that the announcements need.     *)
(* clean, held and taken are history: whether the run had the tables to    *)
(* itself with no statement failing and, of such a run, the album (and     *)
(* its name) each folder id was bound to and the names in use when it      *)
(* began.                                                                  *)
(***************************************************************************)
RunState == [pc: PCs, initial: BOOLEAN, walk: SUBSET Entry, todo: SUBSET Names,
             name: Names \cup {None}, folder: Folders \cup {None}, album: Nat, repath: BOOLEAN,
             left: SUBSET Files, cover: Files \cup {None},
             fresh: [Names -> SUBSET Nat], marked: SUBSET Nat, report: SUBSET Nat,
             clean: BOOLEAN, held: [Folders -> Nat \X (Names \cup {None})],
             taken: SUBSET Names]

NotHeld == [d \in Folders |-> <<0, None>>]

Idle == [pc |-> "idle", initial |-> FALSE, walk |-> {}, todo |-> {},
         name |-> None, folder |-> None, album |-> 0, repath |-> FALSE,
         left |-> {}, cover |-> None,
         fresh |-> [n \in Names |-> {}], marked |-> {}, report |-> {},
         clean |-> FALSE, held |-> NotHeld, taken |-> {}]

Entries == {<<f, place[f], called[place[f]]>> : f \in {g \in Files : place[g] # None}}

\* groupByFolder: files are bucketed by the NAME of their folder; of several
\* folders sharing it, the first in walk order lends its id and path.
GroupNames(w) == {e[3] : e \in w}
NamesAsFolders(w, n) == {e[3] : e \in {x \in w : x[3] = n}}   \* faulty: the wrong field
FoldersOf(w, n) == {e[2] : e \in {x \in w : x[3] = n}}
FilesOf(w, n) == {e[1] : e \in {x \in w : x[3] = n}}

AlbumIds       == DOMAIN albums
Named(n)       == {a \in AlbumIds : albums[a].name = n}
HoldersOf(d)   == {a \in AlbumIds : albums[a].folder = d}
LiveIn(a)      == {f \in DOMAIN images : images[f].album = a /\ images[f].live}
Running(r)     == run[r].pc # "idle"
Others(r)      == {s \in Runs \ {r} : Running(s)}

-----------------------------------------------------------------------------
Init ==
  /\ place \in [Files -> Folders \cup {None}]
  /\ called \in [Folders -> Names]
  /\ albums = [a \in {} |-> None] /\ nextAlbum = 1
  /\ images = [f \in {} |-> None] /\ nextImage = 1
  /\ announced = {} /\ delivered = {} /\ imported = FALSE
  /\ run = [r \in Runs |-> Idle]
  /\ edits = 0 /\ admin = 0 /\ faults = 0

(***************************************************************************)
(* Steps of a run.  Next(r, s) is the run's local state after a statement; *)
(* an error returned by a statement leaves SyncImages at once (Aborted).   *)
(***************************************************************************)
Becomes(r, s) == run' = [run EXCEPT ![r] = s]
Abort(r)      == Becomes(r, Idle)

\* Someone else starts, edits the tables or fails the run: no longer clean.
Disturbed(s) == [s EXCEPT !.clean = FALSE, !.held = NotHeld, !.taken = {}]

\* The album each folder id is bound to, and its name.
Bindings ==
  [d \in Folders |->
    IF HoldersOf(d) = {} THEN <<0, None>>
    ELSE LET a == CHOOSE x \in HoldersOf(d) : TRUE IN <<a, albums[a].name>>]

\* doSync / TriggerSyncNow call SyncImages, whose first statement counts the
\* albums, missing ones included.  The scheduler's loop returns before its first
\* doSync if no pCloud credentials are configured, whatever the media source.
Started(alone) ==
  LET s == [Idle EXCEPT !.pc = "walk", !.initial = (AlbumIds = {})]
  IN  IF alone
      THEN [s EXCEPT !.clean = TRUE, !.held = Bindings,
                     !.taken = {albums[a].name : a \in AlbumIds}]
      ELSE s

Begin(r) ==
  /\ run[r].pc = "idle"
  /\ r \in Scheduled => HasCredentials
  /\ run' = [q \in Runs |-> IF q = r THEN Started(Others(r) = {}) ELSE Disturbed(run[q])]
  /\ UNCHANGED <<source, db, log, bounds>>

\* ListMedia.  With no entries the missing pass is skipped (EmptyScan) and there
\* is nothing to record.
WalkedInverted(r, w) ==   \* faulty: the test for an empty walk is inverted
  Becomes(r, [run[r] EXCEPT !.walk = w, !.todo = GroupNames(w),
                            !.pc = IF w # {} THEN "finish" ELSE "resolve"])
Walked(r, w) ==
  Becomes(r, [run[r] EXCEPT !.walk = w, !.todo = GroupNames(w),
                            !.pc = IF w = {} THEN "finish" ELSE "resolve"])

Walk(r) ==
  /\ run[r].pc = "walk"
  /\ Walked(r, Entries)
  /\ UNCHANGED <<source, db, log, bounds>>

\* "A broken source, a wrong root ID or an auth problem": the walk succeeds and
\* finds nothing although the source holds files.
WalkBroken(r) ==
  /\ run[r].pc = "walk" /\ faults < MaxFaults /\ Entries # {}
  /\ Walked(r, {})
  /\ faults' = faults + 1
  /\ UNCHANGED <<source, db, log, edits, admin>>

\* The loop enters the group of n; of its folders the first walked counts.
Entered(s, n, d) == [s EXCEPT !.name = n, !.folder = d, !.todo = @ \ {n},
                              !.left = FilesOf(s.walk, n)]

\* findAlbum returned row a.  syncSourcePath writes only when the path read here
\* differs from the walked one.
Found(s, a) == [s EXCEPT !.album = a, !.repath = albums[a].path # <<s.folder, s.name>>]
Matched(s)  == [s EXCEPT !.pc = IF s.repath THEN "path" ELSE "upsert"]

\* resolveAlbumRow, by name.  The source's order of the groups is arbitrary.
Resolve(r) ==
  /\ run[r].pc = "resolve"
  /\ \E n \in run[r].todo : \E d \in FoldersOf(run[r].walk, n) :
       LET s == Entered(run[r], n, d)
       IN  \/ Named(n) = {} /\ Becomes(r, [s EXCEPT !.pc = "lookup"])
           \/ \E a \in Named(n) :
                Becomes(r, IF albums[a].folder # d THEN [Found(s, a) EXCEPT !.pc = "detach"]
                                                   ELSE Matched(Found(s, a)))
  /\ UNCHANGED <<source, db, log, bounds>>

\* renameFolderMatch, its SELECT by folder id.
Lookup(r) ==
  /\ run[r].pc = "lookup"
  /\ LET holders == HoldersOf(run[r].folder)
     IN  \/ holders = {} /\ Becomes(r, [run[r] EXCEPT !.pc = "insert"])
         \/ \E a \in holders : Becomes(r, [Found(run[r], a) EXCEPT !.pc = "rename"])
  /\ UNCHANGED <<source, db, log, bounds>>

\* UPDATE albums SET name; the faulty variant unbinds the folder it renames.
RenamedUnbound(a, n) ==
  [x \in AlbumIds |-> IF x = a THEN [albums[x] EXCEPT !.name = n, !.folder = None]
                              ELSE albums[x]]
Renamed(a, n) ==
  [x \in AlbumIds |-> IF x = a THEN [albums[x] EXCEPT !.name = n] ELSE albums[x]]

\* renameAlbum.  albums.name is UNIQUE; an UPDATE that matches no row is no error.
Rename(r) ==
  /\ run[r].pc = "rename"
  /\ LET a == run[r].album
         n == run[r].name
     IN  IF Named(n) \ {a} # {} /\ a \in AlbumIds
         THEN Abort(r) /\ UNCHANGED albums
         ELSE /\ albums' = Renamed(a, n)
              /\ Becomes(r, Matched(run[r]))
  /\ UNCHANGED <<source, nextAlbum, images, nextImage, log, bounds>>

\* bindFolderID, first statement.
Detach(r) ==
  /\ run[r].pc = "detach"
  /\ albums' = [x \in AlbumIds |->
                 IF albums[x].folder = run[r].folder /\ x # run[r].album
                 THEN [albums[x] EXCEPT !.folder = None] ELSE albums[x]]
  /\ Becomes(r, [run[r] EXCEPT !.pc = "attach"])
  /\ UNCHANGED <<source, nextAlbum, images, nextImage, log, bounds>>

\* bindFolderID, second statement.  albums.folder_id is UNIQUE where not NULL.
Attach(r) ==
  /\ run[r].pc = "attach"
  /\ LET a == run[r].album
         d == run[r].folder
     IN  IF HoldersOf(d) \ {a} # {} /\ a \in AlbumIds
         THEN Abort(r) /\ UNCHANGED albums
         ELSE /\ albums' = [x \in AlbumIds |-> IF x = a THEN [albums[x] EXCEPT !.folder = d]
                                                        ELSE albums[x]]
              /\ Becomes(r, Matched(run[r]))
  /\ UNCHANGED <<source, nextAlbum, images, nextImage, log, bounds>>

\* resolveAlbumRow's INSERT: both unique indexes may refuse it.
InsertAlbum(r) ==
  /\ run[r].pc = "insert"
  /\ LET n == run[r].name
         d == run[r].folder
     IN  IF Named(n) \cup HoldersOf(d) # {}
         THEN Abort(r) /\ UNCHANGED <<albums, nextAlbum>>
         ELSE /\ albums' = [x \in AlbumIds \cup {nextAlbum} |->
                             IF x = nextAlbum
                             THEN [name |-> n, folder |-> d, path |-> <<d, n>>,
                                   missing |-> FALSE, cover |-> None]
                             ELSE albums[x]]
              /\ nextAlbum' = nextAlbum + 1
              /\ Becomes(r, [run[r] EXCEPT !.pc = "upsert", !.album = nextAlbum])
  /\ UNCHANGED <<source, images, nextImage, log, bounds>>

\* syncSourcePath on a row that already existed.
SyncPath(r) ==
  /\ run[r].pc = "path"
  /\ albums' = [x \in AlbumIds |->
                 IF x = run[r].album
                 THEN [albums[x] EXCEPT !.path = <<run[r].folder, run[r].name>>]
                 ELSE albums[x]]
  /\ Becomes(r, [run[r] EXCEPT !.pc = "upsert"])
  /\ UNCHANGED <<source, nextAlbum, images, nextImage, log, bounds>>

\* upsertEntry.  images.album_id is a foreign key.  The conflict branch moves and
\* revives the row and reports it as not inserted, so it is not new content.
RowId(f) == IF f \in DOMAIN images THEN images[f].id ELSE nextImage

\* RETURNING (xmax = 0); the faulty variant counts a revived row as inserted.
InsertedOrRevived(f) == f \notin DOMAIN images \/ ~images[f].live
Inserted(f) == f \notin DOMAIN images

UpsertRow(f, a) ==
  /\ images' = [g \in DOMAIN images \cup {f} |->
                 IF g = f THEN [id |-> RowId(f), album |-> a, live |-> TRUE]
                          ELSE images[g]]
  /\ nextImage' = IF f \in DOMAIN images THEN nextImage ELSE nextImage + 1

AfterUpsert(s, f, new) ==
  LET t == [s EXCEPT !.left = @ \ {f}, !.pc = IF s.left = {f} THEN "prune" ELSE "upsert"]
  IN  IF new THEN [t EXCEPT !.fresh[s.name] = @ \cup {RowId(f)}] ELSE t

Upsert(r) ==
  /\ run[r].pc = "upsert"
  /\ \E f \in run[r].left :
       IF run[r].album \notin AlbumIds
       THEN Abort(r) /\ UNCHANGED <<images, nextImage>>
       ELSE /\ UpsertRow(f, run[r].album)
            /\ Becomes(r, AfterUpsert(run[r], f, Inserted(f)))
  /\ UNCHANGED <<source, albums, nextAlbum, log, bounds>>

\* softDelete: live rows only, so an earlier removal is not reported again.
RetireFiles(gone) ==
  images' = [g \in DOMAIN images |->
              IF g \in gone THEN [images[g] EXCEPT !.live = FALSE] ELSE images[g]]

\* SoftDeleteByAlbumNotInFileIDs.
Prune(r) ==
  /\ run[r].pc = "prune"
  /\ RetireFiles(LiveIn(run[r].album) \ FilesOf(run[r].walk, run[r].name))
  /\ Becomes(r, [run[r] EXCEPT !.pc = "findcover"])
  /\ UNCHANGED <<source, albums, nextAlbum, nextImage, log, bounds>>

\* The loop goes on to the next group, or to the missing flags; the faulty variant
\* only ever sets them.
EndGroup(s) == [s EXCEPT !.name = None, !.folder = None, !.album = 0,
                         !.repath = FALSE, !.cover = None]
NeverCleared(s) == [EndGroup(s) EXCEPT !.pc = IF s.todo = {} THEN "mark" ELSE "resolve"]
NextGroup(s) == [EndGroup(s) EXCEPT !.pc = IF s.todo = {} THEN "clear" ELSE "resolve"]

\* updateCover: SELECT, then SET or CLEAR by what it found.
FindCover(r) ==
  /\ run[r].pc = "findcover"
  /\ LET found == LiveIn(run[r].album) \cap CoverFiles
     IN  \/ found = {} /\ Becomes(r, [run[r] EXCEPT !.pc = "setcover", !.cover = None])
         \/ \E f \in found : Becomes(r, [run[r] EXCEPT !.pc = "setcover", !.cover = f])
  /\ UNCHANGED <<source, db, log, bounds>>

\* cover_image_id is a foreign key; the error of a row deleted since is ignored.
SetCover(r) ==
  /\ run[r].pc = "setcover"
  /\ albums' = [x \in AlbumIds |->
                 IF x = run[r].album /\ run[r].cover \in DOMAIN images \cup {None}
                 THEN [albums[x] EXCEPT !.cover = run[r].cover] ELSE albums[x]]
  /\ Becomes(r, NextGroup(run[r]))
  /\ UNCHANGED <<source, nextAlbum, images, nextImage, log, bounds>>

\* Cover detection is best-effort: its errors do not abort the sync.
CoverError(r) ==
  /\ run[r].pc \in {"findcover", "setcover"} /\ faults < MaxFaults
  /\ faults' = faults + 1
  /\ Becomes(r, Disturbed(NextGroup(run[r])))
  /\ UNCHANGED <<source, db, log, edits, admin>>

ClearMissing(r) ==
  /\ run[r].pc = "clear"
  /\ albums' = [x \in AlbumIds |->
                 IF albums[x].name \in GroupNames(run[r].walk)
                 THEN [albums[x] EXCEPT !.missing = FALSE] ELSE albums[x]]
  /\ Becomes(r, [run[r] EXCEPT !.pc = "mark"])
  /\ UNCHANGED <<source, nextAlbum, images, nextImage, log, bounds>>

AfterRetire(s) ==
  [s EXCEPT !.pc = IF s.marked # {} THEN "retire" ELSE "record",
            !.todo = {n \in Names : s.fresh[n] # {}}]

\* MarkMissingExcept returns only the rows it newly marked.
MarkMissing(r) ==
  /\ run[r].pc = "mark"
  /\ LET marked == {x \in AlbumIds : /\ ~albums[x].missing
                                     /\ albums[x].name \notin GroupNames(run[r].walk)}
     IN  /\ albums' = [x \in AlbumIds |-> IF x \in marked
                                          THEN [albums[x] EXCEPT !.missing = TRUE]
                                          ELSE albums[x]]
         /\ Becomes(r, AfterRetire([run[r] EXCEPT !.marked = marked]))
  /\ UNCHANGED <<source, nextAlbum, images, nextImage, log, bounds>>

\* SoftDeleteByAlbum, once per marked album.
Retire(r) ==
  /\ run[r].pc = "retire"
  /\ \E a \in run[r].marked :
       /\ RetireFiles(LiveIn(a))
       /\ Becomes(r, AfterRetire([run[r] EXCEPT !.marked = @ \ {a}]))
  /\ UNCHANGED <<source, albums, nextAlbum, nextImage, log, bounds>>

\* recordEvents: one INSERT per event that announces something.
Record(r) ==
  /\ run[r].pc = "record"
  /\ \/ /\ run[r].todo = {}
        /\ Becomes(r, [run[r] EXCEPT !.pc = "finish"])
        /\ UNCHANGED announced
     \/ \E n \in run[r].todo :
          /\ announced' = announced \cup run[r].fresh[n]
          /\ Becomes(r, [run[r] EXCEPT !.todo = @ \ {n}, !.fresh[n] = {},
                                       !.report = @ \cup run[r].fresh[n]])
  /\ UNCHANGED <<source, db, delivered, imported, bounds>>

\* The report reaches notifySyncEvents, which drops it on the initial import.
Finish(r) ==
  /\ run[r].pc = "finish"
  /\ delivered' = IF run[r].initial THEN delivered ELSE delivered \cup run[r].report
  /\ imported' = (imported \/ run[r].walk # {})
  /\ Abort(r)
  /\ UNCHANGED <<source, db, announced, bounds>>

\* Any statement fails, or the process stops: the run is over, its report lost.
Fail(r) ==
  /\ Running(r) /\ faults < MaxFaults
  /\ Abort(r)
  /\ faults' = faults + 1
  /\ UNCHANGED <<source, db, log, edits, admin>>

RunStep(r) ==
  \/ Walk(r) \/ Resolve(r) \/ Lookup(r) \/ Rename(r) \/ Detach(r) \/ Attach(r)
  \/ InsertAlbum(r) \/ SyncPath(r) \/ Upsert(r) \/ Prune(r) \/ FindCover(r)
  \/ SetCover(r) \/ ClearMissing(r) \/ MarkMissing(r) \/ Retire(r) \/ Record(r)
  \/ Finish(r)

-----------------------------------------------------------------------------
(***************************************************************************)
(* The source is reorganised: a file appears, moves or goes, a folder is   *)
(* renamed.  A pCloud file and folder keep their ids when they move; a     *)
(* renamed local folder is a new folder with new files.                    *)
(***************************************************************************)
Reorganise ==
  /\ edits < MaxEdits /\ edits' = edits + 1
  /\ \/ \E f \in Files, d \in Folders \cup {None} :
          place' = [place EXCEPT ![f] = d] /\ UNCHANGED called
     \/ \E d \in Folders, n \in Names :
          called' = [called EXCEPT ![d] = n] /\ UNCHANGED place
  /\ UNCHANGED <<db, log, run, admin, faults>>

\* AlbumsRepo.Delete: images cascade, covers on them are set to NULL.
DeleteAlbum(a) ==
  /\ LET kept == {f \in DOMAIN images : images[f].album # a}
     IN  /\ images' = [f \in kept |-> images[f]]
         /\ albums' = [x \in AlbumIds \ {a} |->
                        IF albums[x].cover \in kept THEN albums[x]
                        ELSE [albums[x] EXCEPT !.cover = None]]
  /\ UNCHANGED <<nextAlbum, nextImage>>

\* AlbumsRepo.Update, the part a sync can see: the name.
RenameAlbum(a, n) ==
  /\ Named(n) = {}
  /\ albums' = Renamed(a, n)
  /\ UNCHANGED <<nextAlbum, images, nextImage>>

\* AlbumsRepo.Create: a row no folder was ever seen for.
CreateAlbum(n) ==
  /\ Named(n) = {}
  /\ albums' = [x \in AlbumIds \cup {nextAlbum} |->
                 IF x = nextAlbum
                 THEN [name |-> n, folder |-> None, path |-> None,
                       missing |-> FALSE, cover |-> None]
                 ELSE albums[x]]
  /\ nextAlbum' = nextAlbum + 1
  /\ UNCHANGED <<images, nextImage>>

\* ImagesRepo.Delete.
DeleteImage(f) ==
  /\ images' = [g \in DOMAIN images \ {f} |-> images[g]]
  /\ albums' = [x \in AlbumIds |-> IF albums[x].cover = f
                                   THEN [albums[x] EXCEPT !.cover = None] ELSE albums[x]]
  /\ UNCHANGED <<nextAlbum, nextImage>>

\* An operator's edit of the tables, which disturbs the runs in progress.
Operate ==
  /\ edits < MaxEdits /\ edits' = edits + 1
  /\ admin < MaxAdmin /\ admin' = admin + 1
  /\ \/ \E a \in AlbumIds : DeleteAlbum(a)
     \/ \E a \in AlbumIds, n \in Names : RenameAlbum(a, n)
     \/ \E n \in Names : CreateAlbum(n)
     \/ \E f \in DOMAIN images : DeleteImage(f)
  /\ run' = [q \in Runs |-> Disturbed(run[q])]
  /\ UNCHANGED <<source, log, faults>>

Next ==
  \/ \E r \in Runs : Begin(r) \/ RunStep(r) \/ WalkBroken(r) \/ CoverError(r) \/ Fail(r)
  \/ Reorganise
  \/ Operate

Spec == Init /\ [][Next]_vars

(***************************************************************************)
(* The scheduler's loop starts a run again and again; nobody need ever     *)
(* press "sync now".  A started run is a goroutine that keeps executing.   *)
(***************************************************************************)
Fairness ==
  /\ \A r \in Scheduled : WF_vars(Begin(r))
  /\ \A r \in Runs : WF_vars(RunStep(r))

FairSpec == Spec /\ Fairness

-----------------------------------------------------------------------------
(* Properties                                                              *)

SourceOK ==
  /\ place \in [Files -> Folders \cup {None}]
  /\ called \in [Folders -> Names]

AlbumsOK ==
  /\ nextAlbum \in Nat \ {0}
  /\ AlbumIds \subseteq 1 .. (nextAlbum - 1)
  /\ albums \in [AlbumIds -> AlbumRow]

ImagesOK ==
  /\ nextImage \in Nat \ {0}
  /\ DOMAIN images \subseteq Files
  /\ images \in [DOMAIN images -> ImageRow]

LogOK ==
  /\ announced \subseteq Nat /\ delivered \subseteq Nat
  /\ imported \in BOOLEAN

\* A run that works on a group knows its name and its folder.
GroupPCs == {"lookup", "rename", "detach", "attach", "insert", "path", "upsert",
             "prune", "findcover", "setcover"}
OfGroup(s) == s.pc \in GroupPCs => s.name \in Names /\ s.folder \in Folders

RunsOK == run \in [Runs -> RunState] /\ \A r \in Runs : OfGroup(run[r])

BoundsOK ==
  /\ edits \in 0 .. MaxEdits /\ admin \in 0 .. MaxAdmin /\ faults \in 0 .. MaxFaults

\* Every variable has its type, and the ids of album rows come from their sequence.
TypeOK == SourceOK /\ AlbumsOK /\ ImagesOK /\ LogOK /\ RunsOK /\ BoundsOK

Pending(r) == UNION {run[r].fresh[n] : n \in Names}

(***************************************************************************)
(* A file is announced at most once per image row, however runs overlap,   *)
(* fail and follow each other: an inserted row is new content of exactly   *)
(* one run, and of none once an event names it (a row that is revived or   *)
(* moved was never new).                                                   *)
(***************************************************************************)
AnnouncedOnce ==
  \A r \in Runs :
    /\ Pending(r) \cap announced = {}
    /\ \A s \in Runs \ {r} : Pending(r) \cap Pending(s) = {}
    /\ \A m, n \in Names : m # n => run[r].fresh[m] \cap run[r].fresh[n] = {}

(***************************************************************************)
(* A row reaches the deliveries at most once, and only after an event      *)
(* recorded it: two runs never report the same row, none reports a row     *)
(* that was handed over before, and a run that fails takes its report with *)
(* it.                                                                     *)
(***************************************************************************)
DeliveredOnce ==
  /\ delivered \subseteq announced
  /\ \A r \in Runs :
       /\ run[r].report \subseteq announced \ delivered
       /\ \A s \in Runs \ {r} : run[r].report \cap run[s].report = {}

\* Numbers only come from the sequence: every row that a run holds as new, or an
\* event names, has an id already handed out.
IdsAllocated ==
  /\ announced \subseteq 1 .. (nextImage - 1)
  /\ \A r \in Runs : Pending(r) \subseteq 1 .. (nextImage - 1)

\* The inductive invariant behind AnnouncedOnce, DeliveredOnce and the refinement.
SyncInv == TypeOK /\ IdsAllocated /\ AnnouncedOnce /\ DeliveredOnce

\* Album a has the folder, the path, the files and a cover of group n of the walk of run r.
CoverOf(a, c) ==
  \/ c \in LiveIn(a) \cap CoverFiles
  \/ c = None /\ LiveIn(a) \cap CoverFiles = {}

Mirrors(r, n, a) ==
  /\ albums[a].folder \in FoldersOf(run[r].walk, n)
  /\ albums[a].path = <<albums[a].folder, n>>
  /\ LiveIn(a) = FilesOf(run[r].walk, n)
  /\ CoverOf(a, albums[a].cover)

\* The album of group n agrees with the walk of run r.
Coherent(r, n) ==
  \E a \in Named(n) :
    /\ Named(n) = {a}
    /\ ~albums[a].missing
    /\ Mirrors(r, n, a)

(***************************************************************************)
(* A run that had the tables to itself leaves them equal to its walk:      *)
(* every walked folder has one album of its name, present, bound to the    *)
(* folder, with the folder's files live and no others, its cover one of    *)
(* them; every other album is flagged missing.  Files moved between        *)
(* folders, exchanged names and albums back from missing all end there,    *)
(* in whatever order the groups are met and whatever an earlier run that   *)
(* failed half-way has left.                                               *)
(***************************************************************************)
CleanRunMirrors ==
  \A r \in Runs :
    (run[r].pc = "finish" /\ run[r].clean /\ run[r].walk # {}) =>
      /\ \A n \in GroupNames(run[r].walk) : Coherent(r, n)
      /\ \A a \in AlbumIds :
           albums[a].name \notin GroupNames(run[r].walk) => albums[a].missing

(***************************************************************************)
(* A folder keeps its album across a rename: in a run on its own, the      *)
(* album a folder id was bound to carries the folder's new name and the    *)
(* folder id at the end, provided the new name was free and the folder's   *)
(* alone, and the old name is not that of another walked folder now.       *)
(***************************************************************************)
KeptBy(r, d, n) ==
  LET a == run[r].held[d][1]
  IN  a \in AlbumIds /\ albums[a].name = n /\ albums[a].folder = d

RenamedTo(r, d, n) ==
  /\ run[r].held[d][1] # 0
  /\ FoldersOf(run[r].walk, n) = {d}
  /\ n \notin run[r].taken
  /\ run[r].held[d][2] \notin GroupNames(run[r].walk)

RenameKeepsAlbum ==
  \A r \in Runs : (run[r].pc = "finish" /\ run[r].clean) =>
    \A d \in Folders, n \in Names : RenamedTo(r, d, n) => KeptBy(r, d, n)

(***************************************************************************)
(* The tables mirror the source as it is now.  A run that failed half-way  *)
(* may have left live rows in an album already missing: no later run looks *)
(* there.                                                                  *)
(***************************************************************************)
Mirror ==
  /\ \A f \in Files :
       IF place[f] = None
       THEN (f \in DOMAIN images /\ images[f].live)
              => (faults > 0 /\ albums[images[f].album].missing)
       ELSE /\ f \in DOMAIN images
            /\ images[f].live
            /\ albums[images[f].album].name = called[place[f]]
  /\ \A a \in AlbumIds :
       albums[a].missing <=> albums[a].name \notin GroupNames(Entries)

(***************************************************************************)
(* Once nobody reorganises the source and no statement fails, the runs     *)
(* bring the tables to mirror it, however they overlap, and whatever the   *)
(* failures before have left (unless the source ends up empty, where the   *)
(* safety valve keeps what there is).                                      *)
(***************************************************************************)
EventuallyMirrors == []<>(Mirror \/ Entries = {})

(***************************************************************************)
(* Seen from sync_events, a run is a ledger that hands each image row's id *)
(* out once and announces it at most once.                                 *)
(***************************************************************************)
Ledger == INSTANCE DiscoveryLedger WITH
            next <- nextImage,
            pending <- UNION {Pending(r) : r \in Runs}

ImplementsLedger == Ledger!Spec

-----------------------------------------------------------------------------
(* What the documentation says, and the code does not do                   *)

Quiescent == \A r \in Runs : ~Running(r)

\* README "Media sync": the bot periodically walks the configured media source,
\* pCloud or a local directory (which needs no credentials).
SourceIsWalkedPeriodically == \A r \in Scheduled : []<>Running(r)

\* README "Reorganizing the media library": a folder that disappears is flagged
\* with missing_since, and its files with deleted_at.
MissingAlbumsHoldNoLiveFiles ==
  Quiescent => \A a \in AlbumIds : albums[a].missing => LiveIn(a) = {}

\* README "Rich sync notifications": every discovery is also stored for the
\* Activity page.
EveryDiscoveryIsRecorded ==
  Quiescent => \A f \in DOMAIN images : images[f].id \in announced

\* README "Rich sync notifications": the first-ever import is suppressed to avoid
\* flooding.  A run that reports before any import has completed is the first.
FirstImportIsSuppressed ==
  \A r \in Runs : (run[r].pc = "finish" /\ ~imported /\ run[r].report # {})
                    => run[r].initial
================================================================================
