--------------------------------- MODULE Links ----------------------------------
(***************************************************************************)
(* Links to media (usecase/images/images.go and repo/webapi/pcloud.go): a  *)
(* download link is minted per file, works for some hours and is cached    *)
(* for less; a public link is asked for once, stored in the image's row    *)
(* and handed out from there ever after.  Dashboard pages, deliveries and  *)
(* discoveries resolve links at the same time, from rows they read before. *)
(*                                                                         *)
(* Abstractions: a link is what it leads to, and when it was minted.  An   *)
(* image is one of pCloud's: any other has a URL of its own, which is all  *)
(* there is to it.  How a request is retried is PCloudClient's part.       *)
(***************************************************************************)
EXTENDS Naturals

CONSTANTS Callers,
          Images, Files,   \* ids of images, and pCloud's of files
          NoLink,
          TTL,             \* pcloudFileLinkTTL
          Timeout,         \* how long an answer of pCloud takes at most
          Life,            \* how long pCloud honours a download link
          MaxLinkTime, MaxImageEdits   \* bounds: the clock, edits of images

\* What is assumed of the constants.
ASSUME LinksAssumption ==
  /\ NoLink \notin Files /\ Images # {}
  /\ {TTL, Timeout, Life, MaxLinkTime, MaxImageEdits} \subseteq Nat
  /\ Life > TTL + Timeout   \* several hours against 50 minutes

VARIABLES
  imageRow,  \* images: file_id and public_link, the file it leads to
  had,       \* history: the files each row has named
  cache,     \* fileLinkCache: when a file's link was minted, and its expiresAt
  caller,    \* locals of each call; of one that is done, the link and its age
  clock, imageEdits

linking == <<imageRow, had, cache, caller, clock, imageEdits>>

Wants == {"download", "public", "preview"}
IdleCall ==
  [pc |-> "idle", want |-> "download", id |-> CHOOSE i \in Images : TRUE, file |-> NoLink,
   kind |-> "none", leads |-> NoLink, minted |-> 0, age |-> 0]

LinkingInit ==
  /\ imageRow \in [Images -> [file : Files, public : {NoLink}]]
  /\ had = [i \in Images |-> {imageRow[i].file}]
  /\ cache = [f \in {} |-> NoLink]
  /\ caller = [c \in Callers |-> IdleCall]
  /\ clock = 0 /\ imageEdits = 0

CallBecomes(c, l) == caller' = [caller EXCEPT ![c] = l]
Answer(l, kind, leads, age) ==
  [l EXCEPT !.pc = "done", !.want = "download", !.kind = kind, !.leads = leads, !.minted = 0, !.age = age]

\* Whether the cache has a link to f; the faulty variant keeps it for good.
EverCached(f) == f \in DOMAIN cache
Cached(f) == f \in DOMAIN cache /\ clock <= cache[f].expires

\* ResolveDownloadURL, up to its request.
Download(l) ==
  IF Cached(l.file) THEN Answer(l, "download", l.file, clock - cache[l.file].minted)
                    ELSE [l EXCEPT !.pc = "getlink"]

\* ThumbURL: the thumbnail behind a public link; without a code in that there is none
\* and a download link must do.
Previews(l, link) == {Answer(l, "thumb", link, 0), Download(l)}

\* What is made of a public link, stored or new.
Shown(l, link) == IF l.want = "preview" THEN Previews(l, link) ELSE {Answer(l, "share", link, 0)}

\* ResolvePublicURL, up to its request, and ResolvePreviewURL, which begins with it.
Public(l, stored) == IF stored = NoLink THEN {[l EXCEPT !.pc = "share"]} ELSE Shown(l, stored)

-----------------------------------------------------------------------------
\* A call, with the row as its caller read it.
Resolve(c, i, want) ==
  LET l == [IdleCall EXCEPT !.want = want, !.id = i, !.file = imageRow[i].file]
  IN  /\ caller[c].pc \in {"idle", "done"}
      /\ \/ want = "download" /\ CallBecomes(c, Download(l))
         \/ want # "download" /\ \E next \in Public(l, imageRow[i].public) : CallBecomes(c, next)
      /\ UNCHANGED <<imageRow, had, cache, clock, imageEdits>>

\* doGetFileLink: pCloud mints a link.
GetFileLink(c) ==
  /\ caller[c].pc = "getlink"
  /\ CallBecomes(c, [caller[c] EXCEPT !.pc = "put", !.minted = clock])
  /\ UNCHANGED <<imageRow, had, cache, clock, imageEdits>>

\* putFileLinkInCache, when it arrives: of two that missed, the later overwrites.
Put(c) ==
  LET l == caller[c]
  IN  /\ l.pc = "put"
      /\ cache' = [f \in DOMAIN cache \cup {l.file} |->
                     IF f = l.file THEN [minted |-> l.minted, expires |-> clock + TTL] ELSE cache[f]]
      /\ CallBecomes(c, Answer(l, "download", l.file, clock - l.minted))
      /\ UNCHANGED <<imageRow, had, clock, imageEdits>>

\* doGetFilePublicLink: the one public link of the file, made now or before.
GetFilePublicLink(c) ==
  /\ caller[c].pc = "share"
  /\ CallBecomes(c, [caller[c] EXCEPT !.pc = "store", !.leads = caller[c].file])
  /\ UNCHANGED <<imageRow, had, cache, clock, imageEdits>>

\* SetPublicLink, whatever the row says by now.
SetPublicLink(c) ==
  LET l == caller[c]
  IN  /\ l.pc = "store"
      /\ imageRow' = [imageRow EXCEPT ![l.id].public = l.leads]
      /\ \E next \in Shown(l, l.leads) : CallBecomes(c, next)
      /\ UNCHANGED <<had, cache, clock, imageEdits>>

\* A request or the UPDATE fails, and with it the call.
Fail(c) ==
  /\ caller[c].pc \notin {"idle", "done"} /\ CallBecomes(c, IdleCall)
  /\ UNCHANGED <<imageRow, had, cache, clock, imageEdits>>

-----------------------------------------------------------------------------
\* The dashboard gives an image another file: images.Update leaves public_link alone.
EditImage(i, f) ==
  /\ imageEdits < MaxImageEdits /\ imageEdits' = imageEdits + 1 /\ f # imageRow[i].file
  /\ imageRow' = [imageRow EXCEPT ![i].file = f] /\ had' = [had EXCEPT ![i] = @ \cup {f}]
  /\ UNCHANGED <<cache, caller, clock>>

LinkTick ==
  /\ clock < MaxLinkTime /\ clock' = clock + 1
  /\ \A c \in Callers : caller[c].pc = "put" => clock < caller[c].minted + Timeout
  /\ UNCHANGED <<imageRow, had, cache, caller, imageEdits>>

LinkingNext ==
  \/ \E c \in Callers :
       \/ \E i \in Images, w \in Wants : Resolve(c, i, w)
       \/ GetFileLink(c) \/ Put(c) \/ GetFilePublicLink(c) \/ SetPublicLink(c) \/ Fail(c)
  \/ \E i \in Images, f \in Files : EditImage(i, f)
  \/ LinkTick

LinkingSpec == LinkingInit /\ [][LinkingNext]_linking

-----------------------------------------------------------------------------
(* Properties                                                              *)

LinkingTypeOK ==
  /\ imageRow \in [Images -> [file : Files, public : Files \cup {NoLink}]]
  /\ \A i \in Images : had[i] \subseteq Files /\ imageRow[i].file \in had[i]
  /\ DOMAIN cache \subseteq Files /\ cache \in [DOMAIN cache -> [minted : Nat, expires : Nat]]
  /\ \A c \in Callers : /\ caller[c].want \in Wants /\ caller[c].id \in Images
                        /\ caller[c].pc \in {"idle", "getlink", "put", "share", "store", "done"}
  /\ clock \in 0 .. MaxLinkTime /\ imageEdits \in 0 .. MaxImageEdits

(***************************************************************************)
(* Whoever resolves a link gets one that works: a download link leads to   *)
(* the file the caller knows and pCloud still honours it, however long it  *)
(* was cached and however often two callers missed at once; a public link  *)
(* leads to a file the image has named, and if its row was never edited to *)
(* the one it names, for every caller the same.                            *)
(***************************************************************************)
LinksLeadToTheFile ==
  \A c \in Callers :
    LET l == caller[c]
    IN  l.pc = "done" =>
          /\ l.kind = "download" => l.leads = l.file /\ l.age < Life
          /\ l.kind \in {"share", "thumb"} =>
               l.leads \in had[l.id] /\ (had[l.id] = {imageRow[l.id].file} => l.leads = imageRow[l.id].file)
================================================================================
