# Verification of the sendmemes Discord bot

TLA+ models of the bot in `../src`, the TLC runs that check them on small
instances, and theorems about them that TLAPS checks for every value of the
constants. `PROJECT.json` names every run, the mutation of the model that each
checked property rejects, and the source lines behind every definition.

    tlc -config sync_solo.cfg MCMediaSync.tla     # a run
    tlapm MediaSyncProofs.tla                     # the proofs of a module

## 1. Inventory

The program is one Go process over one PostgreSQL database. Goroutines share the
tables (single statements, never a transaction around several), a few maps under
mutexes, and two external services: Discord and a media source, which is pCloud
or a local directory.

| Component (under `internal/`) | State it keeps | Operations | Hard about it | Module |
|---|---|---|---|---|
| Media sync, `usecase/sync` with the album and image repositories | tables `albums`, `images`, `sync_events` | `SyncImages`, from the scheduler's loop or "sync now" | no lock: runs overlap statement by statement; folders renamed, swapped, gone, back; failure between statements | `MediaSync`, `DiscoveryLedger` |
| Schedule manager, `controller/discord/scheduler.go` 402-515 | map from rules to goroutines, `delivery_rules` | reconcile every 30 s, one goroutine per rule, `Close` | rules edited while the list is applied; cancelled goroutines that still send; timers that start anew | `ScheduleManager` |
| Scheduled send, `scheduler.go` 517-601, `GetRandomExcludeRecent` | `albums.last_sent_at` | select, deliver, stamp | one anti-repeat window for all rules, read long before it is written | `ScheduledSend` |
| Reaction feedback, `controller/discord/bot.go` 372-410 | map and FIFO of recent messages, `positive_rating` | track, react, count | look-up and update apart; eviction; restart | `ReactionFeedback` |
| pCloud client, `repo/webapi/pcloud.go` | token, semaphore, login mutex, link cache | list, resolve, share, login | calls that overlap share one token and drop it for each other | `PCloudClient` |
| Rules use case and repository | `delivery_rules` | create, update, delete, seed | partial seeding; a bad row fails the list | part of `ScheduleManager` |
| Sync scheduler and notifier, `scheduler.go` 28-400 | none | loop, record, notify, post | runs only with pCloud credentials; many rules, three messages each, any of which fails | `MediaSync`, `DiscoveryPosts`, `JobLog` |
| Files of a message, `bot.go` 100-244 | none | sample to a budget, pack in order | limits by count and bytes at once | `FilePacking` |
| Delivery, backoff and failure notices, `bot.go` 711-1195 | times of the notices | deliver by mode, shed and retry, explain | the real limit is unknown and moves; sends that fail together | `Delivery` |
| Full albums, `bot.go` 412-600, `commands_slash.go` 147-403 | offsets in the buttons on Discord | thread, page, continue | the list changes between presses; a button pressed twice; faults between its retirement and the next | `FullAlbum` |
| Path filter, `entity/album_filter.go` and its SQL | none | normalise, match | two implementations of one predicate; wildcards | `PathScope` |
| Natural order, `usecase/images/natsort.go` | none | compare | runs of digits of any length; one consistent order | `NaturalOrder` |
| Links, `usecase/images/images.go`, `pcloud.go` 449-610 | link cache, `images.public_link` | resolve to download, share, preview | cached links outlive edits; two misses at once | `Links` |
| App settings | one settings row | seed, read-modify-write | lost updates, seed against edits | `AppSettings` |
| Jobs manager, task runs, ingestion | the last 50 jobs, table `task_runs` | start, finish, record, report, prune | jobs evicted while they run; late and repeated reports | `JobLog` |
| Admin use case and REST API | tables `albums`, `images`, `delivery_rules`, `admin_audit_logs` | create, update, delete, audit | a statement and its audit entry apart | `AdminConsole`; the edits are also actions of `MediaSync` and `ScheduleManager` |
| Schedule specifications, message rendering, prefix commands, server, logger, pool, wiring | – | wall-clock arithmetic, layout, I/O | – | not modelled |

Interactions: the scheduler's loop and the dashboard call `SyncImages`; its report
feeds the notifier, which posts to the channels of event rules. Every rule's
goroutine, and "send now", runs a scheduled send: it selects an album, posts it
through the delivery code, hands the message to the reaction feedback and stamps
the album. The sync flags albums missing and the dashboard deletes them under all
of these. Sync, deliveries and dashboard pages call the media source.

What makes each correct:

* **Media sync**: an undisturbed run leaves the tables equal to what it walked; a
  renamed folder keeps its album; no discovery is announced or delivered twice;
  after the last failure the tables catch up with the source.
* **Schedule manager**: one live goroutine per rule; an edit reaches the channel;
  a rule nobody edited keeps its timer; everything stops at `Close`.
* **Scheduled send**: a rule repeats an album only after enough others; no album
  starves.
* **Reaction feedback**: each reaction to a remembered message counts once.
* **pCloud client**: slots and mutex are always given back, callers share logins,
  every call ends, and a client that can log in recovers.
* **Files and delivery**: a message is within what Discord takes and not emptier
  than it must be; packing loses nothing; a rejected post is salvaged or explained,
  and channels are not flooded with explanations.
* **Full albums**: the pages of a thread tile the album, and a thread that is not
  through can be continued.
* **Notifier**: one rule's failure is not another's, and a discovery is said once.
* **Settings, jobs, audit**: what was set stays, what was done is on record, and the
  record agrees with the tables.
* **Filters, order, links**: Go and SQL answer alike, comparisons are one order, and
  a link leads to the file it was asked for while it works.

## 2. Modules and how they correspond to the code

### MediaSync

One action per SQL statement of `SyncImages` and of the repository operations it
calls; the local variables of a run are the record `run[r]`, and its `pc` says which
statement comes next. `Resolve`, `Lookup`, `Rename`, `Detach`, `Attach`,
`InsertAlbum` and `SyncPath` are `ResolveByFolder` and its helpers; `Upsert` and
`Prune` keep a group's images; `FindCover` and `SetCover` its cover;
`ClearMissing`, `MarkMissing` and `Retire` the pass over vanished albums; `Record`
and `Finish` are `recordEvents` and `notifySyncEvents`. `Fail` is an error of any
statement, or a stop of the process. `Reorganise` changes the source, `Operate` is
the dashboard. `Begin` carries the early return of `runSyncScheduler`.

Abstracted: image URLs, kinds and sizes; a path is the pair of folder and name; a
walk is atomic; of the event rows only the announcements (created, added) are kept.

### SyncMirror

No code of its own: the inductive invariant `MirrorInv` of `MediaSync`, from which
`CleanRunMirrors` and `RenameKeepsAlbum` follow (section 6). A module of its own lets
TLC check it (`sync_solo`) and `MediaSyncProofs` prove it.

### DiscoveryLedger

What the sync promises to readers of `sync_events`: a ledger hands out numbers
(inserted image rows), keeps some pending, and announces a number at most once.
`MediaSync` implements it with `next <- nextImage` and `pending <-` the fresh ids
of all runs. The number can be lost (`Fail`), which is the finding
`sync_lost_discovery`.

### ScheduleManager

The manager's loop (`List`, `Reconcile` rule by rule, `Sweep`, `Tick`, `Stop`), the
goroutines (`Fire`, `Sent`, `Quit`), the edits of the table and `Close`. A row is
`route` (what decides when and where), `look` (everything else), `active`, and
`stamp`, the edit that wrote it, which stands for `updated_at`. A `select` with
several ready cases takes any of them. A send is an interval of its goroutine.

The signature includes `updated_at`, so an edit of the styling restarts the
goroutine; the known limitation at `src/README.md:74` describes an earlier version.

### ScheduledSend

Senders interleave between `Select` (one query), `Fallback` (the second query,
when no album is eligible), `Deliver` and `Mark`. `last_sent_at` is kept as the
relation "stamped later than" (`later`), which is all the query needs; two stamps
are taken to differ. The history variable `gap[s][a]` collects the albums stamped
since sender `s` last stamped `a`. A delivery posts or does not; an album in
`Broken` never posts. `EditTable` is a sync that flags an album, or a deletion.

The fallback does not reset the window: once every album in scope is in it, each
selection is fully random until the table grows.

### ReactionFeedback

`Track` is `trackScheduledMsg`, `React` and `Count` the two halves of
`handleReactionAdd`. A message is on Discord (`posted`) before it is tracked.
`due` counts, as history, the reactions that ought to count. Reactions of the bot
itself are ignored by the code and are no action.

### PCloudClient

`retryWithRelogin` around any call: `Send` takes a slot and reads the token,
`Succeed` or `Reject` end the request, `Clear` is `clearToken`, `Backoff` and
`Relogin` lead to the next attempt, `LoggedIn` and `LoginAgain` are `doLogin`, and
`GiveUp` every other error return, with what the deferred calls give back. A token
is good or dead to pCloud, or empty. The four kinds of credentials (OAuth or not,
password or not) are initial states.

### FilePacking

`Shuffle` picks the order of the candidates and starts one of two loops: `Evict` and
`Sampled` are the iterations of `fitToLimit`, `Pack` and `Packed` those of
`chunkOrdered`. Every permutation that `rand.Shuffle` may return is tried.

### Delivery

`Deliver` is `deliverAlbum` up to its send: each of the five modes prepares one of
the batches it may, or gives up in the way it does (a notice to the channel, or only
a log line). `Attempt` is one turn of the loop in `sendWithBackoff`, `Claim` is
`claimFailureNotice`, whose check and stamp are under one lock, and `Notice` the
message after it. `accepts` is what Discord takes, a number the bot cannot read;
`LimitMoves` changes it under a running delivery.

### FullAlbum

Handlers are the goroutines of commands and buttons. `LoadCover` and `LoadList` are
two reads, `OpenThread` fails when the message has a thread, `SendCover` and
`SendWindow` post and `Close` ends a page with the button. `PressMore`, `Clear` and
`Read` are `cmdFullAlbumMore`, in the order of the code: acknowledge, retire the
button, read the album again. `AppendImage` is a sync that adds to the album; `Shift`
is every change that moves the images before an offset, which no promise survives: the
comment at `commands_slash.go` 215 speaks of appended images only.

### DiscoveryPosts

`ListRules` and `NextRule` are the two loops of `notifySyncEvents`, with its cap;
`Attach`, `Link` and `Text` the three messages of `postDiscoveredMedia`. The rules an
event goes to are a set, taken lowest id first, as the query orders them. Rules are
toggled while it runs: a list, once read, is served to its end.

### JobLog

`Start`, `Work`, `RecordRun` and `Finish` are a job from the button to its end, with
the manager's list cut under its lock; `ScheduledRun` a run of the scheduler or of a
rule; `createRun` and `updateRun` the requests of other programs; `Prune` the sweep.

### PathScope and NaturalOrder

Pure functions, with one action per iteration of their loops, checked over every input
of a small alphabet: `MatchNext` and `MatchNone` against the subtrees a filter names
and against `albumPathPredicate`, the SQL condition with its escaping (a filter's paths
are a set, which `MatchNext` tries in any order); `CompareRuns`, `CompareBytes` and
`CompareEnds` against the order of dictionaries on keys, where a key is put together of
one `Piece` per byte.

### Links

`Resolve` starts a call with the row as its caller read it; `GetFileLink` and `Put`
are a miss of the cache; `GetFilePublicLink` and `SetPublicLink` make and store a
public link; `EditImage` is the dashboard, which gives an image another file and
leaves its public link as it is.

### AppSettings

`Edit` and `Write` are the two halves of each setter, `SeedRead` and `SeedWrite` those
of `EnsureSeeded`. `Get` fills a blank interval in from the environment, so that an
edit of another field stores it: from then on the environment's is not looked at.

### AdminConsole

Each request executes its statement, and `RecordAudit` inserts its entry later.
Deleting an album takes its images along (migration 000006). `scheduleAdd` and
`scheduleRemove` are the schedule commands of Discord, which edit the rules without an
entry.

### MCBot

Eleven modules above are small and share no state with each other. `MCBot` extends them
all for one run: `part` says which of them runs, and the others stand still in an initial
state (`AtRest`). Running them interleaved would multiply states that do not interact.
The properties the run checks are the modules' own, those the theorems are about. So that
a module can extend several, each names its machine after itself: `PagingInit`,
`PagingNext`, `PagingSpec`, `PagingTypeOK`, and so on.

## 3. Plan

Done: first `MediaSync`, `ScheduleManager`, `ScheduledSend`, `ReactionFeedback` and
`PCloudClient`, the bot's core; then the components around it, from `FilePacking` to
`AdminConsole`; then the proofs: every invariant and every action property that a run
checks is a theorem, each with its inductive invariant.

Left:

1. Composition of `ScheduleManager` with `ScheduledSend`, and of `ScheduledSend`
   with `Delivery` and `ReactionFeedback` (a posted message is tracked once).
2. Schedule specifications against a reference definition.

## 4. Runs, bounds and findings

| Run | Instance | Shows |
|---|---|---|
| `sync_solo` | one run at a time, 2 files (one a cover), 2 folders, 3 names, 2 edits, 1 failure | `CleanRunMirrors`, `RenameKeepsAlbum`, and `MirrorInv`, which they follow from |
| `sync_pair` | 2 overlapping runs, 1 file, 1 folder, 2 names, 2 edits, 1 failure | `SyncInv`, `AnnouncedOnce`, `DeliveredOnce`, `ImplementsLedger` |
| `sync_converge` | the scheduler's loop and a manual run, fair, 1 file, 2 folders | `EventuallyMirrors` |
| `schedule_rules` | 2 rules, 2 routes (one never fires), 2 edits, 1 failing query, `Close` | one sender per rule, edits reach the channel, quiet timers, rest after `Close` |
| `sends` | 2 rules, 3 albums (one broken), history 2, 2 edits, 1 failure, fair | `RepeatsAreSpaced`, `EveryAlbumGetsItsTurn` |
| `bot` | eleven components, one at a time; see below | the eighteen properties of the smaller modules |
| `pcloud` | 3 callers, 2 slots, 2 attempts, 1 expiry, 1 failure, fair | `ClientInv`, `LoginsAreShared`, `CallsEnd`, `LoneCallerRecovers` |

Why the bounds are enough. Two folders are what a swap of names, a merge and a
collision need, three names let one be free during it; two files tell a moved
file from one that stays. Two runs overlap in every way that pairs of statements
can. Two edits let the table change between the manager's query and its loop and
again after it. Three albums with a history of two make the window full, and a
second rule with a smaller scope fills it for the first. Three callers over two
slots contend for slots, token and mutex at once; the last of two attempts differs
from the first as the last of three does. A cap of two evicts with two messages
left over. Every bound is a constant named in a guard (`MaxEdits`, `MaxFaults`,
`MaxRules`, `MaxReactions`, `MaxUpsets`, `MaxExpiries`, `MaxAdmin`).

What `bot` shows, part by part:

| Part | Instance | Properties |
|---|---|---|
| reactions | 4 messages, cap 2, 2 albums, 3 reactions, 2 upsets | the memory holds the latest messages, each reaction counts once |
| settings | 2 editors, 3 edits, 1 failure or restart, every environment | what was set stays set, unless edits overlapped |
| packing | all pools of up to 4 files of sizes 1, 2 and 4, budget 3, counts 1 to 3 | samples serve, packing keeps every file |
| posting | 2 deliveries, 2 channels, 4 light or 2 uneven files, limits 2 and 4, interval 2 | backoff salvages, failures are told and not too often |
| paging | 2 handlers, albums of 0, 2 and 5, pages of 2, 2 asks, 3 presses of "more", 1 edit, 1 fault | pages tile, and lead on |
| notifying | reports of up to 3 events with a cap of 2, 2 rules, 2 paths, 1 toggle | every match is heard, the caption said once |
| logging | a list of 1 job, 2 pieces of work, retention 0, 1 failure | jobs leave a trace, the log has the last word |
| scoping | paths of up to 4 characters over `a`, `A`, `_` and `/`, filters of up to 2 entries | Go and SQL agree, on whole subtrees |
| comparing | all pairs of names of up to 3 bytes over `0`, `1`, `A` and `a` | one total order |
| linking | 2 callers, 1 image, 2 files, cached for 1, good for 3, 1 edit | links work and lead to the file |
| console | 2 handlers, 3 requests, 2 values, 1 failure | the audit tells the truth |

Four files let halving run three times (four, two, one); a budget of 3 has a file on
either side of it and sums that meet it exactly. Two pages and a half of images
make an offset fall inside the album, at its end and, after an edit, before a new last
image; three presses reach the last page, or press one button twice and still go on.
A list of one job evicts a running one with the second. Three bytes hold a run with a
leading zero beside a letter, four characters a subtree with a sibling that a wildcard
would take for it. Three requests create a row, change it and delete it or its album.

Deadlock is checked except in `bot`, where each part ends: bounded requests,
messages and reactions run out, and a comparison, once decided, is over.

Four runs of the sync and one of the client refute what a document says:

| Run | The code |
|---|---|
| `sync_half_retired` | A run that fails after flagging albums leaves live files in them; later runs look at newly flagged albums only. |
| `sync_lost_discovery` | Events are recorded last; a run that fails before loses its discoveries. |
| `sync_flood` | A first import that fails half-way leaves albums, so the next run is not a first import and reports everything. |
| `sync_local` | Without pCloud credentials the periodic sync never starts, also for a local source. |
| `pcloud_oauth` | One dropped connection makes the client forget a permanent OAuth token; nothing sets it again. |

`Mirror`, the state `EventuallyMirrors` promises, excepts the files the first of
these leaves behind. `EveryAlbumGetsItsTurn` is stated for histories that leave
exactly one album out: with a larger one the fallback is random, and chance is not
fairness. `LoneCallerRecovers` is stated for one caller: overlapping calls can keep
clearing each other's tokens, since `clearToken` does not look at which token was
rejected.

Met while modelling, without a run of their own, since no property of the run is about
them or the code only falls short of a comment in passing:

* `bot.go` 507-510 says that every image of a full album that fits is posted, but each
  chunk goes through `sendWithBackoff`, which may shed half of it: those images are
  counted as sent and nowhere named. `FullAlbum` lets a fault lose part of a window, and
  `PagesTile` promises arrival only without one.
* An embed names the first file that can be shown, which need not be the first of the
  list: shedding may remove it, although line 1173 keeps the first for its sake.
* `album_postgres.go` 181-182 says the SQL mirrors `Matches`; `Matches` also trims the
  blanks around a folder's name. `FiltersAgree` leaves such folders out.
* `bot.go` 1279-1281 says "send now" cannot leave the rule's scope;
  `baseStyleForChannel` returns an empty filter when the rules cannot be listed.
* `commands_slash.go` 233-235 says the cleared button cannot be pressed twice; a press
  before the clearing has reached Discord can. `PagesTile` excepts double presses.
* An image whose `file_id` is edited keeps the public link of the file it had;
  `LinksLeadToTheFile` says so.
* A scheduled send that posts nothing is a success to the jobs page and a failure in
  the run log; `FinishedJobsLeaveARun` says so.
* Overlapping edits of two settings can undo one another, and deleting an album leaves
  no entries for its images, nor does a schedule command for its rule: `SettingsAreKept`
  and `AuditTellsTheTruth` are stated around these.

## 5. Fairness

* `MediaSync`: the scheduler's loop calls `SyncImages` again and again
  (`runSyncScheduler` loops for ever on a timer), so `Begin` of the scheduler is
  weakly fair; a started run is a goroutine that executes, so its next statement is.
  Manual runs need never start. Failures are bounded, not fair.
* `ScheduleManager`: the ticker fires, the manager and the goroutines execute; nothing
  is assumed of `select` beyond taking some ready case.
* `ScheduledSend`: a rule's timer fires for ever. Which album the database's
  `RANDOM()` returns is never assumed: the property holds since only one album is
  eligible.
* `PCloudClient`: requests end (the HTTP client has a timeout) and timers fire: weak
  fairness. Waiting for a slot and for the mutex is strongly fair: Go's channels and
  mutexes queue their waiters, so who waits is served if the resource comes free again
  and again.
* `ReactionFeedback` and the other parts of `bot` claim safety only; what they promise
  at an end (a page that is through, a job that is over) is stated of the state
  reached.

## 6. Proofs

The constants need only the named assumptions in each module (`SyncAssumption`,
`ScheduleAssumption`, `SendAssumption`, `ClientAssumption`, `FeedbackAssumption`,
`SettingsAssumption`, `JobLogAssumption`, `LinksAssumption`, `ConsoleAssumption`,
`DeliveryAssumption`, `NotifyAssumption`, `PagingAssumption`, `PackingAssumption`,
`ScopeAssumption` and `OrderAssumption`): sets that are finite where something is
counted, bounds that are naturals, a `None` outside the sets, names made of bytes. The one with substance is that of `Links`: a link pCloud returns is good for
longer than the cache keeps it and an answer takes together, which the margin in the
code is there for. Each TLC run that extends a module evaluates its assumption on the
instance.

### Sync: MediaSyncProofs

* `TypeCorrect`. A type needs to know that a run inside a group has the group's name
  and folder, which is why `RunsOK` has that conjunct.
* `SyncInvariant`, `AnnouncedAtMostOnce`, `DeliveredAtMostOnce`. `AnnouncedOnce` alone
  is not inductive: a new id must be known to be new. `IdsAllocated` bounds every id a
  run, the log or the table holds by the sequence, and the conjunction with
  `DeliveredOnce` is kept by every statement.
* `SyncImplementsLedger`, and `LedgerInvariant`, the ledger's own. The refinement maps
  `Upsert` of an unknown file to an allocation, `Record` to an announcement, a failure
  to a loss and all else to stutters.
* `MirrorInvariant`, `CleanRunsMirror`, `RenamesKeepAlbums`. Of a run that has the
  tables to itself, `MirrorInv` says that the groups it is through with mirror the walk
  (`HandledMirror`), what it read of the group at hand is still so (`GroupAtHand`,
  `PathKnown`, `FilesAtHand`), what the flags are before, during and after the pass over
  vanished albums (`FlagsAtHand`), and where the album of a renamed folder is
  (`BindingsRead`, `BindingsHeld`). A statement about one group leaves the others
  mirrored since no two albums share a name or a folder (`TablesKeyed`, the unique
  indexes) and no two groups of a walk a file (`WalkKeyed`). That the album at hand may
  be taken from a group still to come is why the invariant speaks only of groups
  handled: the displaced group is repaired when its turn comes.

### Schedules and sends: ScheduleProofs, ScheduledSendProofs, PCloudProofs

* `ScheduleInvariant`, `OneSender`, `ServesListed`, `UneditedUndisturbed`.
  `OneSenderPerRule` needs that a handle is that of its rule's goroutine (`HandlesOK`),
  `ServesWhatWasListed` that a stamp identifies a row (`VersionsOK`), since signatures
  are compared in place of rows, and how much of the list the loop has been through
  (`LoopOK`).
* `SendInvariant`, `SpacedRepeats`. An album outside the window has at least
  `History[s]` albums stamped later (`Window`), and what was stamped later lies in the
  gap of every sender that stamped it (`GapsCoverLater`); an album with no stamp was
  stamped by nobody (`NeverMarked`), deletions included.
* `ClientInvariant`, `SharedLogins`. The semaphore's count is the cardinality of the
  requests on their way, which each step keeps by adding or removing one; a login
  follows a token that was dropped (`NoTokenWasRejected`), and `LoginsAreSerial` keeps
  another login from ending in between.

### Feedback and settings: BotProofs

* `LatestRemembered`, `ReactionsCounted`. `RemembersTheLatest` follows from
  `MemoryInv`: a message is tracked once (`TrackedOnce`), the FIFO is the tail of what
  was tracked (`QueueIsTail`), and the map is on the FIFO (`MapIsQueue`).
  `ReactionsCountOnce` needs in addition that every handler on its way is owed its
  update (`PendingIsDue`).
* `OneAnswer`. Three definitions of "below a path" come to one, `Below`, the path
  itself or a name that goes on with "/" after it: the matcher's (`MatchesIsBelow`), the
  query's with its escaping (`QueryIsBelow`) and the subtree of whole segments
  (`SubtreeIsBelow`). That trimming leaves a name without blanks and slashes at its ends
  as it is, at every call, is `TrimKeeps` and `PlainStays`. `ScopeInv`: the folder is below
  none of the paths the loop has tried.
* `SettingsStayKept`. An edit keeps the other fields because the copy it merges into is
  the row as it is, unless another edit overtook it (`CopiesAreFresh`); the seed cannot
  undo an edit because it is written only where no row is and before the first request
  (`SeedsFirst`); `ColumnsHold` carries what was set through both.

### Posting: DeliveryProofs

* `ChannelsAreTold`. That notices are neither too many nor too few is one invariant,
  `NoticeInv`: the time the bot remembers for a channel is that of its last notice
  (`LastIsRemembered`), so a claim that is refused had one shortly before it.
* `OverBudgetPostsAreSalvaged`. `SalvageInv`: the prefixes a delivery would have tried
  before the one it is about to try have all been turned down. It is kept by a halving
  because the halves of a number form a chain (`HalvesChain`): none lies between a
  length and its half.
* `SamplesServe`. `SampleInv`, at the top of `fitToLimit`'s loop: the cover is in front
  if it fits, and a file that fits, if there is one, is in the selection or still to
  come. An eviction keeps that because it takes the heaviest (`HeaviestIs`): if that
  one fits, so do the rest, and over the budget there is a rest (`EvictServes`).
* `ChunksTileTheAlbum`. `PackInv`: the chunks that would be returned if no file followed
  (`Filled`) hold exactly the files seen so far that fit, in turn, each chunk within both
  limits and with no room for the file the next begins with (`Keeps`). The weight of a
  chunk with one more file is its weight and that file's (`WeightOfOneMore`): a sum over
  positions is the same in whatever order the fold takes them.
* `CaptionsAreSaidOnce`, `MatchesAreHeard`. `NotifyInv`: where the two loops are
  (`LoopInBounds`), that `posted` remembers whether the rule at hand has a message and
  no later rule has one (`MessagesInTurn`), and which rules have been tried
  (`HeardSoFar`).
* `PagesTileTheAlbum`, `PagesAlwaysLeadOn`. `PageInv` joins the goroutines' locals, the
  buttons and the thread. While images are only appended the list grows at its end
  (`OrderGrows`), so a page cut earlier is still a piece of it, and all before it has
  been said (`Walks`). Somebody or something leads on: a goroutine that will post, a
  button, or nothing since all was said (`WayOn`), which holds after double presses too.
  Without them there is one such goroutine or button, and the thread reads like the
  list up to where it stands (`OneWay`).

### Records and links: ConsoleProofs

* `RunLogIsTrue`, `JobsAreTraced`. `LogInv`: a row of the log says what its run's history
  says, while it lasts (`RowsAgree`), the manager's list is the tail of all jobs
  (`RecentIsTail`), and a job has no run before it is recorded and one after it, unless
  the insert failed (`RunsOfJobs`).
* `LinksWork`. `LinkInv`: a row names files the image has had (`RowsNamed`), what is
  cached expires within `TTL` of an answer that took at most `Timeout` (`CacheExpires`),
  and every call under way works on a file of its image (`CallersServed`).
* `AuditIsTrue`. `AuditInv`: an entry still to come says what the row holds
  (`PendingIsTrue`), and so does the last entry of a row with none to come
  (`LogIsTrue`), unless requests raced or an entry was lost, which the history
  variables `overlapped` and `lost` remember.

### Names and types: MCBotProofs

* `NamesAreOrdered`. The loop of `naturalCompare` knows two positions, a key is put
  together of pieces. `CompareInv` is the bridge: while nothing is decided the keys of
  what has been read are alike (`KeyOf`), and neither position is inside a run of digits
  (`Between`). So the next pieces decide (`PiecesDecide`, `KeysOrder`): of two bytes by
  their difference, of a byte and a run because a run's piece begins with a digit, of two
  runs because length, digits and zeros lie in the piece in the order `compareDigitRuns`
  looks at them (`LayoutsDiffer`, `RunsDecide`). `ZerosAreStripped` and `RunEndIs` say
  that key and loop find the same run.
* `KeysAreOrdered`. The order the answers agree with is a strict total one, for keys of
  any length: of two that differ, the first place where they do decides (`PrecedesIs`).
  With `NamesAreOrdered`, what a sort asks of `naturalCompare` never contradicts itself.
* `BotTypes`. `BotInv` is the conjunction, over the parts of `MCBot`, of the part's
  inductive invariant while it runs; `OwnSteps` says that a step of the bot is one of the
  part that runs or none. Most types were already part of an invariant above. Those of
  the packing were not: that a selection names no file twice needs that nothing in it is
  still waiting (`Apart`, `Dealt`), through shuffles, evictions and refills. Nor were those
  of the dashboard's tables: an image names an album there is (`Placed`) because deleting
  one takes its images along, and no id precedes its sequence (`IdsStay`).

### How far the prover goes

Some operators of the models are recursive functions or folds (`Halves`, the bytes of a
sequence, the first of the heaviest files, the n-th image by id). What the proofs need of
them is proved: `HalvesAre` and `BytesOfOne` unfold a definition, `NatLeast` gives the
least element of a set of naturals, and an argument by a least counterexample does the
rest (`HalvesChain`, `FirstLargest`, for the sums of a fold over a set `SumsExist` and
`SumInAnyOrder`, and for keys, which a recursive function of the library concatenates,
`FlatteningExists`, `FlatteningIs` and `KeyIsBuilt`).

Only model-checked is what holds under fairness, which is out of the prover's reach:
`EventuallyMirrors`, `EditsReachTheChannel`, `OldRowsFallSilent`, `CloseStopsEverything`,
`EveryAlbumGetsItsTurn`, `CallsEnd`, `LoneCallerRecovers`.

## 7. Not modelled

* Layout and wording of messages and pages, the text of SQL, HTTP routing, the serving
  of local files, migrations, logging and configuration parsing: no property here
  depends on them.
* Plain reads (listings, statistics, previews of the dashboard, the read-only slash
  commands) and the prefix commands, which call what the slash commands call.
* Schedule specifications: `schedulespec` parses intervals and cron lines with a
  library and asks it for the next time. `ScheduleManager` lets a timer fire at any
  moment, so what it shows holds for every specification.
* How a boost tier becomes a budget, and the downloads themselves: the budget of
  `FilePacking` and the limit of `Delivery` are any numbers, and a file that fails to
  download is not in the pool.
* Pagination of the run log and the size limits of ingested details.

Wall-clock time appears only as timers that may fire, stamps that differ, and the
bounded clocks of `Delivery`, `JobLog` and `Links`.
