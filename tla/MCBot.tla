---------------------------------- MODULE MCBot ---------------------------------
(***************************************************************************)
(* The smaller components of the bot side by side, for one run of TLC.     *)
(* They share no state, so one of them runs at a time: part says which,    *)
(* and the others stand still in one of their initial states.              *)
(***************************************************************************)
EXTENDS ReactionFeedback, AppSettings, FilePacking, Delivery, FullAlbum, DiscoveryPosts, JobLog,
        PathScope, NaturalOrder, Links, AdminConsole, TLC

VARIABLE part

-----------------------------------------------------------------------------
(* The constants                                                           *)

Upto(n, S) == UNION {[1 .. k -> S] : k \in 0 .. n}

FourMessages == 1 .. 4

\* Albums of up to four files; with a budget of 3, a file of size 4 is over it.
AlbumSizes == Upto(4, {1, 2, 4}) \ {<<>>}

\* Four files that weigh alike, and two that do not.
BatchesSent == {<<1, 1, 1, 1>>, <<3, 1>>}

\* Two discoveries of one album, one of another with nothing to attach, and an event no
\* rule listens to, in reports of up to three: one more than the cap.
Found(path, files) == [trigger |-> "new_album", path |-> path, files |-> files, links |-> TRUE]
Renaming == [trigger |-> "none", path |-> "p1", files |-> FALSE, links |-> FALSE]

ReportsFound ==
  {<<>>, <<Found("p1", TRUE)>>, <<Renaming, Found("p1", TRUE)>>,
   <<Found("p2", FALSE), Found("p1", TRUE), Found("p1", TRUE)>>}

\* Paths over two letters, a capital, a wildcard and a slash; names as operators type
\* them.
Places ==
  {s \in Upto(4, {"a", "A", "_", "/"}) :
     \A n \in DOMAIN s : s[n] = "/" => n \in 2 .. Len(s) - 1 /\ s[n + 1] # "/"} \cup {<<" ", "a">>}
Entered ==
  {<<>>, <<"a">>, <<"/", "A">>, <<"_">>, <<" ", "a", "/">>, <<"a", "/", "_">>, <<"/", " ", "a">>}
FiltersEntered == [mode : {"all", "include", "exclude"}, paths : {P \in SUBSET Entered : Cardinality(P) <= 2}]

\* Names over "0", "1", "A" and "a".
ShortNames == Upto(3, {48, 49, 65, 97})

-----------------------------------------------------------------------------
(* The composition                                                         *)

Parts == {"reactions", "settings", "packing", "posting", "paging", "notifying", "logging",
          "scoping", "comparing", "linking", "console"}

NoRule == [trigger |-> "new_album", scope |-> Paths, enabled |-> FALSE]

\* Where the others stand, as far as a component has more than one initial state.
AtRest ==
  /\ part = "settings"  \/ env = [interval |-> Blank, key |-> Blank]
  /\ part = "packing"   \/ (pool = <<1>> /\ covered = FALSE /\ limit = 1 /\ step = "pack")
  /\ part = "posting"   \/ accepts = [c \in Channels |-> 2]
  /\ part = "paging"    \/ live = {}
  /\ part = "notifying" \/ (report = <<>> /\ initial = TRUE /\ table = [r \in Rules |-> NoRule])
  /\ part = "scoping"   \/ (filter = All /\ folder = <<>>)
  /\ part = "comparing" \/ (a = <<>> /\ b = <<>>)
  /\ part = "linking"   \/ imageRow = [x \in Images |-> [file |-> "f1", public |-> NoLink]]

BotInit ==
  /\ part \in Parts /\ AtRest
  /\ Init /\ LoggingInit /\ ConsoleInit
  /\ SettingsInit /\ ScopingInit /\ PackingInit /\ PostingInit /\ PagingInit /\ NotifyInit
  /\ ComparingInit /\ LinkingInit

\* A step of component p, in which the others stand still.
Alone(p) ==
  /\ part = p /\ UNCHANGED part
  /\ IF p = "reactions" THEN TRUE ELSE UNCHANGED vars
  /\ IF p = "settings"  THEN TRUE ELSE UNCHANGED settings
  /\ IF p = "packing"   THEN TRUE ELSE UNCHANGED packing
  /\ IF p = "posting"   THEN TRUE ELSE UNCHANGED posting
  /\ IF p = "paging"    THEN TRUE ELSE UNCHANGED paging
  /\ IF p = "notifying" THEN TRUE ELSE UNCHANGED notifying
  /\ IF p = "logging"   THEN TRUE ELSE UNCHANGED jobLog
  /\ IF p = "scoping"   THEN TRUE ELSE UNCHANGED scoping
  /\ IF p = "comparing" THEN TRUE ELSE UNCHANGED comparing
  /\ IF p = "linking"   THEN TRUE ELSE UNCHANGED linking
  /\ IF p = "console"   THEN TRUE ELSE UNCHANGED console

ReactionStep  == Alone("reactions") /\ Next
SettingsStep  == Alone("settings") /\ SettingsNext
PackingStep   == Alone("packing") /\ PackingNext
PostingStep   == Alone("posting") /\ PostingNext
PagingStep    == Alone("paging") /\ PagingNext
NotifyingStep == Alone("notifying") /\ NotifyNext
LoggingStep   == Alone("logging") /\ LoggingNext
ScopingStep   == Alone("scoping") /\ ScopingNext
ComparingStep == Alone("comparing") /\ ComparingNext
LinkingStep   == Alone("linking") /\ LinkingNext
ConsoleStep   == Alone("console") /\ ConsoleNext

BotNext ==
  \/ ReactionStep \/ SettingsStep \/ PackingStep \/ PostingStep \/ PagingStep \/ NotifyingStep
  \/ LoggingStep \/ ScopingStep \/ ComparingStep \/ LinkingStep \/ ConsoleStep

botVars == <<part, vars, settings, packing, posting, paging, notifying, jobLog, scoping, comparing,
             linking, console>>

BotSpec == BotInit /\ [][BotNext]_botVars

-----------------------------------------------------------------------------
\* Every variable of the running component has its type.
BotTypeOK ==
  /\ part = "reactions" => TypeOK
  /\ part = "settings"  => SettingsTypeOK
  /\ part = "packing"   => PackingTypeOK
  /\ part = "posting"   => PostingTypeOK
  /\ part = "paging"    => PagingTypeOK
  /\ part = "notifying" => NotifyTypeOK
  /\ part = "logging"   => LoggingTypeOK
  /\ part = "scoping"   => ScopingTypeOK
  /\ part = "comparing" => ComparingTypeOK
  /\ part = "linking"   => LinkingTypeOK
  /\ part = "console"   => ConsoleTypeOK
================================================================================
