------------------------------ MODULE AppSettings ------------------------------
(***************************************************************************)
(* The settings row (internal/usecase/appsettings and its repository): one *)
(* row holds the sync interval, the message style and the ingest key, each *)
(* with a fallback while it is blank.  An edit of one field reads the row, *)
(* merges and writes the whole of it back, with no lock between, and the   *)
(* environment seeds the row at the first boot that reaches the database.  *)
(*                                                                         *)
(* Abstractions: a value is a model value; validation of an interval lets  *)
(* the Intervals through and nothing else.                                 *)
(***************************************************************************)
EXTENDS Naturals

CONSTANTS Editors,    \* requests of the dashboard
          Intervals, Styles, Keys,
          Blank,      \* an empty column, header or environment variable
          MaxEdits,   \* bound: edits begun
          MaxFailures \* bound: failing queries, and restarts

ASSUME SettingsAssumption ==
  /\ Blank \notin Intervals \cup Styles \cup Keys
  /\ Intervals # {} /\ MaxEdits \in Nat /\ MaxFailures \in Nat

VARIABLES
  env,       \* PCLOUD_SYNC_INTERVAL and INGEST_API_KEY of the running process
  row,       \* app_settings, and whether the row exists
  boot,      \* whether EnsureSeeded is to "read", to "write", or is "done"
  editor,    \* each request's locals
  given,     \* history: what the last edit of each field asked for, or Unset
  raced,     \* history: an edit wrote over another it had not read
  edits, failures

settings == <<env, row, boot, editor, given, raced, edits, failures>>

Unset    == "unset"
Bare     == [interval |-> Blank, style |-> Blank, key |-> Blank]
Idle     == [pc |-> "idle", field |-> "key", value |-> Blank, copy |-> Bare, stale |-> FALSE]
Setting  == [interval : Intervals \cup {Blank}, style : Styles \cup {Blank}, key : Keys \cup {Blank}]
Env      == [interval : Intervals \cup {Blank}, key : Keys \cup {Blank}]
ValuesOf(field) == IF field = "interval" THEN Intervals
                 ELSE IF field = "style" THEN Styles \cup {Blank} ELSE Keys \cup {Blank}
Fields   == {"interval", "style", "key"}

Or(value, default) == IF value = Blank THEN default ELSE value

\* Get: the row, with the fallback of the interval, though not of the key.
Get == [row.columns EXCEPT !.interval = Or(@, env.interval)]
\* What is in force.
GetSyncInterval == Or(row.columns.interval, env.interval)
GetIngestAPIKey == Or(row.columns.key, env.key)

\* IngestAPIKey's answer to a request for which it resolves a key.
Admits(header) == GetIngestAPIKey # Blank /\ header = GetIngestAPIKey

SettingsInit ==
  /\ env \in Env /\ row = [found |-> FALSE, columns |-> Bare] /\ boot = "read"
  /\ editor = [e \in Editors |-> Idle]
  /\ given = [f \in Fields |-> Unset] /\ raced = FALSE
  /\ edits = 0 /\ failures = 0

Failure == failures < MaxFailures /\ failures' = failures + 1

-----------------------------------------------------------------------------
\* EnsureSeeded: the read, then the write when there is no row; one that fails is
\* logged and the program goes on.
SeedRead ==
  /\ boot = "read" /\ boot' = (IF row.found THEN "done" ELSE "write")
  /\ UNCHANGED <<env, row, editor, given, raced, edits, failures>>

\* Upsert replaces every column.
Upsert(columns) == row' = [found |-> TRUE, columns |-> columns]

SeedWrite ==
  /\ boot = "write" /\ boot' = "done"
  /\ Upsert([Bare EXCEPT !.interval = env.interval, !.key = env.key])
  /\ UNCHANGED <<env, editor, given, raced, edits, failures>>

SeedError ==
  /\ boot # "done" /\ boot' = "done" /\ Failure
  /\ UNCHANGED <<env, row, editor, given, raced, edits>>

\* SetSyncInterval, SetMessageDefaults or SetIngestAPIKey, up to its read.
Edit(e, field, value) ==
  /\ boot = "done" /\ editor[e].pc = "idle"
  /\ edits < MaxEdits /\ edits' = edits + 1
  /\ editor' = [editor EXCEPT ![e] = [pc |-> "write", field |-> field, value |-> value,
                                      copy |-> Get, stale |-> FALSE]]
  /\ UNCHANGED <<env, row, boot, given, raced, failures>>

\* The settings an edit writes back: the copy with one field replaced.  The faulty
\* variant starts from nothing.
MergedBare(l) == [Bare EXCEPT ![l.field] = l.value]
Merged(l) == [l.copy EXCEPT ![l.field] = l.value]

\* Its write.
Write(e) ==
  /\ editor[e].pc = "write"
  /\ Upsert(Merged(editor[e]))
  /\ raced' = (raced \/ editor[e].stale)
  /\ given' = [given EXCEPT ![editor[e].field] = editor[e].value]
  /\ editor' = [x \in Editors |-> IF x = e \/ editor[x] = Idle THEN Idle
                                           ELSE [editor[x] EXCEPT !.stale = TRUE]]
  /\ UNCHANGED <<env, boot, edits, failures>>

\* The read or the write fails: an error, and nothing stored.
EditError(e) ==
  /\ editor[e].pc = "write" /\ Failure
  /\ editor' = [editor EXCEPT ![e] = Idle]
  /\ UNCHANGED <<env, row, boot, given, raced, edits>>

\* A restart, perhaps with another environment.
Reboot ==
  /\ Failure /\ env' \in Env /\ boot' = "read"
  /\ editor' = [e \in Editors |-> Idle]
  /\ UNCHANGED <<row, given, raced, edits>>

SettingsNext ==
  \/ SeedRead \/ SeedWrite \/ SeedError \/ Reboot
  \/ \E e \in Editors :
       Write(e) \/ EditError(e) \/ \E f \in Fields : \E v \in ValuesOf(f) : Edit(e, f, v)

SettingsSpec == SettingsInit /\ [][SettingsNext]_settings

-----------------------------------------------------------------------------
(* Properties                                                              *)

EditorState == [pc : {"idle", "write"}, field : Fields,
                value : Intervals \cup Styles \cup Keys \cup {Blank}, copy : Setting, stale : BOOLEAN]

SettingsTypeOK ==
  /\ env \in Env /\ row \in [found : BOOLEAN, columns : Setting]
  /\ boot \in {"read", "write", "done"} /\ editor \in [Editors -> EditorState]
  /\ \A e \in Editors : editor[e].value \in ValuesOf(editor[e].field)
  /\ DOMAIN given = Fields /\ \A f \in Fields : given[f] \in ValuesOf(f) \cup {Unset}
  /\ raced \in BOOLEAN /\ edits \in 0 .. MaxEdits /\ failures \in 0 .. MaxFailures

(***************************************************************************)
(* What an operator sets stays set, through edits of the other fields,     *)
(* failing queries, restarts, changes of the environment and the seed,     *)
(* unless two edits overlapped; and a key that was cleared is the          *)
(* environment's again, which locks a client out only if that has none.    *)
(***************************************************************************)
SettingsAreKept ==
  ~raced =>
    /\ given["interval"] # Unset => GetSyncInterval = given["interval"]
    /\ given["style"] # Unset => row.columns.style = given["style"]
    /\ given["key"] # Unset =>
         \A header \in Keys : Admits(header) <=> header = Or(given["key"], env.key)
================================================================================
