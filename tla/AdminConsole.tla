------------------------------ MODULE AdminConsole ------------------------------
(***************************************************************************)
(* The dashboard's edits and their audit (restapi/v1/admin.go, usecase/    *)
(* admin and the repositories they call): each request is one statement on *)
(* a table and, when that succeeds, the insert of an audit row, with no    *)
(* transaction around the two.  Requests overlap.  Discord's schedule      *)
(* commands edit the rules too, past the audit.                            *)
(*                                                                         *)
(* Abstractions: of a row only what its audit entry tells: an album's      *)
(* name, an image's URL, a rule's channel.  A request that is refused, for *)
(* its input or by the database, changes nothing, leaves no entry and is   *)
(* left out; rows a sync or the seed makes have no entry, and are too.     *)
(***************************************************************************)
EXTENDS Naturals, SequencesExt

CONSTANTS ConsoleHandlers,  \* goroutines that serve requests
          Values,           \* names, URLs and channels
          MaxRequests, MaxAuditFailures   \* bounds: requests; failing inserts and restarts

\* What is assumed of the constants.
ASSUME ConsoleAssumption == MaxRequests \in Nat /\ MaxAuditFailures \in Nat

VARIABLES
  albums, images, rules,   \* the tables: functions from ids
  made,       \* their sequences
  request,    \* each handler's locals: the entry it is to insert, or Nothing
  log,        \* admin_audit_logs, in order of insertion
  overlapped, \* history: a row was edited before an edit of it had its entry
  commanded,  \* history: rules that a command made or removed
  asked, lost

console == <<albums, images, rules, made, request, log, overlapped, commanded, asked, lost>>

Nothing == [kind |-> "none"]
Entry(kind, op, id, value) == [kind |-> kind, op |-> op, id |-> id, value |-> value]
About(e, kind, id)         == e.kind = kind /\ e.id = id
Pending(kind, id)          == \E h \in ConsoleHandlers : About(request[h], kind, id)

ConsoleInit ==
  /\ albums = [i \in {} |-> 0] /\ images = [i \in {} |-> 0] /\ rules = [i \in {} |-> 0]
  /\ made = [album |-> 0, image |-> 0, rule |-> 0]
  /\ request = [h \in ConsoleHandlers |-> Nothing] /\ log = <<>> /\ overlapped = FALSE
  /\ commanded = {}
  /\ asked = 0 /\ lost = 0

\* Which edits are recorded; the faulty variant forgets the deletions.
NoDeletion(op) == op # "delete"
HasEntry(op) == TRUE

\* What is common to the handlers: the statement on row i has been executed, and its
\* entry is next.
Executed(h, kind, op, i, value) ==
  /\ request[h] = Nothing /\ asked < MaxRequests /\ asked' = asked + 1
  /\ request' = [request EXCEPT ![h] = IF HasEntry(op) THEN Entry(kind, op, i, value) ELSE Nothing]
  /\ overlapped' = (overlapped \/ Pending(kind, i))
  /\ UNCHANGED <<log, commanded, lost>>

With(table, i, v)  == [x \in DOMAIN table \cup {i} |-> IF x = i THEN v ELSE table[x]]
Without(table, is) == [x \in DOMAIN table \ is |-> table[x]]

\* The id of the row an INSERT makes.
NextId(kind) == made[kind] + 1
Made(kind)   == made' = [made EXCEPT ![kind] = @ + 1]

\* albums.name is unique.
Free(name, i) == \A x \in DOMAIN albums : albums[x] = name => x = i

-----------------------------------------------------------------------------
createAlbum(h, name) ==
  /\ Free(name, 0) /\ Made("album")
  /\ albums' = With(albums, NextId("album"), name)
  /\ Executed(h, "album", "create", NextId("album"), name)
  /\ UNCHANGED <<images, rules>>

updateAlbum(h, i, name) ==
  /\ i \in DOMAIN albums /\ Free(name, i)
  /\ albums' = With(albums, i, name)
  /\ Executed(h, "album", "update", i, name)
  /\ UNCHANGED <<images, rules, made>>

\* A deletion succeeds for an unknown id too.  That of an album takes its images along
\* (ON DELETE CASCADE), of which the audit says nothing.
Inside(i) == {x \in DOMAIN images : images[x].album = i}
deleteAlbum(h, i) ==
  /\ albums' = Without(albums, {i}) /\ images' = Without(images, Inside(i))
  /\ request[h] = Nothing /\ asked < MaxRequests /\ asked' = asked + 1
  /\ request' = [request EXCEPT ![h] = IF HasEntry("delete") THEN Entry("album", "delete", i, 0) ELSE @]
  /\ overlapped' = (overlapped \/ Pending("album", i) \/ \E x \in Inside(i) : Pending("image", x))
  /\ UNCHANGED <<rules, made, log, commanded, lost>>

\* An image's album is one there is, or none.
createImage(h, url, album) ==
  /\ album \in {0} \cup DOMAIN albums /\ Made("image")
  /\ images' = With(images, NextId("image"), [url |-> url, album |-> album])
  /\ Executed(h, "image", "create", NextId("image"), url)
  /\ UNCHANGED <<albums, rules>>

updateImage(h, i, url, album) ==
  /\ i \in DOMAIN images /\ album \in {0} \cup DOMAIN albums
  /\ images' = With(images, i, [url |-> url, album |-> album])
  /\ Executed(h, "image", "update", i, url)
  /\ UNCHANGED <<albums, rules, made>>

deleteImage(h, i) ==
  /\ images' = Without(images, {i})
  /\ Executed(h, "image", "delete", i, 0)
  /\ UNCHANGED <<albums, rules, made>>

createRule(h, channel) ==
  /\ Made("rule") /\ rules' = With(rules, NextId("rule"), channel)
  /\ Executed(h, "rule", "create", NextId("rule"), channel)
  /\ UNCHANGED <<albums, images>>

updateRule(h, i, channel) ==
  /\ i \in DOMAIN rules /\ rules' = With(rules, i, channel)
  /\ Executed(h, "rule", "update", i, channel)
  /\ UNCHANGED <<albums, images, made>>

deleteRule(h, i) ==
  /\ rules' = Without(rules, {i})
  /\ Executed(h, "rule", "delete", i, 0)
  /\ UNCHANGED <<albums, images, made>>

\* cmdSchedule and msgSchedule call the rules use case themselves: no entry.
Commanded(i) ==
  /\ asked < MaxRequests /\ asked' = asked + 1 /\ commanded' = commanded \cup {i}
  /\ UNCHANGED <<albums, images, request, log, overlapped, lost>>

scheduleAdd(channel) ==
  /\ Made("rule") /\ rules' = With(rules, NextId("rule"), channel) /\ Commanded(NextId("rule"))

scheduleRemove(i) == rules' = Without(rules, {i}) /\ Commanded(i) /\ UNCHANGED made

\* RecordAudit.
RecordAudit(h) ==
  /\ request[h] # Nothing
  /\ log' = Append(log, request[h]) /\ request' = [request EXCEPT ![h] = Nothing]
  /\ UNCHANGED <<albums, images, rules, made, overlapped, commanded, asked, lost>>

Lose == lost < MaxAuditFailures /\ lost' = lost + 1

\* Its insert fails, which nobody is told.
RecordAuditError(h) ==
  /\ request[h] # Nothing /\ Lose /\ request' = [request EXCEPT ![h] = Nothing]
  /\ UNCHANGED <<albums, images, rules, made, log, overlapped, commanded, asked>>

\* The program stops between the statement and the entry.
ConsoleCrash ==
  /\ \E h \in ConsoleHandlers : request[h] # Nothing
  /\ Lose /\ request' = [h \in ConsoleHandlers |-> Nothing]
  /\ UNCHANGED <<albums, images, rules, made, log, overlapped, commanded, asked>>

Ids(kind) == 1 .. made[kind]

ConsoleNext ==
  \/ \E h \in ConsoleHandlers, v \in Values :
       \/ createAlbum(h, v) \/ createRule(h, v)
       \/ \E a \in 0 .. made.album : createImage(h, v, a) \/ (\E i \in Ids("image") : updateImage(h, i, v, a))
       \/ \E i \in Ids("album") : updateAlbum(h, i, v)
       \/ \E i \in Ids("rule") : updateRule(h, i, v)
  \/ \E h \in ConsoleHandlers :
       \/ \E i \in Ids("album") : deleteAlbum(h, i)
       \/ \E i \in Ids("image") : deleteImage(h, i)
       \/ \E i \in Ids("rule") : deleteRule(h, i)
       \/ RecordAudit(h) \/ RecordAuditError(h)
  \/ (\E v \in Values : scheduleAdd(v)) \/ (\E i \in Ids("rule") : scheduleRemove(i))
  \/ ConsoleCrash

ConsoleSpec == ConsoleInit /\ [][ConsoleNext]_console

-----------------------------------------------------------------------------
(* Properties                                                              *)

ConsoleTypeOK ==
  /\ DOMAIN albums \subseteq Ids("album") /\ albums \in [DOMAIN albums -> Values]
  /\ DOMAIN images \subseteq Ids("image")
  /\ \A i \in DOMAIN images : images[i].album \in {0} \cup DOMAIN albums
  /\ DOMAIN rules \subseteq Ids("rule") /\ rules \in [DOMAIN rules -> Values]
  /\ overlapped \in BOOLEAN /\ commanded \subseteq Ids("rule")
  /\ asked \in 0 .. MaxRequests /\ lost \in 0 .. MaxAuditFailures

\* What the log says last of a row, if anything.
LastWord(kind, i) == SelectLastInSeq(log, LAMBDA e : About(e, kind, i))

(***************************************************************************)
(* The audit can be believed: unless an entry was lost or edits of one row *)
(* overlapped, the last entry about a row says whether it is there and     *)
(* what it holds; a row that is gone was deleted by name, or was an image  *)
(* of an album that was.  Rules that commands edit are outside of it.      *)
(***************************************************************************)
AuditTellsTheTruth ==
  LET Said(kind, i)  == LastWord(kind, i) # 0
      Value(kind, i) == log[LastWord(kind, i)].value
      Gone(kind, i)  == Said(kind, i) /\ log[LastWord(kind, i)].op = "delete"
      Tells(kind, i, table, held(_)) ==
        Pending(kind, i) \/
          IF i \in DOMAIN table THEN Said(kind, i) /\ ~Gone(kind, i) /\ Value(kind, i) = held(table[i])
          ELSE Gone(kind, i) \/ (kind = "image" /\ \E a \in Ids("album") : Gone("album", a) \/ Pending("album", a))
  IN  (~overlapped /\ lost = 0) =>
        /\ \A i \in Ids("album") : Tells("album", i, albums, LAMBDA v : v)
        /\ \A i \in Ids("image") : Tells("image", i, images, LAMBDA v : v.url)
        /\ \A i \in Ids("rule") \ commanded : Tells("rule", i, rules, LAMBDA v : v)
================================================================================
