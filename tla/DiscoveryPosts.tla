---------------------------- MODULE DiscoveryPosts -----------------------------
(***************************************************************************)
(* Announcing what a sync found (internal/controller/discord/scheduler.go):*)
(* notifySyncEvents takes the report's events to every rule that listens,  *)
(* and each rule's channel gets an album's discovery in up to three        *)
(* messages, of which exactly one carries the caption.  The rules are read *)
(* anew for each event, while an operator may edit them.                   *)
(*                                                                         *)
(* Abstractions: a rule's scope is the set of album paths in it, of which  *)
(* PathScope says more; which files fit a message is FilePacking's part; a *)
(* message is its event, its rule and whether it carries the caption.      *)
(***************************************************************************)
EXTENDS Naturals, FiniteSets, SequencesExt

CONSTANTS Reports,    \* sequences of events [trigger, path, files, links]
          Rules,      \* ids of event rules
          Triggers,   \* what a rule may listen to
          Paths,      \* album paths
          EventCap,   \* maxSyncNotifyMessages
          MaxToggles  \* bound: edits of the rules while a report is announced

NoTrigger == "none"   \* SyncEventTriggerType of a rename or a removal

\* What is assumed of the constants.
ASSUME NotifyAssumption ==
  /\ Rules \subseteq Nat /\ NoTrigger \notin Triggers /\ EventCap \in Nat
  /\ \A r \in Reports : r \in Seq([trigger : Triggers \cup {NoTrigger}, path : Paths,
                                   files : BOOLEAN, links : BOOLEAN])

VARIABLES
  report,    \* the report's events,
  initial,   \* and whether it is a first import
  table,     \* delivery_rules: [trigger, scope, enabled] of each id
  event,     \* the event announced now, or the number of events and one
  queue,     \* the rules it still goes to
  stage,     \* of postDiscoveredMedia for the first of them
  posted,    \* its local of that name
  channel,   \* history: the messages on Discord, in order
  tried,     \* history: <<event, rule>> pairs brought to an end
  unlisted,  \* history: events whose rules could not be listed
  touched    \* history: rules edited meanwhile

notifying == <<report, initial, table, event, queue, stage, posted, channel, tried, unlisted,
               touched>>

RuleRow == [trigger : Triggers, scope : SUBSET Paths \ {{}}, enabled : BOOLEAN]

NotifyInit ==
  /\ report \in Reports /\ initial \in BOOLEAN
  /\ table \in [Rules -> RuleRow]
  /\ event = 1 /\ queue = {} /\ stage = "list" /\ posted = FALSE
  /\ channel = <<>> /\ tried = {} /\ unlisted = {} /\ touched = {}

-----------------------------------------------------------------------------
\* Nothing is sent for a first import, nor from the cap on.
Over == initial \/ event > Len(report) \/ event > EventCap

\* Where a failed listing leaves the loop; the faulty variant ends it there.
LeavesLoop == Len(report) + 1
NextEvent  == event + 1

\* ListActiveByTrigger, which lists by id: the first of those that are left is the least.
Listening(trigger) == {r \in Rules : table[r].enabled /\ table[r].trigger = trigger}
First == Min(queue)

ListRules ==
  /\ stage = "list" /\ ~Over
  /\ LET trigger == report[event].trigger
     IN  \/ /\ trigger = NoTrigger
            /\ event' = event + 1 /\ UNCHANGED <<queue, stage, unlisted>>
         \/ /\ trigger # NoTrigger
            /\ queue' = Listening(trigger) /\ stage' = "rule" /\ UNCHANGED <<event, unlisted>>
         \/ /\ trigger # NoTrigger                                    \* the query fails
            /\ unlisted' = unlisted \cup {event} /\ event' = NextEvent /\ UNCHANGED <<queue, stage>>
  /\ UNCHANGED <<report, initial, table, posted, channel, tried, touched>>

\* The next of the rules just read, enabled still or not; one whose scope the album is
\* outside of skips it.
NextRule ==
  /\ stage = "rule"
  /\ \/ queue = {} /\ event' = event + 1 /\ stage' = "list" /\ UNCHANGED <<queue, posted>>
     \/ /\ queue # {} /\ report[event].path \notin table[First].scope
        /\ queue' = queue \ {First} /\ UNCHANGED <<event, stage, posted>>
     \/ /\ queue # {} /\ report[event].path \in table[First].scope
        /\ stage' = "attach" /\ posted' = FALSE /\ UNCHANGED <<event, queue>>
  /\ UNCHANGED <<report, initial, table, channel, tried, unlisted, touched>>

\* A message reaches the channel, or does not.
Arrives(caption) ==
  /\ channel' = Append(channel, [event |-> event, rule |-> First, caption |-> caption])
  /\ posted' = TRUE
Fails == UNCHANGED <<channel, posted>>

\* What the event holds of files that may be uploaded, and of ones too large to be.
Attachable(e) == report[e].files
LinkOnly(e)   == report[e].links

\* Everything that can be attached, in one message with the caption; a failed download
\* and a selection that is empty send nothing.
Attach ==
  /\ stage = "attach" /\ stage' = "link"
  /\ (Attachable(event) /\ Arrives(TRUE)) \/ Fails
  /\ UNCHANGED <<report, initial, table, event, queue, tried, unlisted, touched>>

\* Whether the links carry the caption; the faulty variant always adds it.
AlwaysCaption == TRUE
LinkCaption   == ~posted

\* Links to what is too large, if one resolves.
Link ==
  /\ stage = "link" /\ stage' = "text"
  /\ (LinkOnly(event) /\ Arrives(LinkCaption)) \/ Fails
  /\ UNCHANGED <<report, initial, table, event, queue, tried, unlisted, touched>>

\* Nothing arrived: the caption alone.
Text ==
  /\ stage = "text" /\ stage' = "rule"
  /\ (~posted /\ Arrives(TRUE)) \/ Fails
  /\ tried' = tried \cup {<<event, First>>} /\ queue' = queue \ {First}
  /\ UNCHANGED <<report, initial, table, event, unlisted, touched>>

\* An operator enables or disables a rule.
Toggle(r) ==
  /\ Cardinality(touched) < MaxToggles /\ touched' = touched \cup {r}
  /\ table' = [table EXCEPT ![r].enabled = ~@]
  /\ UNCHANGED <<report, initial, event, queue, stage, posted, channel, tried, unlisted>>

NotifyNext == ListRules \/ NextRule \/ Attach \/ Link \/ Text \/ \E r \in Rules : Toggle(r)

NotifySpec == NotifyInit /\ [][NotifyNext]_notifying

-----------------------------------------------------------------------------
(* Properties                                                              *)

NotifyTypeOK ==
  /\ report \in Reports /\ initial \in BOOLEAN /\ table \in [Rules -> RuleRow]
  /\ event \in 1 .. Len(report) + 1 /\ queue \subseteq Rules
  /\ stage \in {"list", "rule", "attach", "link", "text"} /\ posted \in BOOLEAN
  /\ tried \subseteq (1 .. Len(report)) \X Rules /\ unlisted \subseteq 1 .. Len(report)

(***************************************************************************)
(* Whichever of its messages fail, a discovery is captioned once per rule: *)
(* the first of its messages to arrive, and no other, says what was found. *)
(***************************************************************************)
CaptionIsSaidOnce ==
  \A i \in DOMAIN channel :
    channel[i].caption <=> \A j \in 1 .. i - 1 :
                             <<channel[j].event, channel[j].rule>> # <<channel[i].event, channel[i].rule>>

(***************************************************************************)
(* Nobody misses a discovery for another's failure: once the loop is over, *)
(* each event up to the cap whose rules could be listed was brought to     *)
(* each enabled rule that listens for it and whose scope holds its album,  *)
(* and nothing at all was for a first import.                              *)
(***************************************************************************)
EveryMatchIsHeard ==
  /\ initial => channel = <<>>
  /\ (Over /\ ~initial) =>
       \A e \in (1 .. Len(report)) \ unlisted : \A r \in Rules \ touched :
         <<e, r>> \in tried <=>
           /\ e <= EventCap /\ table[r].enabled
           /\ report[e].trigger = table[r].trigger /\ report[e].path \in table[r].scope
================================================================================
