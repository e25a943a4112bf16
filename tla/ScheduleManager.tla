---------------------------- MODULE ScheduleManager ----------------------------
(***************************************************************************)
(* Scheduled delivery rules and the goroutines that serve them             *)
(* (internal/controller/discord/scheduler.go): every 30 seconds the        *)
(* schedule manager lists the active scheduled rules and reconciles the    *)
(* goroutines it runs, one per rule, with them.  A goroutine captures its  *)
(* rule's row by value; an edit reaches the channel only because the       *)
(* manager replaces the goroutine.                                         *)
(*                                                                         *)
(* The rows are edited by the dashboard and the chat commands at any time, *)
(* also between the manager's query and its use of the result.  A send     *)
(* runs to its end even when its goroutine is cancelled meanwhile; what a  *)
(* send does is in ScheduledSend.                                          *)
(*                                                                         *)
(* Abstractions: of a row's columns, route stands for send_interval,       *)
(* history_size and channel_id, look for the name, the styling and the     *)
(* album filter; active is "enabled, and triggered by schedule".           *)
(* updated_at is only compared for equality: a stamp is the number of the  *)
(* edit that set it.                                                       *)
(***************************************************************************)
EXTENDS Naturals

CONSTANTS Routes,      \* intervals with a history size and a channel
          Never,       \* of them, those that do not parse or never fire
          Looks,       \* the columns the manager has no use for
          None,        \* nothing sent yet
          MaxRules,    \* bound: rules ever created
          MaxEdits,    \* bound: edits of the table
          MaxFaults    \* bound: failing queries of the manager

ASSUME ScheduleAssumption ==
  /\ Never \subseteq Routes
  /\ MaxRules \in Nat /\ MaxEdits \in Nat /\ MaxFaults \in Nat

VARIABLES
  rules,     \* delivery_rules: a function from the ids of its rows
  nextRule,  \* its id sequence
  mgr,       \* where runScheduleManager is
  listed,    \* the active rows its last query returned
  todo,      \* the rules of them its loop has not met yet
  running,   \* its map from rule ids to handles
  gor,       \* the rule goroutines started so far, numbered from 1
  started,   \* how many they are
  closed,    \* the bot's stopCh is closed
  lastSent,  \* per rule, the row its latest send was made with
  edits, faults

table   == <<rules, nextRule>>
manager == <<mgr, listed, todo, running>>
bounds  == <<edits, faults>>
vars    == <<rules, nextRule, mgr, listed, todo, running, gor, started, closed, lastSent,
             edits, faults>>

RuleIds == 1 .. MaxRules
Row     == [active: BOOLEAN, route: Routes, look: Looks, stamp: 0 .. MaxEdits]
MgrPCs  == {"list", "apply", "wait", "stopped"}
GorPCs  == {"wait", "send", "exited"}

\* A goroutine's rule, captured with it, and whether its context is cancelled.
Goroutine == [rule: RuleIds, row: Row, pc: GorPCs, cancelled: BOOLEAN]

\* scheduledHandle: the goroutine its cancel function belongs to.
Handle == [gor: Nat, sig: 0 .. MaxEdits]

Active(t)  == {r \in DOMAIN t : t[r].active}
Live(g)    == gor[g].pc # "exited"
Serving(g) == Live(g) /\ ~gor[g].cancelled

-----------------------------------------------------------------------------
\* EnsureSeeded has created at most one scheduled rule, from the environment.
Init ==
  /\ nextRule \in {1, 2} \cap 1 .. (MaxRules + 1)
  /\ rules \in [1 .. (nextRule - 1) -> [active: {TRUE}, route: Routes, look: Looks, stamp: {0}]]
  /\ mgr = "list" /\ listed = [r \in {} |-> None] /\ todo = {}
  /\ running = [r \in {} |-> None]
  /\ gor = [g \in {} |-> None] /\ started = 0
  /\ closed = FALSE
  /\ lastSent = [r \in RuleIds |-> None]
  /\ edits = 0 /\ faults = 0

(***************************************************************************)
(* The rules table.  Every UPDATE rewrites all the columns and stamps      *)
(* updated_at.                                                             *)
(***************************************************************************)
Edited == edits < MaxEdits /\ edits' = edits + 1

\* The row an UPDATE leaves; the faulty variant leaves updated_at alone.
UpdatedUnstamped(old, a, p, k) == [active |-> a, route |-> p, look |-> k, stamp |-> old.stamp]
Updated(old, a, p, k) == [active |-> a, route |-> p, look |-> k, stamp |-> edits + 1]

Create(a, p, k) ==
  /\ Edited /\ nextRule \in RuleIds
  /\ rules' = [r \in DOMAIN rules \cup {nextRule} |->
                IF r = nextRule THEN [active |-> a, route |-> p, look |-> k, stamp |-> edits + 1]
                                ELSE rules[r]]
  /\ nextRule' = nextRule + 1
  /\ UNCHANGED <<manager, gor, started, closed, lastSent, faults>>

Update(r, a, p, k) ==
  /\ Edited
  /\ rules' = [rules EXCEPT ![r] = Updated(@, a, p, k)]
  /\ UNCHANGED <<nextRule, manager, gor, started, closed, lastSent, faults>>

Delete(r) ==
  /\ Edited
  /\ rules' = [q \in DOMAIN rules \ {r} |-> rules[q]]
  /\ UNCHANGED <<nextRule, manager, gor, started, closed, lastSent, faults>>

Edit ==
  \/ \E a \in BOOLEAN, p \in Routes, k \in Looks :
       Create(a, p, k) \/ \E r \in DOMAIN rules : Update(r, a, p, k)
  \/ \E r \in DOMAIN rules : Delete(r)

(***************************************************************************)
(* The manager.                                                            *)
(***************************************************************************)
\* reconcileScheduledRules, its query.
List ==
  /\ mgr = "list"
  /\ listed' = [r \in Active(rules) |-> rules[r]]
  /\ todo' = Active(rules)
  /\ mgr' = "apply"
  /\ UNCHANGED <<table, running, gor, started, closed, lastSent, bounds>>

\* An error of the query leaves everything running as it is.
ListError ==
  /\ mgr = "list" /\ faults < MaxFaults
  /\ faults' = faults + 1
  /\ mgr' = "wait"
  /\ UNCHANGED <<table, listed, todo, running, gor, started, closed, lastSent, edits>>

Cancel(G) == [g \in DOMAIN gor |-> IF g \in G THEN [gor[g] EXCEPT !.cancelled = TRUE]
                                              ELSE gor[g]]

\* The handle of a listed rule that the loop has to cancel first.
Overwritten(r) == {}   \* faulty: the old handle is overwritten, not cancelled
StaleHandle(r) == IF r \in DOMAIN running THEN {running[r].gor} ELSE {}

NeverUnchanged(r) == FALSE   \* faulty: restarts every rule at every tick
Unchanged(r) == r \in DOMAIN running /\ running[r].sig = listed[r].stamp

\* runScheduledRule up to its select: Parse once, Next at every turn.
Armed(row) == IF row.route \in Never THEN "exited" ELSE "wait"

\* One turn of the loop over the listed rules.
Reconcile(r) ==
  /\ mgr = "apply" /\ r \in todo
  /\ todo' = todo \ {r}
  /\ IF Unchanged(r) THEN UNCHANGED <<running, gor, started>>
     ELSE /\ gor' = [g \in DOMAIN gor \cup {started + 1} |->
                      IF g = started + 1
                      THEN [rule |-> r, row |-> listed[r], pc |-> Armed(listed[r]),
                            cancelled |-> FALSE]
                      ELSE Cancel(StaleHandle(r))[g]]
          /\ started' = started + 1
          /\ running' = [q \in DOMAIN running \cup {r} |->
                          IF q = r THEN [gor |-> started + 1, sig |-> listed[r].stamp]
                                   ELSE running[q]]
  /\ UNCHANGED <<table, mgr, listed, closed, lastSent, bounds>>

\* The loop over the handles: those whose rule is not listed any more.
Sweep ==
  /\ mgr = "apply" /\ todo = {}
  /\ gor' = Cancel({running[r].gor : r \in DOMAIN running \ DOMAIN listed})
  /\ running' = [r \in DOMAIN running \cap DOMAIN listed |-> running[r]]
  /\ mgr' = "wait"
  /\ UNCHANGED <<table, listed, todo, started, closed, lastSent, bounds>>

\* The ticker fires; select may prefer it to a closed stopCh.
Tick ==
  /\ mgr = "wait"
  /\ mgr' = "list"
  /\ UNCHANGED <<table, listed, todo, running, gor, started, closed, lastSent, bounds>>

\* runScheduleManager returns: stopAll.  The faulty variant waits for its rules to go.
StopWhenIdle ==
  /\ mgr = "wait" /\ closed /\ DOMAIN running = {}
  /\ mgr' = "stopped"
  /\ UNCHANGED <<table, listed, todo, running, gor, started, closed, lastSent, bounds>>
Stop ==
  /\ mgr = "wait" /\ closed
  /\ mgr' = "stopped"
  /\ gor' = Cancel({running[r].gor : r \in DOMAIN running})
  /\ UNCHANGED <<table, listed, todo, running, started, closed, lastSent, bounds>>

(***************************************************************************)
(* The goroutine of a rule.                                                *)
(***************************************************************************)
Goes(g, pc) == gor' = [gor EXCEPT ![g].pc = pc]

\* The timer has fired.  With several channels ready select takes any of them, so
\* a cancelled goroutine, and one of a closed bot, may get here.
Fire(g) ==
  /\ gor[g].pc = "wait"
  /\ Goes(g, "send")
  /\ UNCHANGED <<table, manager, started, closed, lastSent, bounds>>

\* doScheduledSend returns: sent or not, the loop goes on.
Sent(g) ==
  /\ gor[g].pc = "send"
  /\ Goes(g, Armed(gor[g].row))
  /\ lastSent' = [lastSent EXCEPT ![gor[g].rule] = gor[g].row]
  /\ UNCHANGED <<table, manager, started, closed, bounds>>

\* ctx.Done or stopCh is ready.
Quit(g) ==
  /\ gor[g].pc = "wait" /\ (gor[g].cancelled \/ closed)
  /\ Goes(g, "exited")
  /\ UNCHANGED <<table, manager, started, closed, lastSent, bounds>>

\* Bot.Close, which acts once.
Close ==
  /\ ~closed /\ closed' = TRUE
  /\ UNCHANGED <<table, manager, gor, started, lastSent, bounds>>

\* The bot is closed and everything has returned.
AtRest == mgr = "stopped" /\ \A g \in DOMAIN gor : ~Live(g)
Rest   == AtRest /\ UNCHANGED vars

ManagerStep ==
  \/ List \/ Sweep
  \/ \E r \in RuleIds : Reconcile(r)

Next ==
  \/ Edit
  \/ ManagerStep \/ ListError \/ Tick \/ Stop
  \/ \E g \in DOMAIN gor : Fire(g) \/ Sent(g) \/ Quit(g)
  \/ Close
  \/ Rest

Spec == Init /\ [][Next]_vars

(***************************************************************************)
(* The goroutines keep running, the ticker keeps ticking, every timer      *)
(* fires.  select picks among its ready cases at random, so the closed     *)
(* channel is chosen in the end although the timer may win again and       *)
(* again: strong fairness for Stop and Quit.  Nobody need edit or close.   *)
(***************************************************************************)
Fairness ==
  /\ WF_vars(ManagerStep)
  /\ WF_vars(Tick) /\ SF_vars(Stop)
  /\ \A g \in 1 .. (MaxRules + MaxEdits) :
       /\ WF_vars(g \in DOMAIN gor /\ (Fire(g) \/ Sent(g)))
       /\ SF_vars(g \in DOMAIN gor /\ Quit(g))

FairSpec == Spec /\ Fairness

-----------------------------------------------------------------------------
(* Properties                                                              *)

TableOK ==
  /\ nextRule \in 1 .. (MaxRules + 1)
  /\ DOMAIN rules \subseteq 1 .. (nextRule - 1)
  /\ rules \in [DOMAIN rules -> Row]
  /\ \A r \in DOMAIN rules : rules[r].stamp <= edits

ManagerOK ==
  /\ mgr \in MgrPCs
  /\ DOMAIN listed \subseteq RuleIds /\ listed \in [DOMAIN listed -> Row]
  /\ todo \subseteq DOMAIN listed
  /\ DOMAIN running \subseteq RuleIds /\ running \in [DOMAIN running -> Handle]

GoroutinesOK ==
  /\ started \in Nat /\ DOMAIN gor = 1 .. started
  /\ gor \in [1 .. started -> Goroutine]

\* Every variable has its type.
TypeOK ==
  /\ TableOK /\ ManagerOK /\ GoroutinesOK
  /\ closed \in BOOLEAN
  /\ lastSent \in [RuleIds -> Row \cup {None}]
  /\ edits \in 0 .. MaxEdits /\ faults \in 0 .. MaxFaults

(***************************************************************************)
(* At most one goroutine serves a rule, and it is the one whose cancel     *)
(* function the manager holds: whatever is edited, disabled and re-enabled *)
(* while the manager works, no rule posts twice per interval and no        *)
(* goroutine is out of the manager's reach.                                *)
(***************************************************************************)
OneSenderPerRule ==
  \A g \in DOMAIN gor : Serving(g) =>
    gor[g].rule \in DOMAIN running /\ running[gor[g].rule].gor = g

(***************************************************************************)
(* After a reconciliation the goroutines carry exactly what the manager    *)
(* last read, column for column, though it compares signatures only.       *)
(***************************************************************************)
ServesWhatWasListed ==
  mgr = "wait" =>
    /\ DOMAIN running = DOMAIN listed
    /\ \A r \in DOMAIN running : gor[running[r].gor].row = listed[r]

\* A handle is that of a goroutine of the rule, with its signature.
HandlesOK ==
  \A r \in DOMAIN running :
    LET h == running[r]
    IN  h.gor \in DOMAIN gor /\ gor[h.gor].rule = r /\ gor[h.gor].row.stamp = h.sig

SameVersion(x, y) == x.stamp = y.stamp => x = y

\* A stamp identifies a row: the table, the manager and the goroutines have one
\* row for a rule and a stamp.
VersionsOK ==
  /\ \A g \in DOMAIN gor :
       /\ gor[g].row.stamp <= edits
       /\ gor[g].rule \in DOMAIN rules => SameVersion(gor[g].row, rules[gor[g].rule])
       /\ gor[g].rule \in DOMAIN listed => SameVersion(gor[g].row, listed[gor[g].rule])
  /\ \A r \in DOMAIN listed :
       /\ listed[r].stamp <= edits
       /\ r \in DOMAIN rules => SameVersion(listed[r], rules[r])

\* How far the manager's loop has come.
LoopOK ==
  /\ \A r \in DOMAIN listed \ todo :
       r \in DOMAIN running /\ gor[running[r].gor].row = listed[r]
  /\ mgr # "apply" => todo = {} /\ DOMAIN running = DOMAIN listed

\* The inductive invariant behind OneSenderPerRule, ServesWhatWasListed and
\* UneditedKeepRunning.
ScheduleInv == TypeOK /\ HandlesOK /\ VersionsOK /\ LoopOK /\ OneSenderPerRule

(***************************************************************************)
(* The goroutine of a rule nobody edited is left alone: restarting it      *)
(* would start its interval anew, and at every tick so that it never       *)
(* fires.                                                                  *)
(***************************************************************************)
UneditedKeepRunning ==
  [][\A g \in DOMAIN gor :
       (~gor[g].cancelled /\ gor'[g].cancelled) =>
         \/ closed
         \/ gor[g].rule \notin DOMAIN listed
         \/ listed[gor[g].rule] # gor[g].row]_vars

(***************************************************************************)
(* When the edits and the failing queries end, every active rule that can  *)
(* fire posts with its present row, and in the end with no other, however  *)
(* the edits fell between the manager's query and its loop.                *)
(***************************************************************************)
EditsReachTheChannel ==
  <>[](closed \/ \A r \in Active(rules) :
                   rules[r].route \notin Never => lastSent[r] = rules[r])

\* Then also nothing runs any more for a row that is no longer the rule's, or for a
\* rule that is disabled or deleted.
OldRowsFallSilent ==
  <>[](closed \/ \A g \in DOMAIN gor :
                   Live(g) => /\ gor[g].rule \in Active(rules)
                              /\ gor[g].row = rules[gor[g].rule])

\* A closed bot comes to rest: the manager returns, and so does every goroutine,
\* those started by a last reconciliation after Close among them.
CloseStopsEverything ==
  closed ~> AtRest
================================================================================
