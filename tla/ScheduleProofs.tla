---------------------------- MODULE ScheduleProofs -----------------------------
(***************************************************************************)
(* Proofs about ScheduleManager, for any routes, styles and bounds: its    *)
(* inductive invariant, that a rule has one sender, that the goroutines    *)
(* carry what the manager read, and that an unedited rule is left alone.   *)
(***************************************************************************)
EXTENDS ScheduleManager, TLAPS

\* The manager starts with empty maps, which satisfy every part of the invariant.
LEMMA InitInv == Init => ScheduleInv
<1> SUFFICES ASSUME Init PROVE ScheduleInv
  OBVIOUS
<1> USE ScheduleAssumption
<1>1. TableOK
  <2>1. nextRule \in 1 .. (MaxRules + 1) /\ DOMAIN rules = 1 .. (nextRule - 1)
    BY DEF Init
  <2>2. \A r \in DOMAIN rules : rules[r] \in Row /\ rules[r].stamp = 0
    <3> DEFINE Seeds == [active: {TRUE}, route: Routes, look: Looks, stamp: {0}]
    <3>1. \A r \in DOMAIN rules : rules[r] \in Seeds
      BY DEF Init
    <3>2. ASSUME NEW x \in Seeds PROVE x \in Row /\ x.stamp = 0
      <4>1. x.active \in BOOLEAN /\ x.route \in Routes /\ x.look \in Looks /\ x.stamp = 0
        OBVIOUS
      <4>2. x = [active |-> x.active, route |-> x.route, look |-> x.look, stamp |-> x.stamp]
        OBVIOUS
      <4>3. 0 \in 0 .. MaxEdits
        OBVIOUS
      <4> HIDE DEF Seeds
      <4> QED BY <4>1, <4>2, <4>3 DEF Row
    <3> QED BY <3>1, <3>2
  <2>3. rules = [r \in DOMAIN rules |-> rules[r]] /\ edits = 0
    BY DEF Init
  <2> QED BY <2>1, <2>2, <2>3 DEF TableOK
<1>2. ManagerOK
  BY DEF Init, ManagerOK, MgrPCs
<1>3. GoroutinesOK
  BY DEF Init, GoroutinesOK
<1>4. TypeOK
  <2>1. lastSent \in [RuleIds -> Row \cup {None}] /\ closed \in BOOLEAN
    BY DEF Init
  <2>2. edits \in 0 .. MaxEdits /\ faults \in 0 .. MaxFaults
    BY DEF Init
  <2> QED BY <1>1, <1>2, <1>3, <2>1, <2>2 DEF TypeOK
<1>5. HandlesOK /\ VersionsOK /\ LoopOK /\ OneSenderPerRule
  BY DEF Init, HandlesOK, VersionsOK, LoopOK, OneSenderPerRule
<1> QED BY <1>4, <1>5 DEF ScheduleInv

-----------------------------------------------------------------------------
(* The rules table                                                         *)

\* An edit of the table concerns neither the manager nor the goroutines: it is
\* enough that a row it writes is typed and carries the edit's own stamp.
LEMMA EditInv ==
  ASSUME ScheduleInv, edits < MaxEdits, edits' = edits + 1,
         UNCHANGED <<manager, gor, started, closed, lastSent, faults>>,
         TableOK',
         \A r \in DOMAIN rules' :
           rules'[r].stamp = edits + 1 \/ (r \in DOMAIN rules /\ rules'[r] = rules[r])
  PROVE  ScheduleInv'
<1> USE ScheduleAssumption
<1>1. edits \in Nat
  BY DEF ScheduleInv, TypeOK
<1>2. TypeOK'
  BY <1>1 DEF ScheduleInv, TypeOK, ManagerOK, GoroutinesOK, manager, TableOK
<1>3. HandlesOK' /\ LoopOK' /\ OneSenderPerRule'
  BY DEF ScheduleInv, HandlesOK, LoopOK, OneSenderPerRule, manager, Serving, Live
<1>4. VersionsOK'
  <2>1. \A g \in DOMAIN gor : gor[g].row.stamp \in Nat
    BY DEF ScheduleInv, TypeOK, GoroutinesOK, Goroutine, Row
  <2>2. \A r \in DOMAIN listed : listed[r].stamp \in Nat
    BY DEF ScheduleInv, TypeOK, ManagerOK, Row
  <2> QED BY <1>1, <2>1, <2>2 DEF ScheduleInv, VersionsOK, SameVersion, manager
<1> QED BY <1>2, <1>3, <1>4 DEF ScheduleInv

\* A row written by an edit is typed.
LEMMA EditedRow ==
  ASSUME ScheduleInv, Edited, NEW a \in BOOLEAN, NEW p \in Routes, NEW k \in Looks
  PROVE  [active |-> a, route |-> p, look |-> k, stamp |-> edits + 1] \in Row
BY ScheduleAssumption DEF ScheduleInv, TypeOK, Edited, Row

\* Creating a rule.
LEMMA CreateInv ==
  ASSUME ScheduleInv, NEW a \in BOOLEAN, NEW p \in Routes, NEW k \in Looks, Create(a, p, k)
  PROVE  ScheduleInv'
<1> DEFINE row == [active |-> a, route |-> p, look |-> k, stamp |-> edits + 1]
<1>1. row \in Row /\ edits \in Nat
  BY EditedRow DEF Create, ScheduleInv, TypeOK
<1>2. TableOK'
  BY <1>1, ScheduleAssumption DEF ScheduleInv, TypeOK, TableOK, Create, Edited, RuleIds, Row
<1>3. \A r \in DOMAIN rules' :
        rules'[r].stamp = edits + 1 \/ (r \in DOMAIN rules /\ rules'[r] = rules[r])
  BY DEF Create
<1> QED BY <1>2, <1>3, EditInv DEF Create, Edited

\* Updating a rule.
LEMMA UpdateInv ==
  ASSUME ScheduleInv, NEW r \in DOMAIN rules, NEW a \in BOOLEAN, NEW p \in Routes,
         NEW k \in Looks, Update(r, a, p, k)
  PROVE  ScheduleInv'
<1> DEFINE row == [active |-> a, route |-> p, look |-> k, stamp |-> edits + 1]
<1>1. row \in Row /\ edits \in Nat
  BY EditedRow DEF Update, ScheduleInv, TypeOK
<1>2. rules' = [rules EXCEPT ![r] = row]
  BY DEF Update, Updated
<1>3. TableOK'
  BY <1>1, <1>2 DEF ScheduleInv, TypeOK, TableOK, Update, Edited, Row
<1>4. \A q \in DOMAIN rules' :
        rules'[q].stamp = edits + 1 \/ (q \in DOMAIN rules /\ rules'[q] = rules[q])
  BY <1>2 DEF ScheduleInv, TypeOK, TableOK
<1> QED BY <1>3, <1>4, EditInv DEF Update, Edited

\* Deleting a rule.
LEMMA DeleteInv ==
  ASSUME ScheduleInv, NEW r \in DOMAIN rules, Delete(r)
  PROVE  ScheduleInv'
<1>1. TableOK'
  BY DEF ScheduleInv, TypeOK, TableOK, Delete, Edited, Row
<1>2. \A q \in DOMAIN rules' : q \in DOMAIN rules /\ rules'[q] = rules[q]
  BY DEF Delete
<1> QED BY <1>1, <1>2, EditInv DEF Delete, Edited

-----------------------------------------------------------------------------
(* The manager                                                             *)

\* The query: what is listed has the versions of the table.
LEMMA ListInv ==
  ASSUME ScheduleInv, List
  PROVE  ScheduleInv'
<1>1. Active(rules) \subseteq DOMAIN rules /\ Active(rules) \subseteq RuleIds
  BY ScheduleAssumption DEF ScheduleInv, TypeOK, TableOK, Active, RuleIds
<1>2. TypeOK'
  BY <1>1 DEF ScheduleInv, TypeOK, TableOK, ManagerOK, GoroutinesOK, List, table, bounds, MgrPCs
<1>3. HandlesOK' /\ LoopOK' /\ OneSenderPerRule'
  BY DEF ScheduleInv, HandlesOK, LoopOK, OneSenderPerRule, List, Serving, Live
<1>4. VersionsOK'
  BY <1>1 DEF ScheduleInv, TypeOK, TableOK, VersionsOK, SameVersion, List, table, bounds
<1> QED BY <1>2, <1>3, <1>4 DEF ScheduleInv

\* A step that moves only the manager on, from or to its loop's end.
LEMMA MovesOnInv ==
  ASSUME ScheduleInv, mgr' \in MgrPCs, mgr # "apply",
         faults' \in 0 .. MaxFaults,
         UNCHANGED <<table, listed, todo, running, gor, started, closed, lastSent, edits>>
  PROVE  ScheduleInv'
<1>1. TypeOK'
  BY DEF ScheduleInv, TypeOK, TableOK, ManagerOK, GoroutinesOK, table
<1>2. HandlesOK' /\ VersionsOK' /\ LoopOK' /\ OneSenderPerRule'
  BY DEF ScheduleInv, HandlesOK, VersionsOK, LoopOK, OneSenderPerRule, table, Serving, Live
<1> QED BY <1>1, <1>2 DEF ScheduleInv

\* Cancelling goroutines changes nothing else about them.
LEMMA CancelEffect ==
  ASSUME ScheduleInv, NEW G, NEW g \in DOMAIN gor
  PROVE  /\ Cancel(G)[g] \in Goroutine
         /\ Cancel(G)[g].rule = gor[g].rule /\ Cancel(G)[g].row = gor[g].row
         /\ Cancel(G)[g].pc = gor[g].pc
         /\ Cancel(G)[g].cancelled = (gor[g].cancelled \/ g \in G)
<1>1. gor[g] \in Goroutine
  BY DEF ScheduleInv, TypeOK, GoroutinesOK
<1>2. CASE g \in G
  BY <1>1, <1>2 DEF Cancel, Goroutine
<1>3. CASE g \notin G
  BY <1>1, <1>3 DEF Cancel, Goroutine
<1> QED BY <1>2, <1>3

\* The goroutines stay typed under a cancellation.
LEMMA CancelTyped ==
  ASSUME ScheduleInv, NEW G, gor' = Cancel(G), started' = started
  PROVE  GoroutinesOK'
<1>1. DOMAIN gor' = 1 .. started
  BY DEF ScheduleInv, TypeOK, GoroutinesOK, Cancel
<1>2. gor' = [g \in 1 .. started |-> Cancel(G)[g]]
  BY <1>1 DEF Cancel
<1>3. \A g \in 1 .. started : Cancel(G)[g] \in Goroutine
  BY CancelEffect DEF ScheduleInv, TypeOK, GoroutinesOK
<1> HIDE DEF Cancel
<1> QED BY <1>1, <1>2, <1>3 DEF GoroutinesOK, ScheduleInv, TypeOK

\* Cancelling goroutines, with the handles of DOMAIN running' kept and the others
\* among the cancelled: what Sweep and Stop have in common.
LEMMA CancelInv ==
  ASSUME ScheduleInv, NEW G, gor' = Cancel(G), started' = started,
         UNCHANGED <<table, listed, todo, lastSent, bounds>>,
         closed' = closed, mgr' \in MgrPCs,
         DOMAIN running' \subseteq DOMAIN running,
         running' = [r \in DOMAIN running' |-> running[r]],
         \A r \in DOMAIN running \ DOMAIN running' : running[r].gor \in G,
         DOMAIN running \cap DOMAIN listed \subseteq DOMAIN running',
         mgr' # "apply" => todo = {} /\ DOMAIN running' = DOMAIN listed
  PROVE  ScheduleInv'
<1>1. DOMAIN gor' = DOMAIN gor
  BY DEF Cancel
<1>2. \A g \in DOMAIN gor : /\ gor'[g].rule = gor[g].rule /\ gor'[g].row = gor[g].row
                            /\ gor'[g].pc = gor[g].pc
                            /\ gor'[g].cancelled = (gor[g].cancelled \/ g \in G)
  BY CancelEffect
<1>3. \A r \in DOMAIN running' : running'[r] = running[r]
  OBVIOUS
<1>4. TypeOK'
  <2>1. GoroutinesOK'
    BY CancelTyped
  <2>2. ManagerOK'
    BY DEF ScheduleInv, TypeOK, ManagerOK
  <2> QED BY <2>1, <2>2 DEF ScheduleInv, TypeOK, TableOK, table, bounds
<1>5. HandlesOK'
  BY <1>1, <1>2, <1>3 DEF ScheduleInv, HandlesOK
<1>6. VersionsOK'
  BY <1>1, <1>2 DEF ScheduleInv, VersionsOK, SameVersion, table, bounds
<1>7. LoopOK'
  <2>1. ASSUME NEW r \in DOMAIN listed \ todo
        PROVE  r \in DOMAIN running' /\ gor'[running'[r].gor].row = listed[r]
    BY <1>2, <1>3 DEF ScheduleInv, LoopOK, HandlesOK
  <2> QED BY <2>1 DEF LoopOK
<1>8. OneSenderPerRule'
  <2>1. ASSUME NEW g \in DOMAIN gor, Serving(g)'
        PROVE  gor'[g].rule \in DOMAIN running' /\ running'[gor'[g].rule].gor = g
    <3>1. Serving(g) /\ g \notin G
      BY <2>1, <1>2 DEF Serving, Live
    <3> QED BY <3>1, <1>2, <1>3 DEF ScheduleInv, OneSenderPerRule
  <2> QED BY <2>1, <1>1 DEF OneSenderPerRule
<1> QED BY <1>4, <1>5, <1>6, <1>7, <1>8 DEF ScheduleInv

\* The end of the manager's loop.
LEMMA SweepInv ==
  ASSUME ScheduleInv, Sweep
  PROVE  ScheduleInv'
<1> DEFINE G == {running[r].gor : r \in DOMAIN running \ DOMAIN listed}
<1>1. DOMAIN running' = DOMAIN running \cap DOMAIN listed
  BY DEF Sweep
<1>2. DOMAIN listed \subseteq DOMAIN running
  BY DEF ScheduleInv, LoopOK, Sweep
<1>3. \A r \in DOMAIN running \ DOMAIN running' : running[r].gor \in G
  BY <1>1
<1>4. mgr' \in MgrPCs
  BY DEF Sweep, MgrPCs
<1>5. gor' = Cancel(G)
  BY DEF Sweep
<1>6. running' = [r \in DOMAIN running' |-> running[r]]
  BY DEF Sweep
<1> HIDE DEF G
<1> QED BY <1>1, <1>2, <1>3, <1>4, <1>5, <1>6, CancelInv DEF Sweep

\* The manager's return.
LEMMA StopInv ==
  ASSUME ScheduleInv, Stop
  PROVE  ScheduleInv'
<1> DEFINE G == {running[r].gor : r \in DOMAIN running}
<1>1. gor' = Cancel(G) /\ running' = running /\ mgr' \in MgrPCs
  BY DEF Stop, MgrPCs
<1>2. running = [r \in DOMAIN running |-> running[r]]
  BY DEF ScheduleInv, TypeOK, ManagerOK
<1>3. todo = {} /\ DOMAIN running = DOMAIN listed
  BY DEF ScheduleInv, LoopOK, Stop
<1> HIDE DEF G
<1> QED BY <1>1, <1>2, <1>3, CancelInv DEF Stop

\* One turn of the loop that leaves the goroutine alone: by VersionsOK the row it
\* carries is the row listed.
LEMMA SkipInv ==
  ASSUME ScheduleInv, NEW r \in RuleIds, Reconcile(r), Unchanged(r)
  PROVE  ScheduleInv'
<1>1. UNCHANGED <<table, mgr, listed, running, gor, started, closed, lastSent, bounds>>
  BY DEF Reconcile
<1>2. todo' = todo \ {r} /\ r \in todo /\ mgr = "apply"
  BY DEF Reconcile
<1>3. TypeOK' /\ HandlesOK' /\ VersionsOK' /\ OneSenderPerRule'
  BY <1>1, <1>2 DEF ScheduleInv, TypeOK, TableOK, ManagerOK, GoroutinesOK, HandlesOK,
     VersionsOK, OneSenderPerRule, table, bounds, Serving, Live
<1>4. r \in DOMAIN running /\ r \in DOMAIN listed /\ running[r].sig = listed[r].stamp
  BY <1>2 DEF Unchanged, ScheduleInv, TypeOK, ManagerOK
<1>5. gor[running[r].gor].row = listed[r]
  BY <1>4 DEF ScheduleInv, HandlesOK, VersionsOK, SameVersion
<1>6. LoopOK'
  BY <1>1, <1>2, <1>4, <1>5 DEF ScheduleInv, LoopOK
<1> QED BY <1>3, <1>6 DEF ScheduleInv

\* One turn of the loop that starts a goroutine, after cancelling the rule's other.
LEMMA StartInv ==
  ASSUME ScheduleInv, NEW r \in RuleIds, Reconcile(r), ~Unchanged(r)
  PROVE  ScheduleInv'
<1> DEFINE n == started + 1
           new == [rule |-> r, row |-> listed[r], pc |-> Armed(listed[r]), cancelled |-> FALSE]
           G == StaleHandle(r)
<1>1. r \in todo /\ r \in DOMAIN listed /\ mgr = "apply"
  BY DEF Reconcile, ScheduleInv, TypeOK, ManagerOK
<1>2. listed[r] \in Row /\ started \in Nat /\ DOMAIN gor = 1 .. started
  BY <1>1 DEF ScheduleInv, TypeOK, ManagerOK, GoroutinesOK
<1>3. new \in Goroutine
  BY <1>2 DEF Goroutine, GorPCs, Armed
<1>4. DOMAIN gor' = 1 .. n /\ n \notin DOMAIN gor /\ gor'[n] = new
  <2>1. DOMAIN gor \cup {n} = 1 .. n /\ n \notin DOMAIN gor
    BY <1>2
  <2>2. DOMAIN gor' = DOMAIN gor \cup {n} /\ gor'[n] = new
    BY DEF Reconcile
  <2> QED BY <2>1, <2>2
<1>5. \A g \in DOMAIN gor : gor'[g] = Cancel(G)[g]
  BY <1>2 DEF Reconcile
<1>6. \A g \in DOMAIN gor : /\ gor'[g] \in Goroutine
                            /\ gor'[g].rule = gor[g].rule /\ gor'[g].row = gor[g].row
                            /\ gor'[g].pc = gor[g].pc
                            /\ gor'[g].cancelled = (gor[g].cancelled \/ g \in G)
  BY <1>5, CancelEffect
<1>7. /\ DOMAIN running' = DOMAIN running \cup {r}
      /\ running'[r] = [gor |-> n, sig |-> listed[r].stamp]
      /\ \A q \in DOMAIN running \ {r} : running'[q] = running[q]
  BY DEF Reconcile
<1>8. started' = n /\ todo' = todo \ {r}
  BY DEF Reconcile
<1>9. UNCHANGED <<table, mgr, listed, closed, lastSent, bounds>>
  BY DEF Reconcile
<1>10. running' = [q \in DOMAIN running \cup {r} |-> running'[q]]
  BY DEF Reconcile
<1>11. gor' = [g \in 1 .. n |-> gor'[g]]
  <2>1. DOMAIN gor \cup {started + 1} = 1 .. n
    BY <1>2
  <2> QED BY <2>1 DEF Reconcile
<1> HIDE DEF new, G
<1>12. TypeOK'
  <2>1. GoroutinesOK'
    <3>1. \A g \in 1 .. n : gor'[g] \in Goroutine
      BY <1>2, <1>3, <1>4, <1>6
    <3> QED BY <1>2, <1>4, <1>8, <1>11, <3>1 DEF GoroutinesOK
  <2>2. ManagerOK'
    <3>1. \A q \in DOMAIN running' : running'[q] \in Handle
      <4>1. running'[r] \in Handle
        BY <1>2, <1>7 DEF Handle, Row
      <4>2. \A q \in DOMAIN running : running[q] \in Handle
        BY DEF ScheduleInv, TypeOK, ManagerOK
      <4> QED BY <1>7, <4>1, <4>2
    <3>2. running' \in [DOMAIN running' -> Handle]
      BY <1>7, <1>10, <3>1
    <3> QED BY <1>7, <1>8, <1>9, <3>2 DEF ScheduleInv, TypeOK, ManagerOK
  <2> QED BY <1>9, <2>1, <2>2 DEF ScheduleInv, TypeOK, TableOK, table, bounds
<1>13. HandlesOK'
  <2>1. ASSUME NEW q \in DOMAIN running'
        PROVE  /\ running'[q].gor \in DOMAIN gor' /\ gor'[running'[q].gor].rule = q
               /\ gor'[running'[q].gor].row.stamp = running'[q].sig
    <3>1. CASE q = r
      BY <1>2, <1>4, <1>7, <3>1 DEF new
    <3>2. CASE q # r
      <4>1. /\ q \in DOMAIN running /\ running'[q] = running[q]
            /\ running[q].gor \in DOMAIN gor /\ gor[running[q].gor].rule = q
            /\ gor[running[q].gor].row.stamp = running[q].sig
        BY <1>7, <3>2 DEF ScheduleInv, HandlesOK
      <4> QED BY <1>2, <1>4, <1>6, <4>1
    <3> QED BY <3>1, <3>2
  <2> QED BY <2>1 DEF HandlesOK
<1>14. VersionsOK'
  <2>1. ASSUME NEW g \in DOMAIN gor'
        PROVE  /\ gor'[g].row.stamp <= edits
               /\ gor'[g].rule \in DOMAIN rules => SameVersion(gor'[g].row, rules[gor'[g].rule])
               /\ gor'[g].rule \in DOMAIN listed
                    => SameVersion(gor'[g].row, listed[gor'[g].rule])
    <3>1. CASE g = n
      BY <1>1, <1>4, <3>1 DEF new, ScheduleInv, VersionsOK, SameVersion
    <3>2. CASE g # n
      <4>1. g \in DOMAIN gor
        BY <1>2, <1>4, <3>2
      <4> QED BY <1>6, <4>1 DEF ScheduleInv, VersionsOK
    <3> QED BY <3>1, <3>2
  <2> QED BY <1>9, <2>1 DEF ScheduleInv, VersionsOK, SameVersion, table, bounds
<1>15. LoopOK'
  <2>1. ASSUME NEW q \in DOMAIN listed \ todo'
        PROVE  q \in DOMAIN running' /\ gor'[running'[q].gor].row = listed[q]
    <3>1. CASE q = r
      BY <1>4, <1>7, <3>1 DEF new
    <3>2. CASE q # r
      <4>1. q \in DOMAIN running /\ gor[running[q].gor].row = listed[q]
        BY <1>8, <3>2 DEF ScheduleInv, LoopOK
      <4>2. running[q].gor \in DOMAIN gor
        BY <4>1 DEF ScheduleInv, HandlesOK
      <4> QED BY <1>6, <1>7, <3>2, <4>1, <4>2
    <3> QED BY <3>1, <3>2
  <2> QED BY <1>1, <1>9, <2>1 DEF LoopOK
<1>16. OneSenderPerRule'
  <2>1. ASSUME NEW g \in DOMAIN gor', Serving(g)'
        PROVE  gor'[g].rule \in DOMAIN running' /\ running'[gor'[g].rule].gor = g
    <3>1. CASE g = n
      BY <1>4, <1>7, <3>1 DEF new
    <3>2. CASE g # n
      <4>1. g \in DOMAIN gor
        BY <1>2, <1>4, <3>2
      <4>2. Serving(g) /\ g \notin G
        BY <1>6, <2>1, <4>1 DEF Serving, Live
      <4>3. gor[g].rule \in DOMAIN running /\ running[gor[g].rule].gor = g
        BY <4>1, <4>2 DEF ScheduleInv, OneSenderPerRule
      <4>4. gor[g].rule # r
        BY <4>2, <4>3 DEF G, StaleHandle
      <4> QED BY <1>6, <1>7, <4>1, <4>3, <4>4
    <3> QED BY <3>1, <3>2
  <2> QED BY <2>1 DEF OneSenderPerRule
<1> QED BY <1>12, <1>13, <1>14, <1>15, <1>16 DEF ScheduleInv

-----------------------------------------------------------------------------
(* The goroutines                                                          *)

\* A goroutine that runs moves on; the manager does not see it.
LEMMA GoesInv ==
  ASSUME ScheduleInv, NEW g \in DOMAIN gor, Live(g), NEW pc \in GorPCs, Goes(g, pc),
         lastSent' \in [RuleIds -> Row \cup {None}],
         UNCHANGED <<table, manager, started, closed, bounds>>
  PROVE  ScheduleInv'
<1>1. DOMAIN gor' = DOMAIN gor /\ gor' = [h \in DOMAIN gor |-> gor'[h]]
  BY DEF Goes
<1>2. \A h \in DOMAIN gor : /\ gor'[h] \in Goroutine
                            /\ gor'[h].rule = gor[h].rule /\ gor'[h].row = gor[h].row
                            /\ gor'[h].cancelled = gor[h].cancelled
                            /\ (h # g => gor'[h].pc = gor[h].pc)
  BY DEF Goes, ScheduleInv, TypeOK, GoroutinesOK, Goroutine
<1>3. TypeOK'
  <2>1. GoroutinesOK'
    BY <1>1, <1>2 DEF ScheduleInv, TypeOK, GoroutinesOK
  <2> QED BY <2>1 DEF ScheduleInv, TypeOK, TableOK, ManagerOK, table, manager, bounds
<1>4. HandlesOK' /\ LoopOK'
  BY <1>1, <1>2 DEF ScheduleInv, HandlesOK, LoopOK, manager
<1>5. VersionsOK'
  BY <1>1, <1>2 DEF ScheduleInv, VersionsOK, SameVersion, manager, table, bounds
<1>6. OneSenderPerRule'
  BY <1>1, <1>2 DEF ScheduleInv, OneSenderPerRule, Serving, Live, manager
<1> QED BY <1>3, <1>4, <1>5, <1>6 DEF ScheduleInv

\* A step of a goroutine preserves the invariant.
LEMMA GoroutineInv ==
  ASSUME ScheduleInv, NEW g \in DOMAIN gor, Fire(g) \/ Sent(g) \/ Quit(g)
  PROVE  ScheduleInv'
<1>1. gor[g] \in Goroutine /\ lastSent \in [RuleIds -> Row \cup {None}]
  BY DEF ScheduleInv, TypeOK, GoroutinesOK
<1>2. CASE Fire(g)
  BY <1>1, <1>2, GoesInv DEF Fire, Live, GorPCs
<1>3. CASE Sent(g)
  <2>1. Armed(gor[g].row) \in GorPCs
    BY DEF Armed, GorPCs
  <2>2. lastSent' \in [RuleIds -> Row \cup {None}]
    BY <1>1, <1>3 DEF Sent, Goroutine
  <2> QED BY <1>3, <2>1, <2>2, GoesInv DEF Sent, Live
<1>4. CASE Quit(g)
  BY <1>1, <1>4, GoesInv DEF Quit, Live, GorPCs
<1> QED BY <1>2, <1>3, <1>4

-----------------------------------------------------------------------------
(* The theorems                                                            *)

\* Every step preserves the invariant.
LEMMA NextInv == ScheduleInv /\ [Next]_vars => ScheduleInv'
<1> SUFFICES ASSUME ScheduleInv, [Next]_vars PROVE ScheduleInv'
  OBVIOUS
<1>1. CASE Edit
  BY <1>1, CreateInv, UpdateInv, DeleteInv DEF Edit
<1>2. CASE List
  BY <1>2, ListInv
<1>3. CASE Sweep
  BY <1>3, SweepInv
<1>4. ASSUME NEW r \in RuleIds, Reconcile(r) PROVE ScheduleInv'
  BY <1>4, SkipInv, StartInv
<1>5. CASE ListError
  <2>1. faults' \in 0 .. MaxFaults
    BY <1>5, ScheduleAssumption DEF ListError, ScheduleInv, TypeOK
  <2> QED BY <1>5, <2>1, MovesOnInv DEF ListError, MgrPCs
<1>6. CASE Tick
  BY <1>6, MovesOnInv DEF Tick, MgrPCs, bounds, ScheduleInv, TypeOK
<1>7. CASE Stop
  BY <1>7, StopInv
<1>8. ASSUME NEW g \in DOMAIN gor, Fire(g) \/ Sent(g) \/ Quit(g) PROVE ScheduleInv'
  BY <1>8, GoroutineInv
<1>9. CASE Close
  BY <1>9 DEF Close, ScheduleInv, TypeOK, TableOK, ManagerOK, GoroutinesOK, HandlesOK, VersionsOK,
     LoopOK, OneSenderPerRule, Serving, Live, table, manager, bounds
<1>10. CASE UNCHANGED vars
  BY <1>10 DEF vars, ScheduleInv, TypeOK, TableOK, ManagerOK, GoroutinesOK, HandlesOK, VersionsOK,
     LoopOK, OneSenderPerRule, Serving, Live
<1> QED
  BY <1>1, <1>2, <1>3, <1>4, <1>5, <1>6, <1>7, <1>8, <1>9, <1>10 DEF Next, ManagerStep, Rest

\* Every reachable state satisfies the inductive invariant.
THEOREM ScheduleInvariant == Spec => []ScheduleInv
BY InitInv, NextInv, PTL DEF Spec

\* A rule has at most one goroutine that is not cancelled, the one the manager can cancel.
THEOREM OneSender == Spec => []OneSenderPerRule
<1>1. ScheduleInv => OneSenderPerRule
  BY DEF ScheduleInv
<1> QED BY <1>1, ScheduleInvariant, PTL

\* After a reconciliation the goroutines carry the very rows the manager read.
THEOREM ServesListed == Spec => []ServesWhatWasListed
<1>1. ScheduleInv => ServesWhatWasListed
  BY DEF ScheduleInv, LoopOK, ServesWhatWasListed
<1> QED BY <1>1, ScheduleInvariant, PTL

\* Nobody cancels the goroutine of a rule that was not edited, until the bot is closed.
THEOREM UneditedUndisturbed == Spec => UneditedKeepRunning
<1> DEFINE Left(g) == (~gor[g].cancelled /\ gor'[g].cancelled) =>
                        \/ closed
                        \/ gor[g].rule \notin DOMAIN listed
                        \/ listed[gor[g].rule] # gor[g].row
<1>1. ScheduleInv /\ [Next]_vars => \A g \in DOMAIN gor : Left(g)
  <2> SUFFICES ASSUME ScheduleInv, [Next]_vars, NEW g \in DOMAIN gor,
                      ~gor[g].cancelled, gor'[g].cancelled
               PROVE  \/ closed
                      \/ gor[g].rule \notin DOMAIN listed
                      \/ listed[gor[g].rule] # gor[g].row
    OBVIOUS
  <2>1. CASE UNCHANGED gor
    BY <2>1
  <2>2. ASSUME NEW r \in RuleIds, Reconcile(r), ~Unchanged(r)
        PROVE  listed[gor[g].rule] # gor[g].row
    <3>1. gor'[g] = Cancel(StaleHandle(r))[g]
      BY <2>2 DEF Reconcile, ScheduleInv, TypeOK, GoroutinesOK
    <3>2. g \in StaleHandle(r)
      <4> DEFINE G == StaleHandle(r)
      <4>1. Cancel(G)[g].cancelled = (gor[g].cancelled \/ g \in G)
        BY CancelEffect
      <4> QED BY <3>1, <4>1, Zenon
    <3>3. r \in DOMAIN running /\ running[r].gor = g
      BY <3>2 DEF StaleHandle
    <3>4. gor[g].rule = r /\ gor[g].row.stamp = running[r].sig
      BY <3>3 DEF ScheduleInv, HandlesOK
    <3> QED BY <2>2, <3>3, <3>4 DEF Unchanged
  <2>3. CASE Sweep
    <3>1. g \in {running[r].gor : r \in DOMAIN running \ DOMAIN listed}
      <4> DEFINE G == {running[r].gor : r \in DOMAIN running \ DOMAIN listed}
      <4>1. Cancel(G)[g].cancelled = (gor[g].cancelled \/ g \in G)
        BY CancelEffect
      <4>2. gor' = Cancel(G)
        BY <2>3 DEF Sweep
      <4> HIDE DEF G
      <4>3. g \in G
        BY <4>1, <4>2, Zenon
      <4> QED BY <4>3 DEF G
    <3> QED BY <3>1 DEF ScheduleInv, HandlesOK
  <2>4. CASE Stop
    BY <2>4 DEF Stop
  <2>5. ASSUME NEW h \in DOMAIN gor, Fire(h) \/ Sent(h) \/ Quit(h) PROVE FALSE
    <3>1. PICK pc : Goes(h, pc)
      BY <2>5 DEF Fire, Sent, Quit
    <3> QED BY <3>1 DEF Goes, ScheduleInv, TypeOK, GoroutinesOK, Goroutine
  <2>6. CASE Edit \/ List \/ ListError \/ Tick \/ Close \/ Rest \/ UNCHANGED vars
    BY <2>1, <2>6 DEF Edit, Create, Update, Delete, List, ListError, Tick, Close, Rest, vars
  <2>7. ASSUME NEW r \in RuleIds, Reconcile(r), Unchanged(r) PROVE UNCHANGED gor
    BY <2>7 DEF Reconcile
  <2> QED BY <2>1, <2>2, <2>3, <2>4, <2>5, <2>6, <2>7 DEF Next, ManagerStep
<1> QED BY <1>1, ScheduleInvariant, PTL DEF Spec, UneditedKeepRunning
================================================================================
