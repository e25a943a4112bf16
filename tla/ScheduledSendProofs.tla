-------------------------- MODULE ScheduledSendProofs --------------------------
(* Proofs of the invariant of scheduled sends and of their anti-repeat promise. *)
EXTENDS ScheduledSend, FiniteSetTheorems, TLAPS

\* Nothing is sent at the start, and nobody has marked anything.
LEMMA InitInv == Init => SendInv
<1> SUFFICES ASSUME Init
             PROVE  SendInv
  OBVIOUS
<1>1. Idle \in SenderState
  BY DEF Idle, SenderState, PCs
<1>2. SendersOK
  BY <1>1 DEF Init, SendersOK, Idle, NotYet
<1>3. TableOK
  BY DEF Init, TableOK
<1>4. edits \in 0 .. MaxEdits /\ faults \in 0 .. MaxFaults
  BY SendAssumption DEF Init
<1>5. SentInOrder /\ GapsCoverLater /\ NeverMarked
  BY DEF Init, SentInOrder, GapsCoverLater, NeverMarked
<1> QED BY <1>2, <1>3, <1>4, <1>5 DEF SendInv, TypeOK

\* A typed local state keeps the senders typed.
LEMMA BecomesTyped ==
  ASSUME SendersOK, NEW s \in Senders, NEW l \in SenderState, Becomes(s, l),
         l.pc \in {"deliver", "mark"} => l.album \in Albums, UNCHANGED gap
  PROVE  SendersOK'
BY DEF SendersOK, Becomes

\* The end of a send, and a selection, are typed local states.
LEMMA LocalsTyped ==
  ASSUME NEW a \in Albums
  PROVE  /\ Idle \in SenderState /\ Idle.pc = "idle"
         /\ Picked(a) \in SenderState /\ Picked(a).album = a
BY DEF SenderState, Idle, Picked, PCs

\* The statements of a send that leave the table alone, and their errors.
Local(s) ==
  \/ Select(s) \/ Fallback(s) \/ SelectError(s) \/ Deliver(s) \/ DeliverError(s)
  \/ MarkError(s)

\* They move only the sender on, in a typed way.
LEMMA LocalStep ==
  ASSUME SendInv, NEW s \in Senders, Local(s)
  PROVE  /\ SendersOK' /\ UNCHANGED <<table, gap, edits>>
         /\ faults' \in 0 .. MaxFaults
<1> USE DEF SendInv, TypeOK
<1>0. sender[s] \in SenderState /\ InScope(s) \subseteq Albums
  BY DEF SendersOK, TableOK, InScope
<1>d. Idle \in SenderState /\ Idle.pc = "idle"
  BY <1>0 DEF SenderState, Idle, PCs
<1>1. CASE Select(s)
  <2>1. CASE Becomes(s, [sender[s] EXCEPT !.pc = "fallback"])
    <3>1. [sender[s] EXCEPT !.pc = "fallback"] \in SenderState
      BY <1>0 DEF SenderState, PCs
    <3>2. [sender[s] EXCEPT !.pc = "fallback"].pc = "fallback"
      BY <1>0 DEF SenderState
    <3> QED BY <1>1, <2>1, <3>1, <3>2, BecomesTyped DEF Select
  <2>2. ASSUME NEW a \in InScope(s), Becomes(s, Picked(a))
        PROVE  SendersOK'
    BY <1>0, <1>1, <2>2, LocalsTyped, BecomesTyped DEF Select
  <2> QED BY <1>1, <2>1, <2>2 DEF Select
<1>2. CASE Fallback(s)
  <2>1. CASE Becomes(s, Idle)
    BY <1>d, <1>2, <2>1, BecomesTyped DEF Fallback
  <2>2. ASSUME NEW a \in InScope(s), Becomes(s, Picked(a))
        PROVE  SendersOK'
    BY <1>0, <1>2, <2>2, LocalsTyped, BecomesTyped DEF Fallback
  <2> QED BY <1>2, <2>1, <2>2 DEF Fallback
<1>3. CASE SelectError(s) \/ MarkError(s)
  <2>1. SendersOK'
    BY <1>d, <1>3, BecomesTyped DEF SelectError, MarkError
  <2>2. UNCHANGED <<table, gap, edits>>
    BY <1>3 DEF SelectError, MarkError
  <2>3. faults' \in 0 .. MaxFaults
    BY <1>3, SendAssumption DEF SelectError, MarkError, Fault
  <2> QED BY <2>1, <2>2, <2>3
<1>4. CASE Deliver(s)
  <2> DEFINE l == [sender[s] EXCEPT !.pc = "mark", !.msg = sender[s].album \in rows \ Broken]
  <2>1. l \in SenderState
    <3>1. (sender[s].album \in rows \ Broken) \in BOOLEAN
      OBVIOUS
    <3> QED BY <1>0, <3>1 DEF SenderState, PCs
  <2>2. l.album \in Albums
    BY <1>0, <1>4 DEF SendersOK, Deliver, SenderState
  <2> QED BY <1>4, <2>1, <2>2, BecomesTyped DEF Deliver
<1>5. CASE DeliverError(s)
  <2> DEFINE l == [sender[s] EXCEPT !.pc = "mark"]
  <2>1. l \in SenderState
    BY <1>0 DEF SenderState, PCs
  <2>2. l.album \in Albums
    BY <1>0, <1>5 DEF SendersOK, DeliverError, SenderState
  <2>3. Becomes(s, l) /\ UNCHANGED <<table, gap, edits>>
    BY <1>5 DEF DeliverError
  <2>4. SendersOK'
    BY <2>1, <2>2, <2>3, BecomesTyped
  <2>5. faults' \in 0 .. MaxFaults
    BY <1>5, SendAssumption DEF DeliverError, Fault
  <2> QED BY <2>3, <2>4, <2>5
<1> QED BY <1>1, <1>2, <1>3, <1>4, <1>5 DEF Local

\* Hence they preserve the invariant, which else is about the table and the gaps.
LEMMA LocalInv ==
  ASSUME SendInv, NEW s \in Senders, Local(s)
  PROVE  SendInv'
BY LocalStep DEF SendInv, TypeOK, TableOK, SentInOrder, GapsCoverLater, NeverMarked, table

\* Marking an album moves it to the end of the order, and into every other's gap.
LEMMA MarkInv ==
  ASSUME SendInv, NEW s \in Senders, Mark(s)
  PROVE  SendInv'
<1> USE DEF SendInv, TypeOK
<1> DEFINE a == sender[s].album
<1>0. sender[s] \in SenderState /\ a \in Albums
  BY DEF Mark, SendersOK
<1>1. Idle \in SenderState /\ Idle.pc = "idle"
  BY <1>0 DEF SenderState, Idle, PCs
<1>2. CASE ~Marks(s)
  <2>1. SendersOK'
    BY <1>1, <1>2, BecomesTyped DEF Mark
  <2> QED BY <1>2, <2>1
          DEF Mark, TableOK, SentInOrder, GapsCoverLater, NeverMarked
<1>3. CASE Marks(s)
  <2>1. /\ sent' = sent \cup {a} /\ UNCHANGED <<rows, missing, edits, faults>>
        /\ later' = [b \in Albums |-> MarkedLater(a, b)]
        /\ gap' = [t \in Senders |-> [b \in Albums |->
                    IF b # a THEN gap[t][b] \cup {a}
                    ELSE IF t = s THEN {} ELSE gap[t][b]]]
        /\ Becomes(s, Idle) /\ a \in rows
    BY <1>3 DEF Mark, Marks
  <2> HIDE DEF a
  <2>2. later \in [Albums -> SUBSET sent] /\ sent \subseteq Albums
    BY DEF TableOK
  <2>3. \A b \in Albums : MarkedLater(a, b) \in SUBSET (sent \cup {a})
    BY <2>2 DEF MarkedLater
  <2>4. TableOK'
    BY <1>0, <2>1, <2>3 DEF TableOK, a
  <2>5. gap \in [Senders -> [Albums -> SUBSET Albums]]
    BY DEF SendersOK
  <2>6. gap' \in [Senders -> [Albums -> SUBSET Albums]]
    BY <1>0, <2>1, <2>5 DEF a
  <2>7. SendersOK'
    BY <1>1, <2>1, <2>6 DEF SendersOK, Becomes
  <2>8. SentInOrder'
    BY <1>0, <2>1, <2>2 DEF SentInOrder, MarkedLater, a
  <2>9. GapsCoverLater'
    <3> SUFFICES ASSUME NEW t \in Senders, NEW b \in sent'
                 PROVE  later'[b] \subseteq gap'[t][b]
      BY DEF GapsCoverLater
    <3>1. CASE b = a
      BY <1>0, <2>1, <3>1 DEF MarkedLater, a
    <3>2. CASE b # a
      <4>1. b \in sent /\ b \in Albums
        BY <2>1, <2>2, <3>2
      <4>2. later[b] \subseteq gap[t][b]
        BY <4>1 DEF GapsCoverLater
      <4>3. later'[b] = later[b] \cup {a} /\ gap'[t][b] = gap[t][b] \cup {a}
        BY <2>1, <3>2, <4>1 DEF MarkedLater
      <4> QED BY <4>2, <4>3
    <3> QED BY <3>1, <3>2
  <2>10. NeverMarked'
    <3> SUFFICES ASSUME NEW t \in Senders, NEW b \in rows' \ sent'
                 PROVE  gap'[t][b] = NotYet
      BY DEF NeverMarked, NotYet
    <3>1. b \in rows \ sent /\ b # a /\ b \in Albums
      BY <2>1 DEF TableOK
    <3>2. gap[t][b] = Albums
      BY <3>1 DEF NeverMarked, NotYet
    <3> QED BY <1>0, <2>1, <3>1, <3>2 DEF NotYet, a
  <2> QED BY <2>1, <2>4, <2>7, <2>8, <2>9, <2>10
<1> QED BY <1>2, <1>3

\* An album flagged missing keeps its stamp; a deleted one leaves the order.
LEMMA EditInv ==
  ASSUME SendInv, EditTable
  PROVE  SendInv'
<1> USE DEF SendInv, TypeOK
<1>1. edits' \in 0 .. MaxEdits /\ UNCHANGED <<sender, gap, faults>>
  BY SendAssumption DEF EditTable
<1>2. SendersOK'
  BY <1>1 DEF SendersOK
<1>3. PICK a \in rows :
        \/ /\ missing' = IF a \in missing THEN missing \ {a} ELSE missing \cup {a}
           /\ UNCHANGED <<rows, sent, later>>
        \/ /\ rows' = rows \ {a} /\ missing' = missing \ {a} /\ sent' = sent \ {a}
           /\ later' = [b \in Albums |-> IF b = a THEN {} ELSE later[b] \ {a}]
  BY DEF EditTable
<1>4. CASE UNCHANGED <<rows, sent, later>>
  BY <1>1, <1>2, <1>3, <1>4 DEF TableOK, SentInOrder, GapsCoverLater, NeverMarked
<1>5. CASE /\ rows' = rows \ {a} /\ missing' = missing \ {a} /\ sent' = sent \ {a}
           /\ later' = [b \in Albums |-> IF b = a THEN {} ELSE later[b] \ {a}]
  <2>1. TableOK'
    BY <1>5 DEF TableOK
  <2>2. SentInOrder'
    BY <1>5 DEF TableOK, SentInOrder
  <2>3. GapsCoverLater'
    BY <1>1, <1>5 DEF TableOK, GapsCoverLater
  <2>4. NeverMarked'
    BY <1>1, <1>5 DEF NeverMarked
  <2> QED BY <1>1, <1>2, <2>1, <2>2, <2>3, <2>4
<1> QED BY <1>3, <1>4, <1>5

\* Every step preserves the invariant.
LEMMA NextInv == SendInv /\ [Next]_vars => SendInv'
<1> SUFFICES ASSUME SendInv, [Next]_vars
             PROVE  SendInv'
  OBVIOUS
<1>1. ASSUME NEW s \in Senders, Local(s)
      PROVE  SendInv'
  BY <1>1, LocalInv
<1>2. ASSUME NEW s \in Senders, Mark(s)
      PROVE  SendInv'
  BY <1>2, MarkInv
<1>3. CASE EditTable
  BY <1>3, EditInv
<1>4. CASE UNCHANGED vars
  BY <1>4 DEF vars, SendInv, TypeOK, TableOK, SendersOK, SentInOrder, GapsCoverLater,
              NeverMarked
<1> QED BY <1>1, <1>2, <1>3, <1>4 DEF Next, SenderStep, Local

\* Every reachable state satisfies the inductive invariant of the sends.
THEOREM SendInvariant == Spec => []SendInv
BY InitInv, NextInv, PTL DEF Spec

\* An album a rule may select at its first attempt was marked by nobody, or at least
\* as many albums as the history asks for were marked since the rule marked it.
LEMMA EligibleIsSpaced ==
  ASSUME SendInv, NEW s \in Senders, NEW a \in InScope(s) \ Window(History[s])
  PROVE  gap[s][a] = NotYet \/ Cardinality(gap[s][a]) >= History[s]
<1> USE DEF SendInv, TypeOK
<1>1. a \in rows /\ a \in Albums
  BY DEF InScope, TableOK
<1>2. CASE a \notin sent
  BY <1>1, <1>2 DEF NeverMarked
<1>3. CASE a \in sent
  <2>1. later[a] \subseteq gap[s][a] /\ gap[s][a] \subseteq Albums /\ later[a] \subseteq Albums
    BY <1>1, <1>3 DEF GapsCoverLater, SendersOK, TableOK
  <2>2. IsFiniteSet(gap[s][a]) /\ IsFiniteSet(later[a])
    BY <2>1, SendAssumption, FS_Subset
  <2>3. Cardinality(later[a]) <= Cardinality(gap[s][a])
    BY <2>1, <2>2, FS_Subset
  <2>4. Cardinality(later[a]) \in Nat /\ Cardinality(gap[s][a]) \in Nat
    BY <2>2, FS_CardinalityType
  <2>5. ~(Cardinality(later[a]) < History[s])
    BY <1>3 DEF Window
  <2>6. History[s] \in Nat
    BY SendAssumption
  <2> QED BY <2>3, <2>4, <2>5, <2>6
<1> QED BY <1>2, <1>3

\* The anti-repeat promise, for any number of rules, albums and histories: a selection
\* that finds an eligible album repeats it only after History[s] others.
THEOREM SpacedRepeats == Spec => RepeatsAreSpaced
<1> DEFINE Spaced ==
      \A s \in Senders, a \in Albums :
        (sender[s].pc = "idle" /\ sender'[s].pc = "deliver" /\ sender'[s].album = a) =>
          gap[s][a] = NotYet \/ Cardinality(gap[s][a]) >= History[s]
<1>1. SendInv /\ [Next]_vars => [Spaced]_vars
  <2> SUFFICES ASSUME SendInv, Next, NEW s \in Senders, NEW a \in Albums,
                      sender[s].pc = "idle", sender'[s].pc = "deliver", sender'[s].album = a
               PROVE  gap[s][a] = NotYet \/ Cardinality(gap[s][a]) >= History[s]
    OBVIOUS
  <2>1. sender \in [Senders -> SenderState]
    BY DEF SendInv, TypeOK, SendersOK
  <2>2. PICK t \in Senders : Local(t) \/ Mark(t)
    BY DEF Next, SenderStep, Local, EditTable
  <2>3. t = s
    BY <2>1, <2>2 DEF Local, Mark, Select, Fallback, SelectError, Deliver, DeliverError,
                      MarkError, Becomes
  <2>4. Select(s)
    BY <2>1, <2>2, <2>3 DEF Local, Mark, Select, Fallback, SelectError, Deliver,
                            DeliverError, MarkError, Becomes, Idle
  <2>5. a \in InScope(s) \ Window(History[s])
    BY <2>1, <2>4 DEF Select, Becomes, Picked, SenderState
  <2> QED BY <2>5, EligibleIsSpaced
<1>2. Spec => [][Spaced]_vars
  BY <1>1, SendInvariant, PTL DEF Spec
<1> QED BY <1>2 DEF RepeatsAreSpaced
================================================================================
