----------------------------- MODULE ScheduledSend -----------------------------
(***************************************************************************)
(* A scheduled send (doScheduledSend in                                    *)
(* internal/controller/discord/scheduler.go): select an album that was not *)
(* sent lately, post it, stamp it as sent.  Every rule's goroutine, and    *)
(* every "send now" of the dashboard, is a sender; they share the albums   *)
(* table and interleave between their statements.                          *)
(*                                                                         *)
(* Abstractions: last_sent_at is only compared, so the column is kept as   *)
(* the set, for each album, of those sent later (NOW() of two UPDATEs is   *)
(* taken to differ).  A delivery either posts a message or returns nil;    *)
(* what it downloads and how it is packed is left out, and what becomes of *)
(* the message is in ReactionFeedback.                                     *)
(***************************************************************************)
EXTENDS Naturals, FiniteSets

CONSTANTS Senders,     \* rule goroutines and "send now" jobs
          Albums,      \* ids of albums
          Broken,      \* of them, those whose delivery never succeeds
          Scope,       \* Scope[s]: the albums the filter of s covers
          History,     \* History[s]: its history_size
          None,        \* no album
          MaxEdits,    \* bound: changes of the albums table from outside
          MaxFaults    \* bound: failing statements and requests

ASSUME SendAssumption ==
  /\ IsFiniteSet(Albums) /\ Broken \subseteq Albums
  /\ Scope \in [Senders -> SUBSET Albums]
  /\ History \in [Senders -> Nat \ {0}]
  /\ None \notin Albums
  /\ MaxEdits \in Nat /\ MaxFaults \in Nat

VARIABLES
  rows,      \* the albums table: the ids of its rows,
  missing,   \* those with missing_since set,
  sent,      \* those with last_sent_at set,
  later,     \* and later[a]: of these, the ones sent after a
  sender,    \* the local state of each sender
  gap,       \* history: gap[s][a], the albums marked since s last marked a
  edits, faults

table == <<rows, missing, sent, later>>
vars  == <<rows, missing, sent, later, sender, gap, edits, faults>>

PCs == {"idle", "fallback", "deliver", "mark"}

\* What a send keeps in its locals: the album, and whether its delivery gave a message.
SenderState == [pc: PCs, album: Albums \cup {None}, msg: BOOLEAN]

Idle == [pc |-> "idle", album |-> None, msg |-> FALSE]

NotYet == Albums   \* gap[s][a] of an album that s never marked

-----------------------------------------------------------------------------
Init ==
  /\ rows = Albums /\ missing = {}
  /\ sent = {} /\ later = [a \in Albums |-> {}]
  /\ sender = [s \in Senders |-> Idle]
  /\ gap = [s \in Senders |-> [a \in Albums |-> NotYet]]
  /\ edits = 0 /\ faults = 0

Becomes(s, l) == sender' = [sender EXCEPT ![s] = l]
Fault         == faults < MaxFaults /\ faults' = faults + 1

\* The rows a selection of s may return.
InScope(s) == (rows \ missing) \cap Scope[s]

\* The n albums sent last, of the whole table.
OldestFirst(n) == {a \in sent : Cardinality({b \in sent : a \in later[b]}) < n}   \* faulty: ASC
Window(n) == {a \in sent : Cardinality(later[a]) < n}

Picked(a) == [pc |-> "deliver", album |-> a, msg |-> FALSE]

(***************************************************************************)
(* scheduledSend, statement by statement.                                  *)
(***************************************************************************)
\* GetRandomExcludeRecent, its query.
Select(s) ==
  /\ sender[s].pc = "idle"
  /\ LET eligible == InScope(s) \ Window(History[s])
     IN  \/ eligible = {} /\ Becomes(s, [sender[s] EXCEPT !.pc = "fallback"])
         \/ \E a \in eligible : Becomes(s, Picked(a))
  /\ UNCHANGED <<table, gap, edits, faults>>

\* GetRandom: every album in scope is in the window, or none is in scope.
Fallback(s) ==
  /\ sender[s].pc = "fallback"
  /\ \/ InScope(s) = {} /\ Becomes(s, Idle)
     \/ \E a \in InScope(s) : Becomes(s, Picked(a))
  /\ UNCHANGED <<table, gap, edits, faults>>

SelectError(s) ==
  /\ sender[s].pc \in {"idle", "fallback"} /\ Fault
  /\ Becomes(s, Idle)
  /\ UNCHANGED <<table, gap, edits>>

\* deliverAlbum: a message, or nil.  A deleted album has no images left.
Deliver(s) ==
  /\ sender[s].pc = "deliver"
  /\ Becomes(s, [sender[s] EXCEPT !.pc = "mark", !.msg = sender[s].album \in rows \ Broken])
  /\ UNCHANGED <<table, gap, edits, faults>>

DeliverError(s) ==
  /\ sender[s].pc = "deliver" /\ Fault
  /\ Becomes(s, [sender[s] EXCEPT !.pc = "mark"])
  /\ UNCHANGED <<table, gap, edits>>

\* The set of albums marked after b, once a is marked; the faulty variant stamps an
\* album only the first time.
StampedOnce(a, b) ==
  IF b # a /\ a \notin sent /\ b \in sent THEN later[b] \cup {a} ELSE later[b]
MarkedLater(a, b) == IF b = a THEN {} ELSE IF b \in sent THEN later[b] \cup {a} ELSE {}

\* MarkSent: an UPDATE of a row that is gone does nothing.  It comes whether or not
\* the album was delivered; the faulty variant wants a message.
MarksDelivered(s) == sender[s].msg /\ sender[s].album \in rows
Marks(s) == sender[s].album \in rows

Mark(s) ==
  /\ sender[s].pc = "mark"
  /\ LET a == sender[s].album
     IN  IF Marks(s)
         THEN /\ sent' = sent \cup {a}
              /\ later' = [b \in Albums |-> MarkedLater(a, b)]
              /\ gap' = [t \in Senders |-> [b \in Albums |->
                          IF b # a THEN gap[t][b] \cup {a}
                          ELSE IF t = s THEN {} ELSE gap[t][b]]]
         ELSE UNCHANGED <<sent, later, gap>>
  /\ Becomes(s, Idle)
  /\ UNCHANGED <<rows, missing, edits, faults>>

MarkError(s) ==
  /\ sender[s].pc = "mark" /\ Fault
  /\ Becomes(s, Idle)
  /\ UNCHANGED <<table, gap, edits>>

SenderStep(s) == Select(s) \/ Fallback(s) \/ Deliver(s) \/ Mark(s)

(***************************************************************************)
(* The table around the senders: a sync flags an album missing or finds it *)
(* again, an operator deletes it.                                          *)
(***************************************************************************)
EditTable ==
  /\ edits < MaxEdits /\ edits' = edits + 1
  /\ \E a \in rows :
       \/ /\ missing' = IF a \in missing THEN missing \ {a} ELSE missing \cup {a}
          /\ UNCHANGED <<rows, sent, later>>
       \/ /\ rows' = rows \ {a} /\ missing' = missing \ {a} /\ sent' = sent \ {a}
          /\ later' = [b \in Albums |-> IF b = a THEN {} ELSE later[b] \ {a}]
  /\ UNCHANGED <<sender, gap, faults>>

Next ==
  \/ \E s \in Senders :
       \/ SenderStep(s)
       \/ SelectError(s) \/ DeliverError(s) \/ MarkError(s)
  \/ EditTable

Spec == Init /\ [][Next]_vars

\* A rule's timer fires again and again, and a send that began goes on.
Fairness == \A s \in Senders : WF_vars(SenderStep(s))

FairSpec == Spec /\ Fairness

-----------------------------------------------------------------------------
(* Properties                                                              *)

TableOK ==
  /\ rows \subseteq Albums /\ missing \subseteq rows /\ sent \subseteq rows
  /\ later \in [Albums -> SUBSET sent]

SendersOK ==
  /\ sender \in [Senders -> SenderState]
  /\ \A s \in Senders : sender[s].pc \in {"deliver", "mark"} => sender[s].album \in Albums
  /\ gap \in [Senders -> [Albums -> SUBSET Albums]]

\* Every variable has its type; a send that selected has its album.
TypeOK ==
  /\ TableOK /\ SendersOK
  /\ edits \in 0 .. MaxEdits /\ faults \in 0 .. MaxFaults

\* last_sent_at orders the albums that were sent.
SentInOrder ==
  \A a, b \in sent :
    /\ a \notin later[a]
    /\ a # b => (a \in later[b]) # (b \in later[a])

\* What was sent after an album that s marked is in its gap.
GapsCoverLater ==
  \A s \in Senders, a \in sent : later[a] \subseteq gap[s][a]

\* An album without a stamp was marked by nobody.
NeverMarked ==
  \A s \in Senders, a \in rows \ sent : gap[s][a] = NotYet

\* The inductive invariant behind RepeatsAreSpaced.
SendInv == TypeOK /\ SentInOrder /\ GapsCoverLater /\ NeverMarked

(***************************************************************************)
(* The anti-repeat promise of a rule, whatever the other rules and "send   *)
(* now" post meanwhile, albums missing or deleted included: unless all the *)
(* albums in scope were sent lately, the rule repeats an album only after  *)
(* History[s] other albums were marked since it marked this one itself.    *)
(***************************************************************************)
RepeatsAreSpaced ==
  [][\A s \in Senders, a \in Albums :
       (sender[s].pc = "idle" /\ sender'[s].pc = "deliver" /\ sender'[s].album = a) =>
         gap[s][a] = NotYet \/ Cardinality(gap[s][a]) >= History[s]]_vars

(***************************************************************************)
(* No album starves: where the history leaves one album out, every album   *)
(* some rule covers is posted again and again, once the table is at rest   *)
(* with all of them present.  Overlapping senders that pick the same album *)
(* do not prevent it, nor does an album whose delivery always fails.       *)
(***************************************************************************)
Posts(a) == \E s \in Senders : sender[s].pc = "mark" /\ sender[s].msg /\ sender[s].album = a

EveryAlbumGetsItsTurn ==
  (/\ \A s \in Senders : History[s] = Cardinality(Albums) - 1
   /\ <>[](rows = Albums /\ missing = {})) =>
     \A a \in UNION {Scope[s] : s \in Senders} \ Broken : []<>Posts(a)

================================================================================
