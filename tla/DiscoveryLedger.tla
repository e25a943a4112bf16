---------------------------- MODULE DiscoveryLedger ----------------------------
(***************************************************************************)
(* What the media sync promises about announcing new files, with no tables *)
(* and no runs: every file that becomes known gets a number, once; a       *)
(* number is announced at most once; a sync that fails may drop numbers it *)
(* had not announced, which are then never announced.                      *)
(***************************************************************************)
EXTENDS Naturals

VARIABLES next,       \* the next number to hand out
          pending,    \* numbers handed out and neither announced nor dropped
          announced   \* numbers announced

lvars == <<next, pending, announced>>

Init == next = 1 /\ pending = {} /\ announced = {}

Discover ==
  /\ next' = next + 1
  /\ pending' = pending \cup {next}
  /\ UNCHANGED announced

Announce ==
  \E S \in SUBSET pending :
    /\ announced' = announced \cup S
    /\ pending' = pending \ S
    /\ UNCHANGED next

Drop ==
  /\ pending' \subseteq pending
  /\ UNCHANGED <<next, announced>>

Next == Discover \/ Announce \/ Drop

Spec == Init /\ [][Next]_lvars

\* The ledger's own invariant: what is announced is no longer pending, and only
\* numbers handed out are either.
LedgerInv ==
  /\ next \in Nat \ {0}
  /\ pending \subseteq 1 .. (next - 1)
  /\ announced \subseteq 1 .. (next - 1)
  /\ pending \cap announced = {}
================================================================================
