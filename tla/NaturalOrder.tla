------------------------------ MODULE NaturalOrder -----------------------------
(***************************************************************************)
(* The order of comic pages and of listings (internal/usecase/images/      *)
(* natsort.go): naturalCompare walks two names side by side and compares   *)
(* runs of digits by value.  A sort needs more of it than each comparison: *)
(* all of them together must be one order.  One iteration of its loop is   *)
(* one step; a name is the sequence of its bytes.                          *)
(***************************************************************************)
EXTENDS Integers, SequencesExt

CONSTANTS Names    \* names of files

\* What is assumed of the constant.
ASSUME OrderAssumption == Names \subseteq Seq(0 .. 255)

VARIABLES a, b,    \* the names compared
          i, j,    \* how many bytes of each are done with
          order    \* -1, 0 or 1, or Undecided

comparing == <<a, b, i, j, order>>

Undecided    == 2
isDigit(c)   == c \in 48 .. 57
lowerByte(c) == IF c \in 65 .. 90 THEN c + 32 ELSE c
Sign(m, n)   == IF m < n THEN -1 ELSE IF m > n THEN 1 ELSE 0

ComparingInit ==
  /\ a \in Names /\ b \in Names
  /\ i = 0 /\ j = 0 /\ order = Undecided

Left    == order = Undecided /\ i < Len(a) /\ j < Len(b)
AtRuns  == isDigit(a[i + 1]) /\ isDigit(b[j + 1])

\* Where the run of digits of s after position k ends, and where its leading zeros do.
RunEnd(s, k)   == Max({n \in k .. Len(s) : \A m \in k + 1 .. n : isDigit(s[m])})
ZerosEnd(s, k) == Max({n \in k .. Len(s) : \A m \in k + 1 .. n : s[m] = 48})

\* Two sequences of as many numbers, at the first place where they differ.
FirstDifference(s, t) ==
  LET at == {n \in DOMAIN s : s[n] # t[n]}
  IN  IF at = {} THEN 0 ELSE Sign(s[Min(at)], t[Min(at)])

\* compareDigitRuns: without leading zeros, by length, by digits, and then the fewer
\* zeros first.  The faulty variant forgets to strip them.
WithZeros(s, k) == SubSeq(s, k + 1, RunEnd(s, k))
Stripped(s, k)  == SubSeq(s, ZerosEnd(s, k) + 1, RunEnd(s, k))

compareDigitRuns ==
  LET s == Stripped(a, i) t == Stripped(b, j)
      zeros == Sign(ZerosEnd(a, i) - i, ZerosEnd(b, j) - j)
  IN  IF Len(s) # Len(t) THEN Sign(Len(s), Len(t))
      ELSE IF FirstDifference(s, t) # 0 THEN FirstDifference(s, t) ELSE zeros

Decide(c) == order' = IF c # 0 THEN c ELSE Undecided

CompareRuns ==
  /\ Left /\ AtRuns /\ Decide(compareDigitRuns)
  /\ i' = RunEnd(a, i) /\ j' = RunEnd(b, j)
  /\ UNCHANGED <<a, b>>

CompareBytes ==
  /\ Left /\ ~AtRuns /\ Decide(Sign(lowerByte(a[i + 1]), lowerByte(b[j + 1])))
  /\ i' = i + 1 /\ j' = j + 1
  /\ UNCHANGED <<a, b>>

\* One name is done with: the longer comes second.
CompareEnds ==
  /\ order = Undecided /\ ~Left
  /\ order' = IF i < Len(a) THEN 1 ELSE IF j < Len(b) THEN -1 ELSE 0
  /\ UNCHANGED <<a, b, i, j>>

ComparingNext == CompareRuns \/ CompareBytes \/ CompareEnds

ComparingSpec == ComparingInit /\ [][ComparingNext]_comparing

-----------------------------------------------------------------------------
(* Properties                                                              *)

ComparingTypeOK ==
  /\ a \in Names /\ b \in Names /\ i \in 0 .. Len(a) /\ j \in 0 .. Len(b)
  /\ order \in {-1, 0, 1, Undecided}

\* A name's key: each byte outside a run in lower case, each run as the byte of a digit,
\* its length, its digits and its zeros; and the order of dictionaries on keys.
Piece(s, k) ==
  IF ~isDigit(s[k + 1]) THEN <<lowerByte(s[k + 1])>>
  ELSE IF k > 0 /\ isDigit(s[k]) THEN <<>>
  ELSE LET n == SelectInSeq(Append(SubSeq(s, k + 1, Len(s)), 0), LAMBDA c : c # 48) - 1
           run == SubSeq(s, k + n + 1, RunEnd(s, k))
       IN  <<48, Len(run)>> \o run \o <<n>>
Key(s) == FlattenSeq([n \in DOMAIN s |-> Piece(s, n - 1)])
Precedes(s, t) ==
  \/ IsStrictPrefix(s, t)
  \/ \E n \in DOMAIN s \cap DOMAIN t : SubSeq(s, 1, n - 1) = SubSeq(t, 1, n - 1) /\ s[n] < t[n]

(***************************************************************************)
(* naturalCompare orders names by their keys, so that it is one total      *)
(* order, the same whichever pairs a sort asks about: numbers by value at  *)
(* any length, "2" before "10" and "2" before "02", cases alike.           *)
(***************************************************************************)
OneOrder ==
  order # Undecided =>
    order = IF Precedes(Key(a), Key(b)) THEN -1 ELSE IF Precedes(Key(b), Key(a)) THEN 1 ELSE 0
================================================================================
