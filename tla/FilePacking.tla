------------------------------ MODULE FilePacking ------------------------------
(***************************************************************************)
(* How downloaded files become messages (internal/controller/discord/      *)
(* bot.go): fitToLimit samples one message out of a pool, chunkOrdered     *)
(* packs all of it, in order, into as many as it takes.  One iteration of  *)
(* a loop is one step.                                                     *)
(*                                                                         *)
(* Abstractions: a file is its position in the pool; sizes are counted in  *)
(* units of a small budget.  The cover, if the album has one, is the first *)
(* file, as GetAlbumBatch and GetComicPages return it.                     *)
(***************************************************************************)
EXTENDS Naturals, FiniteSets, SequencesExt

CONSTANTS Pools,    \* the pools: sequences of file sizes
          Budget,   \* maxBytes
          Limits    \* values of targetCount and maxCount

\* What is assumed of the constants.
ASSUME PackingAssumption ==
  /\ \A p \in Pools : p \in Seq(Nat \ {0})
  /\ Budget \in Nat /\ Limits \subseteq Nat \ {0}

VARIABLES
  pool,       \* the file sizes
  covered,    \* whether the first file is the cover
  limit,      \* targetCount, or maxCount
  step,       \* "shuffle", "sample" or "pack" while a function runs; "sampled", "packed"
  waiting,    \* the files still to be looked at
  selected,   \* fitToLimit's selection; of chunkOrdered, the chunk being filled
  chunks,     \* chunkOrdered's result,
  oversized   \* and the files no message can hold

packing == <<pool, covered, limit, step, waiting, selected, chunks, oversized>>

PoolFiles   == 1 .. Len(pool)
Weight(s)   == FoldSeq(LAMBDA f, n : pool[f] + n, 0, s)
IsCover(f)  == covered /\ f = 1
Fits(f)     == pool[f] <= Budget

-----------------------------------------------------------------------------
\* A call of either function.
PackingInit ==
  /\ pool \in Pools /\ limit \in Limits
  /\ covered \in BOOLEAN /\ (covered => pool # <<>>)
  /\ step \in {"shuffle", "pack"}
  /\ waiting = [f \in PoolFiles |-> f]
  /\ selected = <<>> /\ chunks = <<>> /\ oversized = <<>>

\* The cover that is set aside to lead the selection; one over the budget is dropped.
Lead == IF covered /\ Fits(1) THEN <<1>> ELSE <<>>

\* fitToLimit, up to its loop: partition, shuffle, first selection.
Shuffle ==
  /\ step = "shuffle" /\ step' = "sample"
  /\ \E order \in SetToSeqs({f \in PoolFiles : ~IsCover(f)}) :
       LET first == IF Len(order) <= limit - Len(Lead) THEN Len(order) ELSE limit - Len(Lead)
       IN  /\ selected' = Lead \o SubSeq(order, 1, first)
           /\ waiting' = SubSeq(order, first + 1, Len(order))
  /\ UNCHANGED <<pool, covered, limit, chunks, oversized>>

\* The selection with the next candidate, and the candidates left.
Refilled(s) == IF waiting = <<>> THEN s ELSE Append(s, Head(waiting))
Drawn       == IF waiting = <<>> THEN <<>> ELSE Tail(waiting)

\* The position of the file to evict: the first among the largest that is no cover.  The
\* faulty variant takes one of the smallest.
Lightest ==
  CHOOSE i \in DOMAIN selected :
    /\ ~IsCover(selected[i])
    /\ \A j \in DOMAIN selected : ~IsCover(selected[j]) => pool[selected[i]] <= pool[selected[j]]
Heaviest ==
  CHOOSE i \in DOMAIN selected :
    /\ ~IsCover(selected[i])
    /\ \A j \in DOMAIN selected : ~IsCover(selected[j]) =>
         pool[selected[j]] < pool[selected[i]] \/ (pool[selected[j]] = pool[selected[i]] /\ i <= j)

\* Over the limit: the largest goes, the next candidate takes its place.  (The guard
\* of the code for a selection of covers alone is never taken: Lead fits.)
Evict ==
  /\ step = "sample" /\ Weight(selected) > Budget
  /\ \E i \in DOMAIN selected : ~IsCover(selected[i])
  /\ selected' = Refilled(RemoveAt(selected, Heaviest)) /\ waiting' = Drawn
  /\ UNCHANGED <<pool, covered, limit, step, chunks, oversized>>

\* Within the limit: the loop ends when the selection is full or the candidates are
\* used up, and else takes one more.  An empty selection is returned as nil.
Sampled ==
  /\ step = "sample" /\ Weight(selected) <= Budget
  /\ IF Len(selected) = limit \/ waiting = <<>>
     THEN step' = "sampled" /\ UNCHANGED <<selected, waiting>>
     ELSE selected' = Refilled(selected) /\ waiting' = Drawn /\ UNCHANGED step
  /\ UNCHANGED <<pool, covered, limit, chunks, oversized>>

\* Whether file f starts a new chunk; the faulty variant forgets the bytes.
FullOnCountOnly(f) == selected # <<>> /\ Len(selected) >= limit
Full(f) == selected # <<>> /\ (Len(selected) >= limit \/ Weight(selected) + pool[f] > Budget)

\* chunkOrdered, one file.
Pack ==
  /\ step = "pack" /\ waiting # <<>>
  /\ waiting' = Tail(waiting)
  /\ LET f == Head(waiting)
     IN  \/ /\ ~Fits(f) /\ oversized' = Append(oversized, f)
            /\ UNCHANGED <<selected, chunks>>
         \/ /\ Fits(f) /\ Full(f)
            /\ chunks' = Append(chunks, selected) /\ selected' = <<f>>
            /\ UNCHANGED oversized
         \/ /\ Fits(f) /\ ~Full(f) /\ selected' = Append(selected, f)
            /\ UNCHANGED <<chunks, oversized>>
  /\ UNCHANGED <<pool, covered, limit, step>>

Packed ==
  /\ step = "pack" /\ waiting = <<>> /\ step' = "packed"
  /\ chunks' = IF selected = <<>> THEN chunks ELSE Append(chunks, selected)
  /\ UNCHANGED <<pool, covered, limit, waiting, selected, oversized>>

PackingNext == Shuffle \/ Evict \/ Sampled \/ Pack \/ Packed

PackingSpec == PackingInit /\ [][PackingNext]_packing

-----------------------------------------------------------------------------
(* Properties                                                              *)

PackingTypeOK ==
  /\ pool \in Pools /\ covered \in BOOLEAN /\ limit \in Limits
  /\ step \in {"shuffle", "sample", "pack", "sampled", "packed"}
  /\ \A s \in {waiting, selected, oversized} \cup ToSet(chunks) : s \in Seq(PoolFiles) /\ IsInjective(s)

(***************************************************************************)
(* What fitToLimit selects is a message Discord takes, at most limit files *)
(* within the budget, led by the cover when that fits; it is short of that *)
(* only when every other file has been tried, and empty only when not one  *)
(* fits on its own.                                                        *)
(***************************************************************************)
SampleServes ==
  step = "sampled" =>
    /\ Weight(selected) <= Budget /\ Len(selected) <= limit
    /\ (\E f \in PoolFiles : Fits(f)) => selected # <<>>
    /\ Len(selected) = limit \/ waiting = <<>>
    /\ (covered /\ Fits(1)) => selected[1] = 1

\* Files in the order of the album, each once.
Ascending(s) == \A k, l \in DOMAIN s : k < l => s[k] < s[l]

\* A chunk that could not have taken file f as well.
NoRoom(c, f) == Len(c) = limit \/ Weight(Append(c, f)) > Budget

(***************************************************************************)
(* What chunkOrdered returns is every file once, in order: those that fit, *)
(* in the chunks, none over a limit and none cut off early, and the others *)
(* in oversized, for the notice that names them.                           *)
(***************************************************************************)
ChunksKeepEveryFile ==
  step = "packed" =>
    /\ UNION {ToSet(chunks[i]) : i \in DOMAIN chunks} = {f \in PoolFiles : Fits(f)}
    /\ ToSet(oversized) = {f \in PoolFiles : ~Fits(f)} /\ Ascending(oversized)
    /\ \A i, j \in DOMAIN chunks :
         i < j => \A f \in ToSet(chunks[i]), g \in ToSet(chunks[j]) : f < g
    /\ \A i \in DOMAIN chunks :
         /\ chunks[i] # <<>> /\ Len(chunks[i]) <= limit /\ Weight(chunks[i]) <= Budget
         /\ Ascending(chunks[i])
         /\ i + 1 \in DOMAIN chunks => NoRoom(chunks[i], chunks[i + 1][1])

================================================================================
