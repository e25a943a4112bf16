------------------------------ MODULE PathScope -------------------------------
(***************************************************************************)
(* Which albums a rule's path filter covers (internal/entity/              *)
(* album_filter.go): the notifier asks Matches, in memory, and the         *)
(* scheduled send asks PostgreSQL, with the predicate of albumPathPredicate*)
(* (internal/repo/persistent/album_postgres.go).  Both must give the same  *)
(* answer: a whole subtree, and nothing but it.                            *)
(*                                                                         *)
(* Abstractions: a string is a sequence of one-character strings, of which *)
(* Lower knows the upper-case ones that occur.  The paths of a filter are  *)
(* a set: Matches may try them in any order.  A LIKE pattern is a sequence *)
(* of literals and wildcards, of which only "_" occurs, and ends in "%".   *)
(***************************************************************************)
EXTENDS Naturals, SequencesExt

CONSTANTS Filters,   \* what an operator enters: records [mode, paths]
          Folders    \* albums.source_path, <<>> when it is not known

\* What is assumed of the constants.
ASSUME ScopeAssumption ==
  /\ \A f \in Filters : f.mode \in {"all", "include", "exclude"} /\ f.paths \subseteq Seq(STRING)
  /\ Folders \subseteq Seq(STRING)

VARIABLES
  filter,   \* delivery_rules.album_filter, as JSON stored it
  folder,   \* the album's path
  rest,     \* the paths of the filter Matches has still to try
  verdict   \* what it returns, or "open"

scoping == <<filter, folder, rest, verdict>>

Lower(c)       == IF c = "A" THEN "a" ELSE c
ToLower(s)     == [i \in DOMAIN s |-> Lower(s[i])]

\* s without the characters of cut at either end.
Trim(s, cut) ==
  LET kept == {i \in DOMAIN s : s[i] \notin cut}
  IN  IF kept = {} THEN <<>> ELSE SubSeq(s, Min(kept), Max(kept))
Trimmed(s) == Trim(Trim(s, {" "}), {"/"})

\* Normalized: a filter that names no path covers everything.
All == [mode |-> "all", paths |-> {}]
Normalized(f) ==
  LET paths == {Trimmed(p) : p \in f.paths} \ {<<>>}
  IN  IF paths = {} THEN All ELSE [mode |-> f.mode, paths |-> paths]

Active(f) == Normalized(f).mode # "all"

\* JSON, and ParseAlbumPathFilter of it.
Stored(f) == IF Active(f) THEN Normalized(f) ELSE All

ScopingInit ==
  /\ filter \in {Stored(f) : f \in Filters} /\ folder \in Folders
  /\ rest = Normalized(filter).paths
  /\ verdict = IF Active(filter) THEN "open" ELSE "covered"

\* pathIsUnder: the folder itself, or one below it.
IsUnder(p, q)   == q # <<>> /\ (p = q \/ IsPrefix(Append(q, "/"), p))

pathIsUnder(path, prefix) == IsUnder(ToLower(Trimmed(path)), ToLower(Trimmed(prefix)))

\* Matches, one iteration of its loop, and what follows it.
MatchNext ==
  /\ verdict = "open"
  /\ \E p \in rest :
       IF pathIsUnder(folder, p)
       THEN /\ verdict' = (IF filter.mode = "include" THEN "covered" ELSE "left out")
            /\ UNCHANGED rest
       ELSE rest' = rest \ {p} /\ UNCHANGED verdict
  /\ UNCHANGED <<filter, folder>>

MatchNone ==
  /\ verdict = "open" /\ rest = {}
  /\ verdict' = (IF filter.mode = "include" THEN "left out" ELSE "covered")
  /\ UNCHANGED <<filter, folder, rest>>

ScopingNext == MatchNext \/ MatchNone

ScopingSpec == ScopingInit /\ [][ScopingNext]_scoping

-----------------------------------------------------------------------------
\* escapeLikePrefix: every character stands for itself.  Unescaped, "_" is a wildcard.
Unescaped(s)        == [i \in DOMAIN s |-> [char |-> s[i], wild |-> s[i] = "_"]]
escapeLikePrefix(s) == [i \in DOMAIN s |-> [char |-> s[i], wild |-> FALSE]]

\* s LIKE pattern || '/%'.
LikeBelow(s, pattern) ==
  /\ Len(s) > Len(pattern) /\ s[Len(pattern) + 1] = "/"
  /\ \A i \in DOMAIN pattern : pattern[i].wild \/ pattern[i].char = s[i]

\* albumPathPredicate: whether the query keeps the album.
albumPathPredicate ==
  LET f       == Normalized(filter)
      Under(p) == LET q == ToLower(Trim(p, {"/"}))
                  IN  ToLower(folder) = q \/ LikeBelow(ToLower(folder), escapeLikePrefix(q))
      under   == \E p \in f.paths : Under(p)
  IN  f.mode = "all" \/ (under <=> f.mode = "include")

-----------------------------------------------------------------------------
(* Properties                                                              *)

ScopingTypeOK ==
  /\ filter.mode \in {"all", "include", "exclude"} /\ folder \in Folders
  /\ filter.paths \cup rest \subseteq Seq(STRING) \ {<<>>} /\ verdict \in {"open", "covered", "left out"}

\* The segments of a path, and whether one path leads on from another.
Cuts(s)       == {0, Len(s) + 1} \cup {i \in DOMAIN s : s[i] = "/"}
InSubtree(s, top) ==
  \E n \in Cuts(s) : n > 1 /\ ToLower(SubSeq(s, 1, n - 1)) = ToLower(top)

(***************************************************************************)
(* A filter covers the subtrees it names, down to whole segments and in    *)
(* any case: an include filter those and an exclude filter the others, an  *)
(* album of unknown path included; and the query answers as Matches does.  *)
(* Blanks at the ends of a folder's name aside, which Matches trims and    *)
(* the query does not.                                                     *)
(***************************************************************************)
FiltersAgree ==
  LET plain(s) == Trim(s, {" ", "/"}) = s
      below    == \E p \in filter.paths : InSubtree(folder, p)
  IN  (verdict # "open" /\ plain(folder) /\ \A p \in filter.paths : plain(p)) =>
        /\ verdict = "covered" <=> (filter.mode = "all" \/ (below <=> filter.mode = "include"))
        /\ albumPathPredicate <=> verdict = "covered"
================================================================================
