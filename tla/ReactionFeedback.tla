--------------------------- MODULE ReactionFeedback ----------------------------
(***************************************************************************)
(* Reaction feedback (internal/controller/discord/bot.go): a reaction to a *)
(* message a scheduled send posted raises the rating of the album it shows.*)
(* The bot remembers the latest reactMapMaxSize such messages, in memory,  *)
(* in a map and the FIFO that evicts from it.                              *)
(*                                                                         *)
(* A message is on Discord before the bot remembers it, sends and reaction *)
(* handlers are goroutines that interleave, a handler looks the album up   *)
(* under a lock and updates its row after, and a restart forgets it all.   *)
(* Previews and other posts are messages nobody ever tracks.               *)
(***************************************************************************)
EXTENDS Naturals, Sequences, FiniteSets

CONSTANTS Albums,        \* ids of albums
          Messages,      \* ids of the messages the bot posts, which Discord hands out in order
          None,          \* no album
          Cap,           \* reactMapMaxSize
          MaxReactions,  \* bound: reactions of users
          MaxUpsets      \* bound: restarts, deleted albums and failing updates

ASSUME FeedbackAssumption ==
  /\ None \notin Albums /\ Messages \subseteq Nat
  /\ Cap \in Nat \ {0} /\ MaxReactions \in Nat /\ MaxUpsets \in Nat

VARIABLES
  rating,      \* positive_rating: a function from the ids of the albums table
  onDiscord,   \* Discord: the album each posted message shows
  sending,     \* messages of scheduled sends that have not tracked them yet
  reactMap,    \* the bot's map from messages to albums
  reactQueue,  \* and its FIFO
  pending,     \* per album, handlers between their lookup and their UPDATE
  tracked,     \* history: the messages tracked since the start, in order
  due,         \* history: reactions that ought to count, per album
  reactions, upsets

memory == <<reactMap, reactQueue, tracked>>
vars   == <<rating, onDiscord, sending, reactMap, reactQueue, pending, tracked, due, reactions,
            upsets>>

Rows       == DOMAIN rating
InQueue(q) == {q[i] : i \in 1 .. Len(q)}

\* The Cap messages tracked last.
Latest == {tracked[i] : i \in {j \in 1 .. Len(tracked) : j + Cap > Len(tracked)}}

Init ==
  /\ rating = [a \in Albums |-> 0]
  /\ onDiscord = [m \in {} |-> None] /\ sending = {}
  /\ reactMap = [m \in {} |-> None] /\ reactQueue = <<>>
  /\ pending = [a \in Albums |-> 0]
  /\ tracked = <<>> /\ due = [a \in Albums |-> 0]
  /\ reactions = 0 /\ upsets = 0

\* A delivery succeeds, of a scheduled send or another: Discord shows a new message.
Deliver(m, a) ==
  /\ m \notin DOMAIN onDiscord /\ a \in Rows
  /\ \A x \in Messages : x < m => x \in DOMAIN onDiscord
  /\ sending' \in {sending, sending \cup {m}}
  /\ onDiscord' = [x \in DOMAIN onDiscord \cup {m} |-> IF x = m THEN a ELSE onDiscord[x]]
  /\ UNCHANGED <<rating, memory, pending, due, reactions, upsets>>

\* The FIFO with room for one more; the faulty variants drop the newest entry, and
\* make room one entry too late.
NewestOut(q) == IF Len(q) >= Cap THEN SubSeq(q, 1, Len(q) - 1) ELSE q
OneTooMany(q) == IF Len(q) > Cap THEN Tail(q) ELSE q
WithRoom(q) == IF Len(q) >= Cap THEN Tail(q) ELSE q

\* trackScheduledMsg, under reactMu: evict the oldest, then remember m.
Track(m) ==
  /\ m \in sending /\ sending' = sending \ {m}
  /\ reactQueue' = Append(WithRoom(reactQueue), m)
  /\ reactMap' = [x \in (DOMAIN reactMap \cap InQueue(WithRoom(reactQueue))) \cup {m} |->
                   IF x = m THEN onDiscord[m] ELSE reactMap[x]]
  /\ tracked' = Append(tracked, m)
  /\ UNCHANGED <<rating, onDiscord, pending, due, reactions, upsets>>

\* handleReactionAdd, its lookup under reactMu.
React(m) ==
  /\ m \in DOMAIN onDiscord
  /\ reactions < MaxReactions /\ reactions' = reactions + 1
  /\ pending' = IF m \in DOMAIN reactMap THEN [pending EXCEPT ![reactMap[m]] = @ + 1]
                                         ELSE pending
  /\ due' = IF m \in Latest THEN [due EXCEPT ![onDiscord[m]] = @ + 1] ELSE due
  /\ UNCHANGED <<rating, onDiscord, sending, memory, upsets>>

\* The rating of an album after a reaction; the faulty variant writes back a rating
\* read before, and so loses one of two reactions that overlap.
ReadBefore(a) == rating[a] + 2 - pending[a]
Raised(a) == rating[a] + 1

\* IncrRating; the row may be gone by now.
Count(a) ==
  /\ pending[a] > 0
  /\ pending' = [pending EXCEPT ![a] = @ - 1]
  /\ rating' = [b \in Rows |-> IF b = a THEN Raised(a) ELSE rating[b]]
  /\ UNCHANGED <<onDiscord, sending, memory, due, reactions, upsets>>

Upset == upsets < MaxUpsets /\ upsets' = upsets + 1

\* The UPDATE fails: the reaction is lost.
CountError(a) ==
  /\ pending[a] > 0 /\ Upset
  /\ pending' = [pending EXCEPT ![a] = @ - 1]
  /\ due' = [due EXCEPT ![a] = @ - 1]
  /\ UNCHANGED <<rating, onDiscord, sending, memory, reactions>>

\* An operator deletes the album.
DeleteAlbum(a) ==
  /\ a \in Rows /\ Upset
  /\ rating' = [b \in Rows \ {a} |-> rating[b]]
  /\ UNCHANGED <<onDiscord, sending, memory, pending, due, reactions>>

\* The bot restarts with an empty map; handlers on their way are gone, and so are
\* the sends that had posted and not yet tracked.
Restart ==
  /\ Upset
  /\ reactMap' = [m \in {} |-> None] /\ reactQueue' = <<>> /\ tracked' = <<>>
  /\ sending' = {} /\ pending' = [a \in Albums |-> 0]
  /\ due' = [a \in Albums |-> due[a] - pending[a]]
  /\ UNCHANGED <<rating, onDiscord, reactions>>

Next ==
  \/ \E m \in Messages : (\E a \in Albums : Deliver(m, a)) \/ Track(m) \/ React(m)
  \/ \E a \in Albums : Count(a) \/ CountError(a) \/ DeleteAlbum(a)
  \/ Restart

Spec == Init /\ [][Next]_vars

-----------------------------------------------------------------------------
(* Properties                                                              *)

\* Every variable has its type.
TypeOK ==
  /\ Rows \subseteq Albums /\ rating \in [Rows -> Nat]
  /\ DOMAIN onDiscord \subseteq Messages /\ onDiscord \in [DOMAIN onDiscord -> Albums]
  /\ sending \subseteq DOMAIN onDiscord
  /\ DOMAIN reactMap \subseteq Messages /\ reactMap \in [DOMAIN reactMap -> Albums]
  /\ reactQueue \in Seq(Messages) /\ tracked \in Seq(Messages)
  /\ pending \in [Albums -> Nat] /\ due \in [Albums -> Nat]
  /\ reactions \in 0 .. MaxReactions /\ upsets \in 0 .. MaxUpsets

(***************************************************************************)
(* The map holds exactly the latest scheduled messages, with the album     *)
(* each shows, and agrees with its FIFO: no entry outlives its turn, none  *)
(* leaves before it, and the memory stays within the cap.                  *)
(***************************************************************************)
RemembersTheLatest ==
  /\ DOMAIN reactMap = Latest
  /\ InQueue(reactQueue) = Latest /\ Len(reactQueue) = Cardinality(Latest)
  /\ \A m \in Latest : reactMap[m] = onDiscord[m]

(***************************************************************************)
(* A reaction to one of the latest scheduled messages counts once, for the *)
(* album the message shows, and no other reaction counts: handlers that    *)
(* overlap lose no reaction, an eviction between a lookup and its UPDATE   *)
(* neither.                                                                *)
(***************************************************************************)
ReactionsCountOnce ==
  \A a \in Rows : rating[a] + pending[a] = due[a]
================================================================================
