------------------------------- MODULE BotProofs -------------------------------
(***************************************************************************)
(* Proofs about three components that keep their own variables: reaction   *)
(* feedback, for any number of messages, albums and reactions and any cap; *)
(* the settings row, for any number of editors, edits and failures; and    *)
(* the path filters, for any folder and any paths.                         *)
(***************************************************************************)
EXTENDS ReactionFeedback, AppSettings, PathScope, FiniteSetTheorems, WellFoundedInduction, TLAPS

-----------------------------------------------------------------------------
(***************************************************************************)
(* Reaction feedback.  The FIFO is the tail of what was tracked, the map   *)
(* is the FIFO, and therefore a lookup finds exactly the reactions that    *)
(* ought to count.                                                         *)
(***************************************************************************)

\* A message is tracked once, after it was posted and when its send is through.
TrackedOnce ==
  /\ \A i \in 1 .. Len(tracked) : tracked[i] \in DOMAIN onDiscord \ sending
  /\ \A i, j \in 1 .. Len(tracked) : tracked[i] = tracked[j] => i = j

\* The FIFO is the tail of what was tracked, and shorter than the cap only while it is
\* all of it.
QueueIsTail ==
  /\ Len(reactQueue) <= Len(tracked) /\ Len(reactQueue) <= Cap
  /\ Len(reactQueue) < Cap => Len(reactQueue) = Len(tracked)
  /\ \A i \in 1 .. Len(reactQueue) :
       reactQueue[i] = tracked[Len(tracked) - Len(reactQueue) + i]

\* The map is on what the FIFO holds, and says what Discord shows.
MapIsQueue ==
  /\ DOMAIN reactMap = InQueue(reactQueue)
  /\ \A m \in DOMAIN reactMap : m \in DOMAIN onDiscord /\ reactMap[m] = onDiscord[m]

MemoryInv == TrackedOnce /\ QueueIsTail /\ MapIsQueue

\* Every handler on its way is owed.
PendingIsDue == \A a \in Albums : pending[a] <= due[a]

\* The inductive invariant.
FeedbackInv == TypeOK /\ MemoryInv /\ ReactionsCountOnce /\ PendingIsDue

-----------------------------------------------------------------------------
\* The messages tracked last are those in the FIFO.
LEMMA LatestIsQueue ==
  ASSUME TypeOK, QueueIsTail
  PROVE  Latest = InQueue(reactQueue)
<1> DEFINE n == Len(tracked)  k == Len(reactQueue)
<1>1. n \in Nat /\ k \in Nat /\ Cap \in Nat /\ k <= n /\ k <= Cap /\ (k < Cap => k = n)
  BY FeedbackAssumption DEF TypeOK, QueueIsTail
<1>2. ASSUME NEW j \in 1 .. n, j + Cap > n PROVE tracked[j] \in InQueue(reactQueue)
  <2>1. j - (n - k) \in 1 .. k /\ n - k + (j - (n - k)) = j
    BY <1>1, <1>2
  <2>2. tracked[j] = reactQueue[j - (n - k)]
    BY <2>1 DEF QueueIsTail
  <2> QED BY <2>1, <2>2 DEF InQueue
<1>3. ASSUME NEW i \in 1 .. k PROVE reactQueue[i] \in Latest
  <2>1. n - k + i \in 1 .. n /\ n - k + i + Cap > n
    BY <1>1
  <2>2. reactQueue[i] = tracked[n - k + i]
    BY DEF QueueIsTail
  <2> QED BY <2>1, <2>2 DEF Latest
<1> QED BY <1>2, <1>3 DEF Latest, InQueue

\* The FIFO names each of its messages once, so it is as long as they are many.
LEMMA QueueCounts ==
  ASSUME TypeOK, TrackedOnce, QueueIsTail
  PROVE  Len(reactQueue) = Cardinality(InQueue(reactQueue))
<1> DEFINE n == Len(tracked)  k == Len(reactQueue)  Q == InQueue(reactQueue)
           f == [i \in 1 .. k |-> reactQueue[i]]
<1>1. n \in Nat /\ k \in Nat /\ k <= n
  BY DEF TypeOK, QueueIsTail
<1>2. ASSUME NEW i \in 1 .. k, NEW j \in 1 .. k, reactQueue[i] = reactQueue[j] PROVE i = j
  <2>1. n - k + i \in 1 .. n /\ n - k + j \in 1 .. n
    BY <1>1
  <2>2. tracked[n - k + i] = tracked[n - k + j]
    BY <1>2 DEF QueueIsTail
  <2>3. n - k + i = n - k + j
    BY <2>1, <2>2 DEF TrackedOnce
  <2> QED BY <1>1, <2>3
<1>3. f \in Surjection(1 .. k, Q)
  BY DEF Surjection, InQueue
<1>4. f \in Injection(1 .. k, Q)
  BY <1>2 DEF Injection, IsInjective, InQueue
<1>5. IsFiniteSet(1 .. k) /\ Cardinality(1 .. k) = k
  <2> HIDE DEF k
  <2>1. IsFiniteSet(1 .. k) /\ Cardinality(1 .. k) = IF 1 > k THEN 0 ELSE k - 1 + 1
    BY <1>1, FS_Interval
  <2> QED BY <1>1, <2>1
<1>6. Cardinality(Q) = Cardinality(1 .. k)
  BY <1>3, <1>4, <1>5, FS_Surjection
<1> QED BY <1>5, <1>6

\* The invariant gives what the map is for.
LEMMA MemoryServes == FeedbackInv => RemembersTheLatest
BY LatestIsQueue, QueueCounts DEF FeedbackInv, MemoryInv, MapIsQueue, RemembersTheLatest

\* Making room takes at most the head away.
LEMMA RoomIsMade ==
  ASSUME NEW q \in Seq(Messages), Len(q) <= Cap
  PROVE  /\ WithRoom(q) \in Seq(Messages) /\ Len(WithRoom(q)) < Cap
         /\ Len(WithRoom(q)) = IF Len(q) = Cap THEN Len(q) - 1 ELSE Len(q)
         /\ \A i \in 1 .. Len(WithRoom(q)) : WithRoom(q)[i] = q[Len(q) - Len(WithRoom(q)) + i]
<1>1. Cap \in Nat \ {0} /\ Len(q) \in Nat
  BY FeedbackAssumption
<1>2. CASE Len(q) = Cap
  <2>1. q # <<>> /\ WithRoom(q) = Tail(q)
    BY <1>1, <1>2 DEF WithRoom
  <2>2. /\ Tail(q) \in Seq(Messages) /\ Len(Tail(q)) = Len(q) - 1
        /\ \A i \in 1 .. Len(Tail(q)) : Tail(q)[i] = q[i + 1]
    BY <2>1
  <2> QED BY <1>1, <1>2, <2>1, <2>2
<1>3. CASE Len(q) < Cap
  <2>1. WithRoom(q) = q
    BY <1>1, <1>3 DEF WithRoom
  <2> QED BY <1>1, <1>3, <2>1
<1> QED BY <1>1, <1>2, <1>3

\* Steps that leave the memory and the sends alone keep what is known of it.
LEMMA MemoryUntouched ==
  ASSUME MemoryInv, UNCHANGED <<memory, onDiscord, sending>>
  PROVE  MemoryInv'
BY DEF MemoryInv, TrackedOnce, QueueIsTail, MapIsQueue, InQueue, memory

-----------------------------------------------------------------------------
\* The invariant holds at first.
LEMMA FeedbackAtFirst == Init => FeedbackInv
<1> SUFFICES ASSUME Init PROVE FeedbackInv
  OBVIOUS
<1>1. TypeOK
  BY FeedbackAssumption DEF Init, TypeOK, Rows
<1>2. InQueue(reactQueue) = {}
  BY DEF Init, InQueue
<1>3. MemoryInv
  BY <1>2, FeedbackAssumption DEF Init, MemoryInv, TrackedOnce, QueueIsTail, MapIsQueue
<1>4. ReactionsCountOnce /\ PendingIsDue
  BY DEF Init, ReactionsCountOnce, PendingIsDue, Rows
<1> QED BY <1>1, <1>3, <1>4 DEF FeedbackInv

\* A new message is on Discord; nothing knows of it yet.
LEMMA FeedbackDeliverKeeps ==
  ASSUME FeedbackInv, NEW m \in Messages, NEW a \in Albums, Deliver(m, a)
  PROVE  FeedbackInv'
<1>1. /\ m \notin DOMAIN onDiscord /\ DOMAIN onDiscord' = DOMAIN onDiscord \cup {m}
      /\ onDiscord'[m] = a /\ \A x \in DOMAIN onDiscord : onDiscord'[x] = onDiscord[x]
  BY DEF Deliver
<1>2. TypeOK'
  <2>1. onDiscord' \in [DOMAIN onDiscord' -> Albums] /\ DOMAIN onDiscord' \subseteq Messages
    BY DEF FeedbackInv, TypeOK, Deliver
  <2>2. sending' \subseteq DOMAIN onDiscord'
    BY <1>1 DEF FeedbackInv, TypeOK, Deliver
  <2> QED BY <2>1, <2>2 DEF FeedbackInv, TypeOK, Deliver, memory, Rows
<1>3. TrackedOnce'
  BY <1>1 DEF FeedbackInv, MemoryInv, TrackedOnce, Deliver, memory
<1>4. QueueIsTail' /\ MapIsQueue'
  BY <1>1 DEF FeedbackInv, MemoryInv, QueueIsTail, MapIsQueue, InQueue, Deliver, memory
<1>5. ReactionsCountOnce' /\ PendingIsDue'
  BY DEF FeedbackInv, ReactionsCountOnce, PendingIsDue, Deliver, Rows
<1> QED BY <1>2, <1>3, <1>4, <1>5 DEF FeedbackInv, MemoryInv

\* The bot remembers one more message and, at the cap, forgets the oldest.
LEMMA TrackKeeps ==
  ASSUME FeedbackInv, NEW m \in Messages, Track(m)
  PROVE  FeedbackInv'
<1> DEFINE r == WithRoom(reactQueue)  n == Len(tracked)  k == Len(reactQueue)
<1>1. /\ m \in sending /\ m \in DOMAIN onDiscord /\ sending' = sending \ {m} /\ onDiscord' = onDiscord
      /\ reactQueue' = Append(r, m) /\ tracked' = Append(tracked, m)
      /\ reactQueue \in Seq(Messages) /\ tracked \in Seq(Messages) /\ n \in Nat /\ k \in Nat
      /\ Cap \in Nat \ {0} /\ k <= n /\ k <= Cap /\ (k < Cap => k = n)
  BY FeedbackAssumption DEF FeedbackInv, TypeOK, MemoryInv, QueueIsTail, Track
<1>2. /\ r \in Seq(Messages) /\ Len(r) \in Nat /\ Len(r) < Cap
      /\ Len(r) = IF k = Cap THEN k - 1 ELSE k
      /\ \A i \in 1 .. Len(r) : r[i] = reactQueue[k - Len(r) + i]
  BY <1>1, RoomIsMade
<1>3. /\ tracked' \in Seq(Messages) /\ Len(tracked') = n + 1 /\ tracked'[n + 1] = m
      /\ \A i \in 1 .. n : tracked'[i] = tracked[i]
  BY <1>1
<1>4. /\ reactQueue' \in Seq(Messages) /\ Len(reactQueue') = Len(r) + 1
      /\ reactQueue'[Len(r) + 1] = m /\ \A i \in 1 .. Len(r) : reactQueue'[i] = r[i]
  BY <1>1, <1>2
<1>5. TrackedOnce'
  <2>1. \A i \in 1 .. n : tracked[i] \in DOMAIN onDiscord \ sending /\ tracked[i] # m
    BY <1>1 DEF FeedbackInv, MemoryInv, TrackedOnce
  <2>2. \A i \in 1 .. Len(tracked') : tracked'[i] \in DOMAIN onDiscord' \ sending'
    BY <1>1, <1>3, <2>1
  <2>3. \A i, j \in 1 .. Len(tracked') : tracked'[i] = tracked'[j] => i = j
    BY <1>1, <1>3, <2>1 DEF FeedbackInv, MemoryInv, TrackedOnce
  <2> QED BY <2>2, <2>3 DEF TrackedOnce
<1>6. QueueIsTail'
  <2>1. \A i \in 1 .. Len(r) : r[i] = tracked[n - Len(r) + i]
    <3> TAKE i \in 1 .. Len(r)
    <3>2. k - Len(r) + i \in 1 .. k /\ n - k + (k - Len(r) + i) = n - Len(r) + i
      BY <1>1, <1>2
    <3> QED BY <1>2, <3>2 DEF FeedbackInv, MemoryInv, QueueIsTail
  <2>2. \A i \in 1 .. Len(reactQueue') :
          reactQueue'[i] = tracked'[Len(tracked') - Len(reactQueue') + i]
    <3> TAKE i \in 1 .. Len(reactQueue')
    <3>2. Len(tracked') - Len(reactQueue') + i = n - Len(r) + i
      BY <1>1, <1>2, <1>3, <1>4
    <3>3. ASSUME i = Len(r) + 1 PROVE reactQueue'[i] = tracked'[n - Len(r) + i]
      <4>1. n - Len(r) + i = n + 1
        <5>1. n \in Nat /\ Len(r) \in Nat
          BY <1>1, <1>2
        <5> HIDE DEF n, r
        <5> QED BY <3>3, <5>1
      <4>2. tracked'[n - Len(r) + i] = m
        BY <1>3, <4>1
      <4> QED BY <1>4, <3>3, <4>2
    <3>4. ASSUME i \in 1 .. Len(r) PROVE reactQueue'[i] = tracked'[n - Len(r) + i]
      <4>1. n - Len(r) + i \in 1 .. n
        BY <1>1, <1>2, <3>4
      <4>2. tracked'[n - Len(r) + i] = tracked[n - Len(r) + i]
        BY <1>3, <4>1
      <4> QED BY <1>4, <2>1, <3>4, <4>2
    <3>5. i = Len(r) + 1 \/ i \in 1 .. Len(r)
      BY <1>2, <1>4
    <3>6. reactQueue'[i] = tracked'[n - Len(r) + i]
      BY <3>3, <3>4, <3>5
    <3> QED BY <3>2, <3>6
  <2>3. /\ Len(reactQueue') <= Len(tracked') /\ Len(reactQueue') <= Cap
        /\ Len(reactQueue') < Cap => Len(reactQueue') = Len(tracked')
    BY <1>1, <1>2, <1>3, <1>4
  <2> QED BY <2>2, <2>3 DEF QueueIsTail
<1>7. InQueue(r) \subseteq InQueue(reactQueue) /\ InQueue(reactQueue') = InQueue(r) \cup {m}
  <2>1. ASSUME NEW i \in 1 .. Len(r) PROVE r[i] \in InQueue(reactQueue)
    <3>1. k - Len(r) + i \in 1 .. k
      BY <1>1, <1>2
    <3> QED BY <1>2, <3>1 DEF InQueue
  <2>2. \A i \in 1 .. Len(r) + 1 : i = Len(r) + 1 \/ i \in 1 .. Len(r)
    BY <1>2
  <2>3. Len(r) + 1 \in 1 .. Len(r) + 1 /\ 1 .. Len(r) \subseteq 1 .. Len(r) + 1
    BY <1>2
  <2>4. InQueue(reactQueue') = {reactQueue'[i] : i \in 1 .. Len(r) + 1}
    BY <1>4 DEF InQueue
  <2> QED BY <1>4, <2>1, <2>2, <2>3, <2>4 DEF InQueue
<1>8. /\ DOMAIN reactMap' = InQueue(reactQueue')
      /\ \A x \in DOMAIN reactMap' :
           reactMap'[x] = IF x = m THEN onDiscord[m] ELSE reactMap[x]
      /\ reactMap' = [x \in DOMAIN reactMap' |-> reactMap'[x]]
  BY <1>7 DEF FeedbackInv, MemoryInv, MapIsQueue, Track
<1>9. \A x \in DOMAIN reactMap' :
        x \in DOMAIN onDiscord' /\ reactMap'[x] = onDiscord'[x] /\ x \in Messages
  BY <1>1, <1>7, <1>8 DEF FeedbackInv, MemoryInv, MapIsQueue, TypeOK
<1>10. MapIsQueue'
  BY <1>8, <1>9 DEF MapIsQueue
<1>11. TypeOK'
  <2>1. reactMap' \in [DOMAIN reactMap' -> Albums] /\ DOMAIN reactMap' \subseteq Messages
    BY <1>1, <1>8, <1>9 DEF FeedbackInv, TypeOK
  <2> QED BY <1>1, <1>3, <1>4, <2>1 DEF FeedbackInv, TypeOK, Track, Rows
<1>12. ReactionsCountOnce' /\ PendingIsDue'
  BY DEF FeedbackInv, ReactionsCountOnce, PendingIsDue, Track, Rows
<1> QED BY <1>5, <1>6, <1>10, <1>11, <1>12 DEF FeedbackInv, MemoryInv

\* The counters of reactions and upsets stay within their bounds.
LEMMA RoomForOneMore ==
  ASSUME TypeOK
  PROVE  /\ reactions < MaxReactions => reactions + 1 \in 0 .. MaxReactions
         /\ upsets < MaxUpsets => upsets + 1 \in 0 .. MaxUpsets
BY FeedbackAssumption DEF TypeOK

\* A reaction is looked up: found exactly where it ought to count.
LEMMA ReactKeeps ==
  ASSUME FeedbackInv, NEW m \in Messages, React(m)
  PROVE  FeedbackInv'
<1>1. DOMAIN reactMap = Latest /\ (m \in Latest => reactMap[m] = onDiscord[m])
  BY LatestIsQueue DEF FeedbackInv, MemoryInv, MapIsQueue
<1>2. onDiscord[m] \in Albums /\ pending \in [Albums -> Nat] /\ due \in [Albums -> Nat]
  BY DEF React, FeedbackInv, TypeOK
<1>3. CASE m \in Latest
  <2>1. /\ pending' = [pending EXCEPT ![onDiscord[m]] = @ + 1]
        /\ due' = [due EXCEPT ![onDiscord[m]] = @ + 1]
    BY <1>1, <1>3 DEF React
  <2>2. TypeOK'
    <3>1. pending' \in [Albums -> Nat] /\ due' \in [Albums -> Nat]
      BY <1>2, <2>1
    <3> QED BY <3>1, RoomForOneMore DEF FeedbackInv, TypeOK, React, memory, Rows
  <2>3. \A a \in Albums : /\ pending'[a] = pending[a] + (IF a = onDiscord[m] THEN 1 ELSE 0)
                          /\ due'[a] = due[a] + (IF a = onDiscord[m] THEN 1 ELSE 0)
    BY <1>2, <2>1
  <2>4. rating' = rating /\ Rows' = Rows /\ Rows \subseteq Albums /\ rating \in [Rows -> Nat]
    BY DEF React, Rows, FeedbackInv, TypeOK
  <2>5. ReactionsCountOnce'
    BY <1>2, <2>3, <2>4 DEF FeedbackInv, ReactionsCountOnce
  <2>6. PendingIsDue'
    BY <1>2, <2>3 DEF FeedbackInv, PendingIsDue
  <2> QED BY <2>2, <2>5, <2>6, MemoryUntouched DEF FeedbackInv, React
<1>4. CASE m \notin Latest
  <2>1. pending' = pending /\ due' = due
    BY <1>1, <1>4 DEF React
  <2>2. TypeOK'
    BY <2>1, RoomForOneMore DEF FeedbackInv, TypeOK, React, memory, Rows
  <2>3. ReactionsCountOnce' /\ PendingIsDue'
    BY <2>1 DEF FeedbackInv, ReactionsCountOnce, PendingIsDue, React, Rows
  <2> QED BY <2>2, <2>3, MemoryUntouched DEF FeedbackInv, React
<1> QED BY <1>3, <1>4

\* A handler's UPDATE turns what was pending into rating, if the row is still there.
LEMMA CountKeeps ==
  ASSUME FeedbackInv, NEW a \in Albums, Count(a)
  PROVE  FeedbackInv'
<1>1. /\ pending \in [Albums -> Nat] /\ due \in [Albums -> Nat] /\ rating \in [Rows -> Nat]
      /\ Rows \subseteq Albums /\ pending[a] > 0 /\ pending' = [pending EXCEPT ![a] = @ - 1]
      /\ Rows' = Rows /\ due' = due
      /\ rating' = [b \in Rows |-> IF b = a THEN rating[a] + 1 ELSE rating[b]]
  BY DEF Count, Raised, FeedbackInv, TypeOK, Rows
<1>2. TypeOK'
  BY <1>1 DEF FeedbackInv, TypeOK, Count, memory
<1>3. ReactionsCountOnce' /\ PendingIsDue'
  BY <1>1 DEF FeedbackInv, ReactionsCountOnce, PendingIsDue
<1> QED BY <1>2, <1>3, MemoryUntouched DEF FeedbackInv, Count

\* An UPDATE that fails: neither pending nor due any more.
LEMMA CountErrorKeeps ==
  ASSUME FeedbackInv, NEW a \in Albums, CountError(a)
  PROVE  FeedbackInv'
<1>1. /\ pending \in [Albums -> Nat] /\ due \in [Albums -> Nat] /\ rating \in [Rows -> Nat]
      /\ Rows \subseteq Albums /\ pending[a] > 0 /\ pending' = [pending EXCEPT ![a] = @ - 1]
      /\ Rows' = Rows /\ due' = [due EXCEPT ![a] = @ - 1] /\ rating' = rating
      /\ pending[a] <= due[a]
  BY DEF CountError, FeedbackInv, TypeOK, Rows, PendingIsDue
<1>2. TypeOK'
  <2>1. pending' \in [Albums -> Nat] /\ due' \in [Albums -> Nat]
    BY <1>1
  <2> QED BY <1>1, <2>1, RoomForOneMore DEF FeedbackInv, TypeOK, CountError, Upset, memory
<1>3. ReactionsCountOnce' /\ PendingIsDue'
  BY <1>1 DEF FeedbackInv, ReactionsCountOnce, PendingIsDue
<1> QED BY <1>2, <1>3, MemoryUntouched DEF FeedbackInv, CountError

\* A deleted album has no rating to be right.
LEMMA FeedbackDeleteKeeps ==
  ASSUME FeedbackInv, NEW a \in Albums, DeleteAlbum(a)
  PROVE  FeedbackInv'
<1>1. Rows' = Rows \ {a} /\ \A b \in Rows' : rating'[b] = rating[b]
  BY DEF DeleteAlbum, Rows
<1>2. rating' \in [Rows' -> Nat]
  BY <1>1 DEF FeedbackInv, TypeOK, DeleteAlbum, Rows
<1>3. TypeOK'
  BY <1>1, <1>2, RoomForOneMore DEF FeedbackInv, TypeOK, DeleteAlbum, Upset, memory
<1>4. ReactionsCountOnce' /\ PendingIsDue'
  BY <1>1 DEF FeedbackInv, ReactionsCountOnce, PendingIsDue, DeleteAlbum
<1> QED BY <1>3, <1>4, MemoryUntouched DEF FeedbackInv, DeleteAlbum

\* A restart empties the memory and drops the handlers on their way.
LEMMA FeedbackRestartKeeps ==
  ASSUME FeedbackInv, Restart
  PROVE  FeedbackInv'
<1>1. /\ pending \in [Albums -> Nat] /\ due \in [Albums -> Nat]
      /\ \A a \in Albums : pending[a] <= due[a] /\ pending'[a] = 0 /\ due'[a] = due[a] - pending[a]
      /\ pending' \in [Albums -> Nat]
  BY DEF FeedbackInv, TypeOK, PendingIsDue, Restart
<1>2. due' \in [Albums -> Nat]
  BY <1>1 DEF Restart
<1>3. TypeOK'
  <2>1. reactQueue' = <<>> /\ tracked' = <<>> /\ reactMap' = [m \in {} |-> None]
    BY DEF Restart
  <2> QED BY <1>1, <1>2, <2>1, RoomForOneMore DEF FeedbackInv, TypeOK, Restart, Upset, Rows
<1>4. InQueue(reactQueue') = {}
  BY DEF Restart, InQueue
<1>5. MemoryInv'
  BY <1>4, FeedbackAssumption DEF Restart, MemoryInv, TrackedOnce, QueueIsTail, MapIsQueue
<1>6. ReactionsCountOnce' /\ PendingIsDue'
  BY <1>1, <1>2 DEF FeedbackInv, TypeOK, ReactionsCountOnce, PendingIsDue, Restart, Rows
<1> QED BY <1>3, <1>5, <1>6 DEF FeedbackInv

\* Every step keeps the invariant.
LEMMA FeedbackByEveryStep == FeedbackInv /\ [Next]_vars => FeedbackInv'
<1> SUFFICES ASSUME FeedbackInv, [Next]_vars PROVE FeedbackInv'
  OBVIOUS
<1>1. ASSUME NEW m \in Messages, NEW a \in Albums, Deliver(m, a) PROVE FeedbackInv'
  BY <1>1, FeedbackDeliverKeeps
<1>2. ASSUME NEW m \in Messages, Track(m) PROVE FeedbackInv'
  BY <1>2, TrackKeeps
<1>3. ASSUME NEW m \in Messages, React(m) PROVE FeedbackInv'
  BY <1>3, ReactKeeps
<1>4. ASSUME NEW a \in Albums, Count(a) PROVE FeedbackInv'
  BY <1>4, CountKeeps
<1>5. ASSUME NEW a \in Albums, CountError(a) PROVE FeedbackInv'
  BY <1>5, CountErrorKeeps
<1>6. ASSUME NEW a \in Albums, DeleteAlbum(a) PROVE FeedbackInv'
  BY <1>6, FeedbackDeleteKeeps
<1>7. CASE Restart BY <1>7, FeedbackRestartKeeps
<1>8. CASE UNCHANGED vars
  <2>1. TypeOK' /\ ReactionsCountOnce' /\ PendingIsDue'
    BY <1>8 DEF vars, memory, FeedbackInv, TypeOK, ReactionsCountOnce, PendingIsDue, Rows
  <2> QED BY <1>8, <2>1, MemoryUntouched DEF vars, memory, FeedbackInv
<1>9. ASSUME NEW m \in Messages, (\E a \in Albums : Deliver(m, a)) \/ Track(m) \/ React(m)
      PROVE  FeedbackInv'
  BY <1>1, <1>2, <1>3, <1>9
<1>10. ASSUME NEW a \in Albums, Count(a) \/ CountError(a) \/ DeleteAlbum(a)
       PROVE  FeedbackInv'
  BY <1>4, <1>5, <1>6, <1>10
<1> QED BY <1>7, <1>8, <1>9, <1>10 DEF Next

-----------------------------------------------------------------------------
\* Every variable of the feedback keeps its type.
THEOREM FeedbackTypeCorrect == Spec => []TypeOK
<1>1. FeedbackInv => TypeOK
  BY DEF FeedbackInv
<1> QED BY <1>1, FeedbackAtFirst, FeedbackByEveryStep, PTL DEF Spec

\* The map holds exactly the latest scheduled messages, with the album each shows, in no
\* more than the cap (trackScheduledMsg).
THEOREM LatestRemembered == Spec => []RemembersTheLatest
BY MemoryServes, FeedbackAtFirst, FeedbackByEveryStep, PTL DEF Spec

\* A reaction counts once and for the album shown, and no other counts
\* (handleReactionAdd and IncrRating).
THEOREM ReactionsCounted == Spec => []ReactionsCountOnce
<1>1. FeedbackInv => ReactionsCountOnce
  BY DEF FeedbackInv
<1> QED BY <1>1, FeedbackAtFirst, FeedbackByEveryStep, PTL DEF Spec

-----------------------------------------------------------------------------
(***************************************************************************)
(* The settings.  What an operator sets stays set until two edits overlap. *)
(***************************************************************************)

\* A field once given has its column, in a row that exists.
ColumnsHold ==
  \A f \in Fields : given[f] # Unset => row.found /\ (~raced => row.columns[f] = given[f])

\* The seed is written where no row is, before the first request.
SeedsFirst ==
  /\ boot = "write" => ~row.found
  /\ boot # "done" => \A e \in Editors : editor[e].pc = "idle"

\* The copy of an edit that nothing overtook is the row as it is.
CopiesAreFresh ==
  \A e \in Editors : editor[e].pc = "write" /\ ~editor[e].stale => editor[e].copy = Get

\* The inductive invariant.
KeptInv == SettingsTypeOK /\ ColumnsHold /\ SeedsFirst /\ CopiesAreFresh

-----------------------------------------------------------------------------
\* Columns with one field replaced are columns.
LEMMA OneFieldReplaced ==
  ASSUME NEW c \in Setting, NEW f \in Fields, NEW v \in ValuesOf(f)
  PROVE  /\ [c EXCEPT ![f] = v] \in Setting
         /\ [c EXCEPT ![f] = v][f] = v
         /\ \A g \in Fields : g # f => [c EXCEPT ![f] = v][g] = c[g]
<1>1. CASE f = "interval"
  BY <1>1 DEF Setting, Fields, ValuesOf
<1>2. CASE f = "style"
  BY <1>2 DEF Setting, Fields, ValuesOf
<1>3. CASE f = "key"
  BY <1>3 DEF Setting, Fields, ValuesOf
<1> QED BY <1>1, <1>2, <1>3 DEF Fields

\* Get returns columns: the row's, but for an interval the environment lends.
LEMMA GetReturnsColumns ==
  ASSUME SettingsTypeOK
  PROVE  /\ Get \in Setting
         /\ \A f \in Fields \ {"interval"} : Get[f] = row.columns[f]
         /\ row.columns.interval # Blank => Get["interval"] = row.columns["interval"]
<1>1. row.columns \in Setting /\ env \in Env
  BY DEF SettingsTypeOK
<1> QED BY <1>1 DEF Get, Or, Setting, Env, Fields

\* Values: idle locals, a blank row, and the value of an edit.
LEMMA Blanks ==
  Bare \in Setting /\ Idle \in EditorState /\ Idle.value \in ValuesOf(Idle.field)
BY DEF Bare, Idle, Setting, EditorState, Fields, ValuesOf

-----------------------------------------------------------------------------
\* The invariant holds at first.
LEMMA KeptAtFirst == SettingsInit => KeptInv
<1> SUFFICES ASSUME SettingsInit PROVE KeptInv
  OBVIOUS
<1>1. row \in [found : BOOLEAN, columns : Setting] /\ editor \in [Editors -> EditorState]
  BY Blanks DEF SettingsInit
<1>2. \A e \in Editors : editor[e].value \in ValuesOf(editor[e].field)
  BY Blanks DEF SettingsInit
<1>3. SettingsTypeOK
  <2>1. DOMAIN given = Fields /\ \A f \in Fields : given[f] \in ValuesOf(f) \cup {Unset}
    BY DEF SettingsInit
  <2>2. env \in Env /\ boot \in {"read", "write", "done"} /\ raced \in BOOLEAN
    BY DEF SettingsInit
  <2>3. edits \in 0 .. MaxEdits /\ failures \in 0 .. MaxFailures
    BY SettingsAssumption DEF SettingsInit
  <2> QED BY <1>1, <1>2, <2>1, <2>2, <2>3 DEF SettingsTypeOK
<1>4. ColumnsHold /\ SeedsFirst /\ CopiesAreFresh
  BY DEF SettingsInit, ColumnsHold, SeedsFirst, CopiesAreFresh, Idle
<1> QED BY <1>3, <1>4 DEF KeptInv

\* A read of the seed keeps it.
LEMMA SeedReadKeeps ==
  ASSUME KeptInv, SeedRead PROVE KeptInv'
<1>1. SettingsTypeOK'
  BY DEF KeptInv, SettingsTypeOK, SeedRead
<1>2. ColumnsHold' /\ SeedsFirst' /\ CopiesAreFresh'
  BY DEF KeptInv, ColumnsHold, SeedsFirst, CopiesAreFresh, SeedRead, Get
<1> QED BY <1>1, <1>2 DEF KeptInv

\* The seed of the environment fills in a row nobody has edited.
LEMMA SeedWriteKeeps ==
  ASSUME KeptInv, SeedWrite PROVE KeptInv'
<1> DEFINE seed == [Bare EXCEPT !.interval = env.interval, !.key = env.key]
<1>1. seed \in Setting
  BY DEF KeptInv, SettingsTypeOK, Env, Setting, Bare
<1>2. row' = [found |-> TRUE, columns |-> seed]
  BY DEF SeedWrite, Upsert
<1>3. SettingsTypeOK'
  BY <1>1, <1>2 DEF KeptInv, SettingsTypeOK, SeedWrite
<1>4. \A f \in Fields : given[f] = Unset
  BY DEF KeptInv, ColumnsHold, SeedsFirst, SeedWrite
<1>5. ColumnsHold' /\ SeedsFirst'
  BY <1>4 DEF ColumnsHold, SeedsFirst, SeedWrite
<1>6. CopiesAreFresh'
  BY DEF KeptInv, SeedsFirst, CopiesAreFresh, SeedWrite
<1> QED BY <1>3, <1>5, <1>6 DEF KeptInv

\* A seed that fails leaves everything as it was.
LEMMA SeedErrorKeeps ==
  ASSUME KeptInv, SeedError PROVE KeptInv'
<1>1. SettingsTypeOK'
  BY SettingsAssumption DEF KeptInv, SettingsTypeOK, SeedError, Failure
<1>2. ColumnsHold' /\ SeedsFirst' /\ CopiesAreFresh'
  BY DEF KeptInv, ColumnsHold, SeedsFirst, CopiesAreFresh, SeedError, Get
<1> QED BY <1>1, <1>2 DEF KeptInv

\* A restart forgets the edits on their way; the row and what was given stay.
LEMMA RebootKeeps ==
  ASSUME KeptInv, Reboot PROVE KeptInv'
<1>1. SettingsTypeOK'
  BY Blanks, SettingsAssumption DEF KeptInv, SettingsTypeOK, Reboot, Failure
<1>2. \A e \in Editors : editor'[e].pc = "idle"
  BY DEF Reboot, Idle
<1>3. ColumnsHold' /\ SeedsFirst' /\ CopiesAreFresh'
  BY <1>2 DEF KeptInv, ColumnsHold, SeedsFirst, CopiesAreFresh, Reboot
<1> QED BY <1>1, <1>3 DEF KeptInv

\* An edit starts from a copy of the row.
LEMMA SettingsEditKeeps ==
  ASSUME KeptInv, NEW e \in Editors, NEW f \in Fields, NEW v \in ValuesOf(f), Edit(e, f, v)
  PROVE  KeptInv'
<1> DEFINE l == [pc |-> "write", field |-> f, value |-> v, copy |-> Get, stale |-> FALSE]
<1>1. editor' = [editor EXCEPT ![e] = l] /\ Get' = Get
  BY DEF Edit, Get
<1>2. l \in EditorState
  BY GetReturnsColumns DEF KeptInv, EditorState, ValuesOf, Fields
<1>3. SettingsTypeOK'
  BY <1>1, <1>2, SettingsAssumption DEF KeptInv, SettingsTypeOK, Edit
<1>4. \A x \in Editors : editor'[x] = IF x = e THEN l ELSE editor[x]
  BY <1>1 DEF KeptInv, SettingsTypeOK
<1>5. CopiesAreFresh'
  BY <1>1, <1>4 DEF KeptInv, CopiesAreFresh
<1>6. ColumnsHold' /\ SeedsFirst'
  BY DEF KeptInv, ColumnsHold, SeedsFirst, Edit
<1> QED BY <1>3, <1>5, <1>6 DEF KeptInv

\* A write replaces the field it is for and, unless it was overtaken, no other that was
\* ever given.
LEMMA WriteKeeps ==
  ASSUME KeptInv, NEW e \in Editors, Write(e) PROVE KeptInv'
<1> DEFINE l == editor[e]
<1>1. /\ l \in EditorState /\ l.field \in Fields /\ l.value \in ValuesOf(l.field)
      /\ l.copy \in Setting /\ l.stale \in BOOLEAN
  BY DEF KeptInv, SettingsTypeOK, EditorState
<1>2. /\ Merged(l) \in Setting /\ Merged(l)[l.field] = l.value
      /\ \A g \in Fields : g # l.field => Merged(l)[g] = l.copy[g]
  BY <1>1, OneFieldReplaced DEF Merged
<1>3. row' = [found |-> TRUE, columns |-> Merged(l)] /\ raced' = (raced \/ l.stale)
  BY DEF Write, Upsert
<1>4. /\ DOMAIN given' = Fields /\ given'[l.field] = l.value
      /\ \A g \in Fields : g # l.field => given'[g] = given[g]
  BY <1>1 DEF Write, KeptInv, SettingsTypeOK
<1>5. \A x \in Editors : /\ editor'[x] \in EditorState
                         /\ editor'[x].value \in ValuesOf(editor'[x].field)
                         /\ editor'[x].pc = "write" => editor'[x].stale
  <2> TAKE x \in Editors
  <2>1. editor[x] \in EditorState /\ editor[x].value \in ValuesOf(editor[x].field)
    BY DEF KeptInv, SettingsTypeOK
  <2>2. CASE x = e \/ editor[x] = Idle
    <3>1. editor'[x] = Idle
      BY <2>2 DEF Write
    <3> QED BY <3>1, Blanks DEF Idle
  <2>3. CASE ~(x = e \/ editor[x] = Idle)
    <3>1. editor'[x] = [editor[x] EXCEPT !.stale = TRUE]
      BY <2>3 DEF Write
    <3>2. /\ [editor[x] EXCEPT !.stale = TRUE] \in EditorState
          /\ [editor[x] EXCEPT !.stale = TRUE].value = editor[x].value
          /\ [editor[x] EXCEPT !.stale = TRUE].field = editor[x].field
          /\ [editor[x] EXCEPT !.stale = TRUE].stale = TRUE
      BY <2>1 DEF EditorState
    <3> QED BY <2>1, <3>1, <3>2
  <2> QED BY <2>2, <2>3
<1>6. SettingsTypeOK'
  <2>1. row' \in [found : BOOLEAN, columns : Setting] /\ raced' \in BOOLEAN
    BY <1>1, <1>2, <1>3 DEF KeptInv, SettingsTypeOK
  <2>2. editor' \in [Editors -> EditorState]
    BY <1>5 DEF Write
  <2>3. \A f \in Fields : given'[f] \in ValuesOf(f) \cup {Unset}
    BY <1>1, <1>4 DEF KeptInv, SettingsTypeOK
  <2> QED BY <1>4, <1>5, <2>1, <2>2, <2>3 DEF KeptInv, SettingsTypeOK, Write
<1>7. ASSUME NEW g \in Fields, given'[g] # Unset
      PROVE  row'.found /\ (~raced' => row'.columns[g] = given'[g])
  <2>1. CASE g = l.field
    BY <1>2, <1>3, <1>4, <2>1
  <2>2. CASE g # l.field
    <3>1. given'[g] = given[g] /\ Merged(l)[g] = l.copy[g]
      BY <1>2, <1>4, <2>2
    <3>2. ~raced' => ~raced /\ l.copy = Get
      BY <1>1, <1>3 DEF KeptInv, CopiesAreFresh, SettingsTypeOK, Write
    <3>3. ~raced => row.columns[g] = given[g]
      BY <1>7, <3>1 DEF KeptInv, ColumnsHold
    <3>4. ~raced => Get[g] = given[g]
      <4>1. CASE g = "interval"
        BY <1>7, <3>1, <3>3, <4>1, GetReturnsColumns, SettingsAssumption
        DEF KeptInv, SettingsTypeOK, ValuesOf
      <4>2. CASE g # "interval"
        BY <3>3, <4>2, GetReturnsColumns DEF KeptInv
      <4> QED BY <4>1, <4>2
    <3> QED BY <1>3, <3>1, <3>2, <3>4
  <2> QED BY <2>1, <2>2
<1>8. ColumnsHold'
  BY <1>7 DEF ColumnsHold
<1>9. SeedsFirst' /\ CopiesAreFresh'
  BY <1>5 DEF KeptInv, SeedsFirst, CopiesAreFresh, Write
<1> QED BY <1>6, <1>8, <1>9 DEF KeptInv

\* A failing edit stores nothing.
LEMMA EditErrorKeeps ==
  ASSUME KeptInv, NEW e \in Editors, EditError(e) PROVE KeptInv'
<1>1. \A x \in Editors : editor'[x] = IF x = e THEN Idle ELSE editor[x]
  BY DEF KeptInv, SettingsTypeOK, EditError
<1>2. editor' \in [Editors -> EditorState]
  BY Blanks DEF KeptInv, SettingsTypeOK, EditError
<1>3. \A x \in Editors : editor'[x].value \in ValuesOf(editor'[x].field)
  BY <1>1, Blanks DEF KeptInv, SettingsTypeOK
<1>4. SettingsTypeOK'
  BY <1>2, <1>3, SettingsAssumption DEF KeptInv, SettingsTypeOK, EditError, Failure
<1>5. ColumnsHold' /\ Get' = Get
  BY DEF KeptInv, ColumnsHold, EditError, Get
<1>6. SeedsFirst' /\ CopiesAreFresh'
  BY <1>1, <1>5 DEF KeptInv, SeedsFirst, CopiesAreFresh, EditError, Idle
<1> QED BY <1>4, <1>5, <1>6 DEF KeptInv

\* Every step keeps the invariant.
LEMMA KeptByEveryStep == KeptInv /\ [SettingsNext]_settings => KeptInv'
<1> SUFFICES ASSUME KeptInv, [SettingsNext]_settings PROVE KeptInv'
  OBVIOUS
<1>1. CASE SeedRead BY <1>1, SeedReadKeeps
<1>2. CASE SeedWrite BY <1>2, SeedWriteKeeps
<1>3. CASE SeedError BY <1>3, SeedErrorKeeps
<1>4. CASE Reboot BY <1>4, RebootKeeps
<1>5. ASSUME NEW e \in Editors, Write(e) PROVE KeptInv'
  BY <1>5, WriteKeeps
<1>6. ASSUME NEW e \in Editors, EditError(e) PROVE KeptInv'
  BY <1>6, EditErrorKeeps
<1>7. ASSUME NEW e \in Editors, NEW f \in Fields, NEW v \in ValuesOf(f), Edit(e, f, v)
      PROVE  KeptInv'
  BY <1>7, SettingsEditKeeps
<1>8. CASE UNCHANGED settings
  BY <1>8 DEF settings, KeptInv, SettingsTypeOK, ColumnsHold, SeedsFirst, CopiesAreFresh, Get
<1> QED BY <1>1, <1>2, <1>3, <1>4, <1>5, <1>6, <1>7, <1>8 DEF SettingsNext

\* What the columns hold is what the readers of the settings find.
LEMMA ColumnsServe == KeptInv => SettingsAreKept
<1> SUFFICES ASSUME KeptInv, ~raced PROVE SettingsAreKept
  BY DEF SettingsAreKept
<1>1. ASSUME given["interval"] # Unset PROVE GetSyncInterval = given["interval"]
  BY <1>1, SettingsAssumption
  DEF KeptInv, SettingsTypeOK, ColumnsHold, GetSyncInterval, Or, ValuesOf, Fields
<1>2. ASSUME given["style"] # Unset PROVE row.columns.style = given["style"]
  BY <1>2 DEF KeptInv, ColumnsHold, Fields
<1>3. ASSUME given["key"] # Unset, NEW header \in Keys
      PROVE  Admits(header) <=> header = Or(given["key"], env.key)
  <2>1. row.columns.key = given["key"]
    BY <1>3 DEF KeptInv, ColumnsHold, Fields
  <2>2. GetIngestAPIKey = Or(given["key"], env.key) /\ header # Blank
    BY <2>1, SettingsAssumption DEF GetIngestAPIKey
  <2> QED BY <2>2 DEF Admits
<1> QED BY <1>1, <1>2, <1>3 DEF SettingsAreKept

-----------------------------------------------------------------------------
\* The settings service keeps to its types.
THEOREM SettingsTypeCorrect == SettingsSpec => []SettingsTypeOK
<1>1. KeptInv => SettingsTypeOK
  BY DEF KeptInv
<1> QED BY <1>1, KeptAtFirst, KeptByEveryStep, PTL DEF SettingsSpec

\* What an operator sets stays set through edits of the other fields, failing queries,
\* restarts and the seed, unless two edits overlapped (SetSyncInterval, SetIngestAPIKey).
THEOREM SettingsStayKept == SettingsSpec => []SettingsAreKept
BY KeptAtFirst, KeptByEveryStep, ColumnsServe, PTL DEF SettingsSpec

-----------------------------------------------------------------------------
(***************************************************************************)
(* Path filters.  What the ends of a name look like decides what is        *)
(* trimmed of it; of names that are left as they are, the three ways to    *)
(* say that a folder is under a path come to the same.                     *)
(***************************************************************************)

\* Numbers between two bounds, if there are any, have a least and a greatest one.
LEMMA BoundsExist ==
  ASSUME NEW n \in Nat, NEW T \in SUBSET (1 .. n), T # {}
  PROVE  /\ Min(T) \in T /\ \A y \in T : Min(T) <= y
         /\ Max(T) \in T /\ \A y \in T : y <= Max(T)
<1> DEFINE R == {ss \in Nat \X Nat : ss[1] < ss[2]}
<1>1. IsWellFoundedOn(R, Nat)
  BY NatLessThanWellFounded DEF OpToRel
<1>2. \A x, y \in Nat : y < x => <<y, x>> \in R
  OBVIOUS
<1> HIDE DEF R
<1>3. ASSUME NEW U, U \subseteq Nat, U # {}
      PROVE  \E x \in U : \A y \in U : x <= y
  <2>1. PICK x \in U : \A y \in U : ~ (<<y, x>> \in R)
    BY <1>1, <1>3, WFMin
  <2>2. \A y \in U : x \in Nat /\ y \in Nat /\ ~(y < x)
    BY <1>2, <1>3, <2>1
  <2> QED BY <2>2
<1>4. Min(T) \in T /\ \A y \in T : Min(T) <= y
  <2>1. T \subseteq Nat
    OBVIOUS
  <2>2. \E x \in T : \A y \in T : x <= y
    BY <1>3, <2>1
  <2> QED BY <2>2, Zenon DEF Min
<1>5. Max(T) \in T /\ \A y \in T : y <= Max(T)
  <2> DEFINE U == {n - y : y \in T}
  <2>1. U \subseteq Nat /\ U # {}
    <3>1. \A y \in T : n - y \in Nat
      OBVIOUS
    <3>2. PICK y \in T : n - y \in U
      OBVIOUS
    <3> QED BY <3>1, <3>2
  <2>2. PICK u \in U : \A v \in U : u <= v
    <3> HIDE DEF U
    <3> QED BY <1>3, <2>1
  <2>3. PICK x \in T : u = n - x
    OBVIOUS
  <2>4. ASSUME NEW y \in T
        PROVE  x >= y
    <3>1. n - x <= n - y
      BY <2>2, <2>3
    <3> QED BY <3>1
  <2>5. Max(T) \in T /\ \A y \in T : Max(T) >= y
    BY <2>4, Zenon DEF Max
  <2> QED BY <2>5
<1> QED BY <1>4, <1>5

\* A string whose ends are not cut off is left as it is, and no other is.
LEMMA TrimKeeps ==
  ASSUME NEW s \in Seq(STRING), s # <<>>, NEW cut
  PROVE  Trim(s, cut) = s <=> s[1] \notin cut /\ s[Len(s)] \notin cut
<1> DEFINE kept == {i \in DOMAIN s : s[i] \notin cut}
           n == Len(s)
<1>1. n \in Nat \ {0} /\ DOMAIN s = 1 .. n /\ 1 \in 1 .. n /\ n \in 1 .. n
  OBVIOUS
<1>2. kept \in SUBSET (1 .. n)
  BY <1>1
<1>3. CASE kept = {}
  <2>1. Trim(s, cut) = <<>>
    BY <1>3 DEF Trim
  <2>2. s[1] \in cut
    BY <1>1, <1>3
  <2> QED BY <2>1, <2>2
<1>4. CASE kept # {}
  <2>1. Trim(s, cut) = SubSeq(s, Min(kept), Max(kept))
    BY <1>4 DEF Trim
  <2>2. /\ Min(kept) \in kept /\ \A y \in kept : Min(kept) <= y
        /\ Max(kept) \in kept /\ \A y \in kept : y <= Max(kept)
    <3> HIDE DEF kept
    <3> QED BY <1>1, <1>2, <1>4, BoundsExist
  <2>3. PICK l \in kept, h \in kept :
          l = Min(kept) /\ h = Max(kept) /\ \A y \in kept : l <= y /\ y <= h
    BY <2>2
  <2>4. l \in 1 .. n /\ h \in 1 .. n /\ l <= h
    BY <1>1, <2>3
  <2>5. ASSUME Trim(s, cut) = s
        PROVE  l = 1 /\ h = n
    <3>1. Len(SubSeq(s, l, h)) = h - l + 1
      BY <1>1, <2>4
    <3>2. h - l + 1 = n
      BY <2>1, <2>3, <2>5, <3>1
    <3> QED BY <2>4, <3>2
  <2>6. ASSUME s[1] \notin cut, s[n] \notin cut
        PROVE  Trim(s, cut) = s
    <3>1. 1 \in kept /\ n \in kept
      BY <1>1, <2>6
    <3>2. l = 1 /\ h = n
      BY <1>1, <2>3, <2>4, <3>1
    <3>3. SubSeq(s, 1, n) = s
      OBVIOUS
    <3> QED BY <2>1, <2>3, <3>2, <3>3
  <2> QED BY <2>3, <2>5, <2>6
<1> QED BY <1>3, <1>4

Plain(s) == Trim(s, {" ", "/"}) = s

\* Of a plain name nothing is trimmed.
LEMMA PlainStays ==
  ASSUME NEW s \in Seq(STRING), Plain(s)
  PROVE  Trimmed(s) = s /\ Trim(s, {"/"}) = s
<1>1. CASE s = <<>>
  BY <1>1 DEF Trimmed, Trim
<1>2. CASE s # <<>>
  <2>1. s[1] \notin {" ", "/"} /\ s[Len(s)] \notin {" ", "/"}
    BY <1>2, TrimKeeps DEF Plain
  <2>2. Trim(s, {" "}) = s
    <3>1. s[1] \notin {" "} /\ s[Len(s)] \notin {" "}
      BY <2>1
    <3> QED BY <1>2, <3>1, TrimKeeps
  <2>3. Trim(s, {"/"}) = s
    <3>1. s[1] \notin {"/"} /\ s[Len(s)] \notin {"/"}
      BY <2>1
    <3> QED BY <1>2, <3>1, TrimKeeps
  <2> QED BY <2>2, <2>3 DEF Trimmed
<1> QED BY <1>1, <1>2

\* That folder s is q or below it, a character at a time and in lower case.
Below(s, q) ==
  /\ Len(s) >= Len(q) /\ \A i \in 1 .. Len(q) : Lower(s[i]) = Lower(q[i])
  /\ Len(s) # Len(q) => s[Len(q) + 1] = "/"

\* Characters, with those a definition names: that they are strings is more than the provers
\* know.
Chars == STRING \cup {"a", "/"}

LEMMA LowerIs ==
  ASSUME NEW s \in Seq(STRING)
  PROVE  /\ ToLower(s) \in Seq(Chars) /\ Len(ToLower(s)) = Len(s)
         /\ \A i \in 1 .. Len(s) : ToLower(s)[i] = Lower(s[i]) /\ (Lower(s[i]) = "/" <=> s[i] = "/")
<1>1. \A i \in DOMAIN s : Lower(s[i]) \in Chars /\ (Lower(s[i]) = "/" <=> s[i] = "/")
  <2>1. "a" \in Chars /\ "a" # "/" /\ "A" # "/"
    BY DEF Chars
  <2>2. \A i \in DOMAIN s : s[i] \in Chars
    BY DEF Chars
  <2> QED BY <2>1, <2>2, Zenon DEF Lower
<1>2. DOMAIN s = 1 .. Len(s) /\ Len(s) \in Nat
  OBVIOUS
<1> QED BY <1>1, <1>2 DEF ToLower

\* pathIsUnder.
LEMMA MatchesIsBelow ==
  ASSUME NEW s \in Seq(STRING), NEW q \in Seq(STRING), Plain(s), Plain(q), q # <<>>
  PROVE  pathIsUnder(s, q) <=> Below(s, q)
<1> DEFINE ls == ToLower(s)
           lq == ToLower(q)
           pre == Append(lq, "/")
<1>1. /\ ls \in Seq(Chars) /\ Len(ls) = Len(s) /\ Len(s) \in Nat
      /\ \A i \in 1 .. Len(s) : ls[i] = Lower(s[i]) /\ (Lower(s[i]) = "/" <=> s[i] = "/")
  BY LowerIs
<1>2. /\ lq \in Seq(Chars) /\ Len(lq) = Len(q) /\ Len(q) \in Nat \ {0}
      /\ \A i \in 1 .. Len(q) : lq[i] = Lower(q[i])
  BY LowerIs
<1>3. pathIsUnder(s, q) <=> ls = lq \/ IsPrefix(pre, ls)
  <2>1. lq # <<>>
    BY <1>2
  <2>2. Trimmed(s) = s /\ Trimmed(q) = q
    BY PlainStays
  <2> QED BY <2>1, <2>2 DEF pathIsUnder, IsUnder
<1> HIDE DEF ls, lq
<1>4. /\ pre \in Seq(Chars) /\ Len(pre) = Len(q) + 1 /\ pre[Len(q) + 1] = "/"
      /\ \A i \in 1 .. Len(q) : pre[i] = lq[i]
  <2>1. "/" \in Chars
    BY DEF Chars
  <2> QED BY <1>2, <2>1
<1> HIDE DEF pre
<1>5. ls = lq <=> Len(s) = Len(q) /\ \A i \in 1 .. Len(q) : ls[i] = lq[i]
  BY <1>1, <1>2
<1>6. IsPrefix(pre, ls) <=>
        Len(s) >= Len(q) + 1 /\ \A i \in 1 .. Len(q) + 1 : pre[i] = ls[i]
  <2>1. CASE Len(s) >= Len(q) + 1
    <3>1. /\ SubSeq(pre, 1, Len(pre)) = pre
          /\ SubSeq(ls, 1, Len(pre)) \in Seq(Chars) /\ Len(SubSeq(ls, 1, Len(pre))) = Len(q) + 1
          /\ \A i \in 1 .. Len(q) + 1 : SubSeq(ls, 1, Len(pre))[i] = ls[i]
      BY <1>1, <1>4, <2>1
    <3>2. SubSeq(ls, 1, Len(pre)) = pre <=> \A i \in 1 .. Len(q) + 1 : pre[i] = ls[i]
      BY <1>4, <3>1
    <3> QED BY <1>1, <1>4, <2>1, <3>1, <3>2 DEF IsPrefix
  <2>2. CASE ~(Len(s) >= Len(q) + 1)
    BY <1>1, <1>4, <2>2 DEF IsPrefix
  <2> QED BY <2>1, <2>2
<1>7. ASSUME Len(s) >= Len(q)
      PROVE  \A i \in 1 .. Len(q) : i \in 1 .. Len(s)
  BY <1>1, <1>2, <1>7
<1>8. CASE Len(s) = Len(q)
  BY <1>1, <1>2, <1>3, <1>5, <1>6, <1>7, <1>8 DEF Below
<1>9. CASE Len(s) > Len(q)
  <2>1. Len(q) + 1 \in 1 .. Len(s) /\ 1 .. Len(q) + 1 = (1 .. Len(q)) \cup {Len(q) + 1}
    BY <1>1, <1>2, <1>9
  <2>2. ls[Len(q) + 1] = "/" <=> s[Len(q) + 1] = "/"
    BY <1>1, <2>1
  <2>3. IsPrefix(pre, ls) <=> s[Len(q) + 1] = "/" /\ \A i \in 1 .. Len(q) : lq[i] = ls[i]
    <3>1. Len(s) >= Len(q) + 1
      BY <1>1, <1>2, <1>9
    <3>2. (\A i \in 1 .. Len(q) + 1 : pre[i] = ls[i]) <=>
            (\A i \in 1 .. Len(q) : pre[i] = ls[i]) /\ pre[Len(q) + 1] = ls[Len(q) + 1]
      BY <2>1
    <3>3. (\A i \in 1 .. Len(q) : pre[i] = ls[i]) <=> (\A i \in 1 .. Len(q) : lq[i] = ls[i])
      BY <1>4
    <3>4. pre[Len(q) + 1] = ls[Len(q) + 1] <=> s[Len(q) + 1] = "/"
      BY <1>4, <2>2
    <3> QED BY <1>6, <3>1, <3>2, <3>3, <3>4
  <2> QED BY <1>1, <1>2, <1>3, <1>5, <1>7, <1>9, <2>3 DEF Below
<1>10. CASE Len(s) < Len(q)
  BY <1>1, <1>2, <1>3, <1>5, <1>6, <1>10 DEF Below
<1> QED BY <1>1, <1>2, <1>8, <1>9, <1>10

\* The query.
LEMMA QueryIsBelow ==
  ASSUME NEW s \in Seq(STRING), NEW q \in Seq(STRING), Plain(q), q # <<>>
  PROVE  LET lq == ToLower(Trim(q, {"/"}))
         IN  (ToLower(s) = lq \/ LikeBelow(ToLower(s), escapeLikePrefix(lq))) <=> Below(s, q)
<1> DEFINE ls == ToLower(s)
           lq == ToLower(q)
           pattern == escapeLikePrefix(lq)
<1>1. /\ ls \in Seq(Chars) /\ Len(ls) = Len(s) /\ Len(s) \in Nat
      /\ \A i \in 1 .. Len(s) : ls[i] = Lower(s[i]) /\ (Lower(s[i]) = "/" <=> s[i] = "/")
  BY LowerIs
<1>2. /\ lq \in Seq(Chars) /\ Len(lq) = Len(q) /\ Len(q) \in Nat \ {0} /\ DOMAIN lq = 1 .. Len(q)
      /\ \A i \in 1 .. Len(q) : lq[i] = Lower(q[i])
  BY LowerIs
<1>3. Trim(q, {"/"}) = q
  BY PlainStays
<1> HIDE DEF ls, lq
<1>4. /\ DOMAIN pattern = 1 .. Len(q) /\ Len(pattern) = Len(q)
      /\ \A i \in 1 .. Len(q) : ~pattern[i].wild /\ pattern[i].char = lq[i]
  BY <1>2 DEF escapeLikePrefix
<1> HIDE DEF pattern
<1>5. LikeBelow(ls, pattern) <=>
        Len(s) > Len(q) /\ ls[Len(q) + 1] = "/" /\ \A i \in 1 .. Len(q) : lq[i] = ls[i]
  BY <1>1, <1>4 DEF LikeBelow
<1>6. ls = lq <=> Len(s) = Len(q) /\ \A i \in 1 .. Len(q) : ls[i] = lq[i]
  BY <1>1, <1>2
<1>7. ASSUME Len(s) >= Len(q)
      PROVE  \A i \in 1 .. Len(q) : i \in 1 .. Len(s)
  BY <1>1, <1>2, <1>7
<1>8. (ls = lq \/ LikeBelow(ls, pattern)) <=> Below(s, q)
  <2>1. CASE Len(s) > Len(q)
    <3>1. Len(q) + 1 \in 1 .. Len(s)
      BY <1>1, <1>2, <2>1
    <3> QED BY <1>1, <1>2, <1>5, <1>6, <1>7, <2>1, <3>1 DEF Below
  <2>2. CASE ~(Len(s) > Len(q))
    BY <1>1, <1>2, <1>5, <1>6, <1>7, <2>2 DEF Below
  <2> QED BY <2>1, <2>2
<1> QED BY <1>3, <1>8 DEF ls, lq, pattern

\* The subtree.
LEMMA SubtreeIsBelow ==
  ASSUME NEW s \in Seq(STRING), NEW q \in Seq(STRING), q # <<>>
  PROVE  InSubtree(s, q) <=> Below(s, q)
<1> DEFINE lq == ToLower(q)
           cut(n) == ToLower(SubSeq(s, 1, n - 1))
<1>1. /\ lq \in Seq(Chars) /\ Len(lq) = Len(q) /\ Len(q) \in Nat \ {0} /\ Len(s) \in Nat
      /\ \A i \in 1 .. Len(q) : lq[i] = Lower(q[i])
  BY LowerIs
<1> HIDE DEF lq
<1>2. ASSUME NEW n \in 2 .. Len(s) + 1
      PROVE  cut(n) = lq <=> n - 1 = Len(q) /\ \A i \in 1 .. Len(q) : Lower(s[i]) = Lower(q[i])
  <2>1. PICK m \in 1 .. Len(s) : m = n - 1
    BY <1>1
  <2>2. PICK u \in Seq(STRING) : u = SubSeq(s, 1, m)
    <3>1. SubSeq(s, 1, m) \in Seq(STRING)
      OBVIOUS
    <3> QED BY <3>1
  <2>3. Len(u) = m /\ \A i \in 1 .. m : u[i] = s[i]
    BY <2>2
  <2>4. ToLower(u) \in Seq(Chars) /\ Len(ToLower(u)) = m /\ \A i \in 1 .. m : ToLower(u)[i] = Lower(s[i])
    BY <2>3, LowerIs
  <2>5. ToLower(u) = lq <=> m = Len(q) /\ \A i \in 1 .. Len(q) : ToLower(u)[i] = lq[i]
    BY <1>1, <2>4
  <2> QED BY <1>1, <2>1, <2>2, <2>4, <2>5
<1>3. InSubtree(s, q) <=> \E n \in Cuts(s) : n > 1 /\ cut(n) = lq
  BY DEF InSubtree, lq
<1>4. \A n \in Cuts(s) : n > 1 => n \in 2 .. Len(s) + 1
  BY <1>1 DEF Cuts
<1> HIDE DEF cut
<1>5. ASSUME InSubtree(s, q)
      PROVE  Below(s, q)
  <2>1. PICK n \in Cuts(s) : n > 1 /\ cut(n) = lq
    BY <1>3, <1>5
  <2>2. n \in 2 .. Len(s) + 1 /\ n - 1 = Len(q) /\ \A i \in 1 .. Len(q) : Lower(s[i]) = Lower(q[i])
    BY <1>2, <1>4, <2>1
  <2>3. n # Len(s) + 1 => s[n] = "/"
    BY <2>1 DEF Cuts
  <2> QED BY <1>1, <2>2, <2>3 DEF Below
<1>6. ASSUME Below(s, q)
      PROVE  InSubtree(s, q)
  <2>1. PICK n \in 2 .. Len(s) + 1 : n = Len(q) + 1
    BY <1>1, <1>6 DEF Below
  <2>2. n \in Cuts(s)
    BY <1>1, <1>6, <2>1 DEF Below, Cuts
  <2>3. cut(n) = lq
    BY <1>1, <1>2, <1>6, <2>1 DEF Below
  <2> QED BY <1>3, <2>1, <2>2, <2>3
<1> QED BY <1>5, <1>6

\* What a stored filter looks like.
ScopeTypes ==
  /\ folder \in Seq(STRING) /\ filter.paths \subseteq Seq(STRING) \ {<<>>}
  /\ \/ filter = All
     \/ filter.mode \in {"include", "exclude"} /\ filter.paths # {}
        /\ filter = [mode |-> filter.mode, paths |-> filter.paths]
  /\ verdict \in {"open", "covered", "left out"}

PlainNames == Plain(folder) /\ \A p \in filter.paths : Plain(p)

\* Matches has found the folder under none of the paths it has tried.
ScopeInv ==
  /\ ScopeTypes
  /\ PlainNames =>
       /\ verdict = "open" => filter # All /\ \A p \in filter.paths \ rest : ~Below(folder, p)
       /\ rest \subseteq filter.paths
       /\ verdict # "open" =>
            (verdict = "covered" <=>
               filter = All \/ ((\E p \in filter.paths : Below(folder, p)) <=> filter.mode = "include"))

\* A filter with plain names is as it was stored.
LEMMA StoredStays ==
  ASSUME ScopeTypes, PlainNames
  PROVE  Normalized(filter) = filter
<1>1. \A p \in filter.paths : Trimmed(p) = p /\ p # <<>>
  BY PlainStays DEF ScopeTypes, PlainNames
<1>2. {Trimmed(p) : p \in filter.paths} \ {<<>>} = filter.paths
  BY <1>1
<1>3. CASE filter = All
  BY <1>2, <1>3 DEF Normalized, All
<1>4. CASE filter # All
  BY <1>2, <1>4 DEF Normalized, ScopeTypes
<1> QED BY <1>3, <1>4

LEMMA TrimTyped ==
  ASSUME NEW s \in Seq(STRING), NEW cut
  PROVE  Trim(s, cut) \in Seq(STRING)
<1> DEFINE kept == {i \in DOMAIN s : s[i] \notin cut}
<1>1. Len(s) \in Nat /\ kept \in SUBSET (1 .. Len(s))
  OBVIOUS
<1>2. CASE kept = {}
  BY <1>2 DEF Trim
<1>3. CASE kept # {}
  <2>1. Trim(s, cut) = SubSeq(s, Min(kept), Max(kept))
    BY <1>3 DEF Trim
  <2>2. Min(kept) \in 1 .. Len(s) /\ Max(kept) \in 1 .. Len(s)
    <3> HIDE DEF kept
    <3> QED BY <1>1, <1>3, BoundsExist
  <2> HIDE DEF kept
  <2>3. PICK l \in 1 .. Len(s), h \in 1 .. Len(s) : l = Min(kept) /\ h = Max(kept)
    BY <2>2
  <2>4. SubSeq(s, l, h) \in Seq(STRING)
    OBVIOUS
  <2> QED BY <2>1, <2>3, <2>4
<1> QED BY <1>2, <1>3

\* A call of Matches, with a filter as it was stored.
LEMMA ScopeInvInit == ScopeAssumption /\ ScopingInit => ScopeInv
<1> SUFFICES ASSUME ScopeAssumption, ScopingInit
             PROVE  ScopeInv
  OBVIOUS
<1>1. PICK f \in Filters : filter = Stored(f)
  BY DEF ScopingInit
<1>2. f.mode \in {"all", "include", "exclude"} /\ f.paths \subseteq Seq(STRING)
  BY DEF ScopeAssumption
<1> DEFINE ps == {Trimmed(p) : p \in f.paths} \ {<<>>}
<1>3. ps \subseteq Seq(STRING) \ {<<>>}
  <2>1. \A p \in Seq(STRING) : Trimmed(p) \in Seq(STRING)
    BY TrimTyped DEF Trimmed
  <2> QED BY <1>2, <2>1
<1>4. \/ filter = All
      \/ f.mode # "all" /\ ps # {} /\ filter = [mode |-> f.mode, paths |-> ps]
  BY <1>1 DEF Stored, Active, Normalized, All
<1> HIDE DEF ps
<1>5. ScopeTypes
  BY <1>2, <1>3, <1>4 DEF ScopeTypes, ScopingInit, ScopeAssumption, All
<1>6. ASSUME PlainNames
      PROVE  /\ rest = filter.paths
             /\ verdict = IF filter = All THEN "covered" ELSE "open"
  <2>1. Normalized(filter) = filter
    BY <1>5, <1>6, StoredStays
  <2>2. Active(filter) <=> filter # All
    BY <1>2, <1>4, <2>1 DEF Active, All
  <2> QED BY <2>1, <2>2 DEF ScopingInit
<1> QED BY <1>5, <1>6 DEF ScopeInv

\* One iteration of its loop, and what follows it.
LEMMA ScopeInvStep ==
  ASSUME ScopeInv, [ScopingNext]_scoping
  PROVE  ScopeInv'
<1>1. CASE UNCHANGED scoping
  BY <1>1 DEF scoping, ScopeInv, ScopeTypes, PlainNames
<1>2. CASE ScopingNext
  <2>1. /\ verdict = "open" /\ UNCHANGED <<filter, folder>> /\ ScopeTypes
        /\ verdict' \in {"open", "covered", "left out"} /\ rest' \subseteq rest
    BY <1>2 DEF ScopingNext, MatchNext, MatchNone, ScopeInv
  <2>2. ScopeTypes' /\ (PlainNames' <=> PlainNames)
    BY <2>1 DEF ScopeTypes, PlainNames
  <2>3. ASSUME PlainNames
        PROVE  /\ verdict' = "open" => filter # All /\ \A p \in filter.paths \ rest' : ~Below(folder, p)
               /\ rest' \subseteq filter.paths
               /\ verdict' # "open" =>
                    (verdict' = "covered" <=>
                       filter = All \/ ((\E p \in filter.paths : Below(folder, p)) <=> filter.mode = "include"))
    <3>1. /\ filter # All /\ \A p \in filter.paths \ rest : ~Below(folder, p)
          /\ rest \subseteq filter.paths
      BY <2>1, <2>3 DEF ScopeInv
    <3>2. \A p \in filter.paths : pathIsUnder(folder, p) <=> Below(folder, p)
      BY <2>1, <2>3, MatchesIsBelow DEF ScopeTypes, PlainNames
    <3>3. CASE MatchNext
      <4>1. PICK p \in rest :
              IF pathIsUnder(folder, p)
              THEN /\ verdict' = (IF filter.mode = "include" THEN "covered" ELSE "left out")
                   /\ UNCHANGED rest
              ELSE rest' = rest \ {p} /\ UNCHANGED verdict
        BY <3>3 DEF MatchNext
      <4>2. CASE pathIsUnder(folder, p)
        BY <3>1, <3>2, <4>1, <4>2
      <4>3. CASE ~pathIsUnder(folder, p)
        BY <2>1, <3>1, <3>2, <4>1, <4>3
      <4> QED BY <4>2, <4>3
    <3>4. CASE MatchNone
      BY <3>1, <3>4 DEF MatchNone
    <3> QED BY <1>2, <3>3, <3>4 DEF ScopingNext
  <2> QED BY <2>1, <2>2, <2>3 DEF ScopeInv
<1> QED BY <1>1, <1>2

(***************************************************************************)
(* Of any folder and any filter with no blanks or slashes at the ends of   *)
(* their names, Matches (internal/entity/album_filter.go), whichever path  *)
(* it tries first, and the query's albumPathPredicate (internal/repo/      *)
(* persistent/album_postgres.go) give one answer: the subtrees the filter  *)
(* names, to whole segments and in any case.                               *)
(***************************************************************************)
THEOREM OneAnswer ==
  ASSUME ScopeAssumption
  PROVE  ScopingSpec => []FiltersAgree
<1>1. ScopingInit => ScopeInv
  BY ScopeInvInit
<1>2. ASSUME ScopeInv, [ScopingNext]_scoping
      PROVE  ScopeInv'
  BY <1>2, ScopeInvStep
<1>3. ScopeInv => FiltersAgree
  <2> SUFFICES ASSUME ScopeInv, verdict # "open", PlainNames
               PROVE  LET below == \E p \in filter.paths : InSubtree(folder, p)
                      IN  /\ verdict = "covered" <=>
                               (filter.mode = "all" \/ (below <=> filter.mode = "include"))
                          /\ albumPathPredicate <=> verdict = "covered"
    BY DEF FiltersAgree, PlainNames, Plain
  <2>1. ScopeTypes
    BY DEF ScopeInv
  <2>2. /\ Plain(folder) /\ folder \in Seq(STRING)
        /\ \A p \in filter.paths : p \in Seq(STRING) /\ p # <<>> /\ Plain(p)
    BY <2>1 DEF ScopeTypes, PlainNames
  <2>3. filter = All <=> filter.mode = "all"
    <3>1. All.mode = "all"
      BY DEF All
    <3>2. filter = All \/ filter.mode \in {"include", "exclude"}
      BY <2>1 DEF ScopeTypes
    <3> QED BY <3>1, <3>2
  <2> DEFINE under == \E p \in filter.paths : Below(folder, p)
  <2>4. verdict = "covered" <=> filter.mode = "all" \/ (under <=> filter.mode = "include")
    BY <2>3 DEF ScopeInv
  <2>5. under <=> \E p \in filter.paths : InSubtree(folder, p)
    BY <2>2, SubtreeIsBelow
  <2>6. albumPathPredicate <=> filter.mode = "all" \/ (under <=> filter.mode = "include")
    <3> DEFINE Under(p) == LET q == ToLower(Trim(p, {"/"}))
                           IN  ToLower(folder) = q \/ LikeBelow(ToLower(folder), escapeLikePrefix(q))
    <3>1. Normalized(filter) = filter
      BY <2>1, StoredStays
    <3>2. albumPathPredicate <=>
            filter.mode = "all" \/ ((\E p \in filter.paths : Under(p)) <=> filter.mode = "include")
      BY <3>1 DEF albumPathPredicate
    <3>3. \A p \in filter.paths : Under(p) <=> Below(folder, p)
      BY <2>2, QueryIsBelow
    <3> HIDE DEF Under
    <3> QED BY <3>2, <3>3
  <2> QED BY <2>4, <2>5, <2>6
<1> QED BY <1>1, <1>2, <1>3, PTL DEF ScopingSpec
================================================================================
