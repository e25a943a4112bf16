----------------------------- MODULE DeliveryProofs ----------------------------
(***************************************************************************)
(* Proofs about posting: albums (Delivery), for any number of deliveries   *)
(* that overlap, of channels, and of moves of what Discord accepts;        *)
(* discoveries (DiscoveryPosts), for any report, rules and edits of them;  *)
(* full albums (FullAlbum), of any length and page size, with any number   *)
(* of handlers, presses, edits and faults; and the samples and the chunks  *)
(* of an album (FilePacking), for files of any sizes.                      *)
(***************************************************************************)
EXTENDS Delivery, DiscoveryPosts, FullAlbum, FilePacking,
        FiniteSetTheorems, WellFoundedInduction, TLAPS

-----------------------------------------------------------------------------
(* Notices of failed sends                                                 *)

\* What a channel was last due is the last of its notices, and no notice is of the future.
LastIsRemembered ==
  \A c \in Channels :
    /\ c \in DOMAIN lastNotice <=> Len(notices[c]) > 0
    /\ c \in DOMAIN lastNotice => lastNotice[c] = notices[c][Len(notices[c])] /\ lastNotice[c] <= now

NoticeTypes ==
  /\ PostingTypeOK /\ lastNotice \in [DOMAIN lastNotice -> Nat]

NoticeInv == NoticeTypes /\ LastIsRemembered /\ NoticesAreSpaced /\ NoSendFailsQuietly

\* A step of one delivery keeps the locals of all typed.
LEMMA BecomesTyped ==
  ASSUME PostingTypeOK, NEW d \in Deliveries, NEW l \in DeliveryState, l.kept <= Len(l.files), DeliveryBecomes(d, l)
  PROVE  /\ delivery' \in [Deliveries -> DeliveryState]
         /\ \A e \in Deliveries : delivery'[e].kept <= Len(delivery'[e].files)
         /\ delivery'[d] = l /\ \A e \in Deliveries : e # d => delivery'[e] = delivery[e]
BY DEF PostingTypeOK, DeliveryBecomes

\* Of the notices of all channels, one gains the present.
LEMMA NoticeAdded ==
  ASSUME DeliveryAssumption, NoticeInv, NEW c \in Channels, Due(c), lastNotice' = Stamped(c),
         notices' = [notices EXCEPT ![c] = Append(@, now)], UNCHANGED now
  PROVE  /\ notices' \in [Channels -> Seq(0 .. MaxPostingTime)]
         /\ DOMAIN lastNotice' \subseteq Channels /\ lastNotice' \in [DOMAIN lastNotice' -> Nat]
         /\ \A x \in DOMAIN lastNotice' : lastNotice'[x] <= now
         /\ LastIsRemembered' /\ NoticesAreSpaced'
         /\ now \in ToSet(notices'[c])
         /\ \A x \in Channels : ToSet(notices[x]) \subseteq ToSet(notices'[x])
<1>1. /\ NoticeTypes /\ LastIsRemembered /\ NoticesAreSpaced
      /\ MaxPostingTime \in Nat /\ Interval \in Nat \ {0} /\ now \in 0 .. MaxPostingTime
      /\ notices \in [Channels -> Seq(0 .. MaxPostingTime)] /\ lastNotice \in [DOMAIN lastNotice -> Nat]
      /\ DOMAIN lastNotice \subseteq Channels
  BY DEF NoticeInv, NoticeTypes, PostingTypeOK, DeliveryAssumption
<1>2. /\ notices[c] \in Seq(0 .. MaxPostingTime) /\ notices'[c] = Append(notices[c], now)
      /\ \A x \in Channels : x # c => notices'[x] = notices[x]
      /\ notices' \in [Channels -> Seq(0 .. MaxPostingTime)]
  BY <1>1
<1> DEFINE n == Len(notices[c])
<1>3. /\ n \in Nat /\ Len(notices'[c]) = n + 1 /\ notices'[c][n + 1] = now
      /\ \A i \in 1 .. n : notices'[c][i] = notices[c][i] /\ notices[c][i] \in Nat
  BY <1>1, <1>2
<1>4. /\ DOMAIN lastNotice' = DOMAIN lastNotice \cup {c} /\ lastNotice'[c] = now
      /\ \A x \in DOMAIN lastNotice : x # c => lastNotice'[x] = lastNotice[x]
      /\ lastNotice' \in [DOMAIN lastNotice' -> Nat]
  BY <1>1 DEF Stamped
<1>5. \A x \in DOMAIN lastNotice' : lastNotice'[x] <= now
  BY <1>1, <1>4 DEF NoticeTypes, PostingTypeOK
<1>6. LastIsRemembered'
  <2>1. ASSUME NEW x \in Channels, x # c
        PROVE  /\ x \in DOMAIN lastNotice' <=> Len(notices'[x]) > 0
               /\ x \in DOMAIN lastNotice' =>
                    lastNotice'[x] = notices'[x][Len(notices'[x])] /\ lastNotice'[x] <= now'
    <3>1. notices'[x] = notices[x] /\ (x \in DOMAIN lastNotice' <=> x \in DOMAIN lastNotice)
      BY <1>2, <1>4, <2>1
    <3> QED BY <1>1, <1>4, <2>1, <3>1 DEF LastIsRemembered
  <2>2. /\ c \in DOMAIN lastNotice' /\ Len(notices'[c]) > 0
        /\ lastNotice'[c] = notices'[c][Len(notices'[c])] /\ lastNotice'[c] <= now'
    BY <1>1, <1>3, <1>4
  <2> QED BY <2>1, <2>2 DEF LastIsRemembered
<1>7. NoticesAreSpaced'
  <2>1. ASSUME NEW i \in 2 .. n
        PROVE  notices'[c][i] - notices'[c][i - 1] >= Interval
    <3>1. i \in 1 .. n /\ i - 1 \in 1 .. n
      BY <1>3
    <3> QED BY <1>1, <1>3, <3>1 DEF NoticesAreSpaced
  <2>2. ASSUME n > 0
        PROVE  notices'[c][n + 1] - notices'[c][n] >= Interval
    <3>1. c \in DOMAIN lastNotice /\ lastNotice[c] = notices[c][n]
      BY <1>1, <2>2 DEF LastIsRemembered
    <3>2. now - lastNotice[c] >= Interval
      BY <3>1 DEF Due
    <3> QED BY <1>3, <2>2, <3>1, <3>2
  <2>3. \A i \in 2 .. (n + 1) : notices'[c][i] - notices'[c][i - 1] >= Interval
    <3> TAKE i \in 2 .. (n + 1)
    <3>1. CASE i = n + 1
      <4>1. n > 0 /\ i - 1 = n
        BY <1>3, <3>1
      <4> QED BY <2>2, <3>1, <4>1
    <3>2. CASE i # n + 1
      <4>1. i \in 2 .. n
        BY <1>3, <3>2
      <4> QED BY <2>1, <4>1
    <3> QED BY <3>1, <3>2
  <2>4. ASSUME NEW x \in Channels, x # c
        PROVE  \A i \in 2 .. Len(notices'[x]) : notices'[x][i] - notices'[x][i - 1] >= Interval
    BY <1>1, <1>2, <2>4 DEF NoticesAreSpaced
  <2> QED BY <1>3, <2>3, <2>4 DEF NoticesAreSpaced
<1>8. now \in ToSet(notices'[c])
  BY <1>2, <1>3 DEF ToSet
<1>9. ASSUME NEW x \in Channels
      PROVE  ToSet(notices[x]) \subseteq ToSet(notices'[x])
  <2>1. CASE x = c
    BY <1>2, <1>3, <2>1 DEF ToSet
  <2>2. CASE x # c
    BY <1>2, <2>2
  <2> QED BY <2>1, <2>2
<1> QED BY <1>1, <1>2, <1>4, <1>5, <1>6, <1>7, <1>8, <1>9

\* A step that touches no notice keeps them right, if it moves no delivery to "notice" or
\* "failed" but from "notice", and no clock.
LEMMA QuietStep ==
  ASSUME DeliveryAssumption, NoticeInv, NEW d \in Deliveries, NEW l \in DeliveryState,
         l.kept <= Len(l.files), DeliveryBecomes(d, l), UNCHANGED <<lastNotice, notices, now>>,
         accepts' \in [Channels -> Accepted], trouble' \in 0 .. MaxTrouble,
         l.pc \in {"notice", "failed"} =>
           delivery[d].pc = "notice" /\ l.channel = delivery[d].channel /\ l.at = delivery[d].at
  PROVE  NoticeInv'
<1>1. PostingTypeOK /\ LastIsRemembered /\ NoticesAreSpaced /\ NoSendFailsQuietly
      /\ lastNotice \in [DOMAIN lastNotice -> Nat]
  BY DEF NoticeInv, NoticeTypes
<1>2. /\ delivery' \in [Deliveries -> DeliveryState]
      /\ \A e \in Deliveries : delivery'[e].kept <= Len(delivery'[e].files)
      /\ delivery'[d] = l /\ \A e \in Deliveries : e # d => delivery'[e] = delivery[e]
  BY <1>1, BecomesTyped
<1>3. NoticeTypes'
  BY <1>1, <1>2 DEF NoticeTypes, PostingTypeOK
<1>4. LastIsRemembered' /\ NoticesAreSpaced'
  BY <1>1 DEF LastIsRemembered, NoticesAreSpaced
<1>5. NoSendFailsQuietly'
  <2>1. ASSUME NEW e \in Deliveries, delivery'[e].pc \in {"notice", "failed"}
        PROVE  \E t \in ToSet(notices[delivery'[e].channel]) :
                 t <= delivery'[e].at /\ delivery'[e].at - t < Interval
    <3>1. /\ delivery[e].pc \in {"notice", "failed"} /\ delivery'[e].channel = delivery[e].channel
          /\ delivery'[e].at = delivery[e].at
      BY <1>2, <2>1
    <3> QED BY <1>1, <3>1 DEF NoSendFailsQuietly
  <2> QED BY <2>1 DEF NoSendFailsQuietly
<1> QED BY <1>3, <1>4, <1>5 DEF NoticeInv

\* A delivery prepares its files, or gives up on them.
LEMMA DeliverKeeps ==
  ASSUME DeliveryAssumption, NoticeInv, NEW d \in Deliveries, NEW c \in Channels, DeliverAlbum(d, c)
  PROVE  NoticeInv'
<1>1. PICK p \in {"send", "told", "quiet"}, files \in Seq(Sizes) :
        DeliveryBecomes(d, [pc |-> p, channel |-> c, files |-> files, kept |-> Len(files),
                    steady |-> TRUE, at |-> 0])
  <2>1. PICK mode \in Modes : \E o \in Prepared(mode) :
          DeliveryBecomes(d, [pc |-> o.pc, channel |-> c, files |-> o.files, kept |-> Len(o.files),
                      steady |-> TRUE, at |-> 0])
    BY DEF DeliverAlbum
  <2>2. PICK o \in Prepared(mode) :
          DeliveryBecomes(d, [pc |-> o.pc, channel |-> c, files |-> o.files, kept |-> Len(o.files),
                      steady |-> TRUE, at |-> 0])
    BY <2>1
  <2>3. Batches \cup OneFile \cup {<<>>} \subseteq Seq(Sizes)
    <3>1. Batches \subseteq Seq(Sizes)
      BY DEF DeliveryAssumption
    <3>2. \A s \in Sizes : <<s>> \in Seq(Sizes)
      OBVIOUS
    <3>3. <<>> \in Seq(Sizes)
      OBVIOUS
    <3>4. OneFile \subseteq Seq(Sizes)
      BY <3>2 DEF OneFile
    <3> QED BY <3>1, <3>3, <3>4
  <2>4. o \in ToSend(Batches \cup OneFile \cup {<<>>}) \cup GivesUp({"told", "quiet"})
    BY DEF Prepared, deliverRandom, deliverSingle, deliverComic, deliverVideo, deliverCustom,
           ToSend, GivesUp, Modes
  <2>5. o.pc \in {"send", "told", "quiet"} /\ o.files \in Seq(Sizes)
    BY <2>3, <2>4 DEF ToSend, GivesUp
  <2> QED BY <2>2, <2>5
<1> DEFINE l == [pc |-> p, channel |-> c, files |-> files, kept |-> Len(files),
                 steady |-> TRUE, at |-> 0]
<1>2. l \in DeliveryState /\ l.kept <= Len(l.files) /\ l.pc \notin {"notice", "failed"}
  BY DEF DeliveryState, PCs, DeliveryAssumption
<1>3. /\ UNCHANGED <<lastNotice, notices, now>>
      /\ accepts' \in [Channels -> Accepted] /\ trouble' \in 0 .. MaxTrouble
  BY DEF DeliverAlbum, NoticeInv, NoticeTypes, PostingTypeOK
<1>4. DeliveryBecomes(d, l)
  BY <1>1
<1> HIDE DEF l
<1> QED BY <1>2, <1>3, <1>4, QuietStep

\* The backoff sheds attachments, and neither posting nor shedding tells the channel.
LEMMA AttemptKeeps ==
  ASSUME DeliveryAssumption, NoticeInv, NEW d \in Deliveries, Attempt(d) \/ AttemptError(d) \/ Notice(d)
  PROVE  NoticeInv'
<1>1. /\ delivery[d] \in DeliveryState /\ delivery[d].kept <= Len(delivery[d].files)
      /\ MaxTrouble \in Nat /\ trouble \in 0 .. MaxTrouble /\ accepts \in [Channels -> Accepted]
  BY DEF NoticeInv, NoticeTypes, PostingTypeOK, DeliveryAssumption
<1>2. /\ UNCHANGED <<lastNotice, notices, now>>
      /\ accepts' \in [Channels -> Accepted] /\ trouble' \in 0 .. MaxTrouble
  BY <1>1 DEF Attempt, AttemptError, Notice, Trouble
<1>3. PICK l \in DeliveryState :
        /\ DeliveryBecomes(d, l) /\ l.kept <= Len(l.files)
        /\ l.pc \in {"notice", "failed"} =>
             delivery[d].pc = "notice" /\ l.channel = delivery[d].channel /\ l.at = delivery[d].at
  <2>1. CASE DeliveryBecomes(d, [delivery[d] EXCEPT !.pc = "posted"])
    <3>1. LET l == [delivery[d] EXCEPT !.pc = "posted"]
          IN  l \in DeliveryState /\ l.kept <= Len(l.files) /\ l.pc = "posted"
      BY <1>1 DEF DeliveryState, PCs
    <3> QED BY <2>1, <3>1
  <2>2. CASE /\ delivery[d].pc = "send"
             /\ DeliveryBecomes(d, [delivery[d] EXCEPT !.kept = Halved(@)])
    <3> DEFINE l == [delivery[d] EXCEPT !.kept = Halved(delivery[d].kept)]
    <3>1. delivery[d].kept \in Nat
      BY <1>1 DEF DeliveryState
    <3>2. Halved(delivery[d].kept) \in Nat /\ Halved(delivery[d].kept) <= delivery[d].kept
      BY <3>1 DEF Halved
    <3>3. l \in DeliveryState
      BY <1>1, <3>2 DEF DeliveryState
    <3>4. l.pc = "send" /\ l.files = delivery[d].files /\ l.kept = Halved(delivery[d].kept)
      BY <1>1, <2>2 DEF DeliveryState
    <3>5. Len(delivery[d].files) \in Nat
      BY <1>1 DEF DeliveryState
    <3>6. DeliveryBecomes(d, l)
      BY <2>2
    <3> HIDE DEF l
    <3> QED BY <1>1, <3>1, <3>2, <3>3, <3>4, <3>5, <3>6
  <2>3. CASE DeliveryBecomes(d, [delivery[d] EXCEPT !.pc = "refused"])
    <3>1. LET l == [delivery[d] EXCEPT !.pc = "refused"]
          IN  l \in DeliveryState /\ l.kept <= Len(l.files) /\ l.pc = "refused"
      BY <1>1 DEF DeliveryState, PCs
    <3> QED BY <2>3, <3>1
  <2>4. CASE DeliveryBecomes(d, [delivery[d] EXCEPT !.pc = "refused", !.steady = FALSE])
    <3>1. LET l == [delivery[d] EXCEPT !.pc = "refused", !.steady = FALSE]
          IN  l \in DeliveryState /\ l.kept <= Len(l.files) /\ l.pc = "refused"
      BY <1>1 DEF DeliveryState, PCs
    <3> QED BY <2>4, <3>1
  <2>5. CASE Notice(d)
    <3>1. LET l == [delivery[d] EXCEPT !.pc = "failed"]
          IN  /\ l \in DeliveryState /\ l.kept <= Len(l.files)
              /\ l.channel = delivery[d].channel /\ l.at = delivery[d].at
      BY <1>1 DEF DeliveryState, PCs
    <3> QED BY <2>5, <3>1 DEF Notice
  <2> QED BY <2>1, <2>2, <2>3, <2>4, <2>5 DEF Attempt, AttemptError
<1> QED BY <1>2, <1>3, QuietStep

\* A refused send claims the channel's notice, or finds that another claimed it.
LEMMA ClaimKeeps ==
  ASSUME DeliveryAssumption, NoticeInv, NEW d \in Deliveries, Claim(d)
  PROVE  NoticeInv'
<1> DEFINE c == delivery[d].channel
<1>1. /\ PostingTypeOK /\ LastIsRemembered /\ NoticesAreSpaced /\ NoSendFailsQuietly
      /\ lastNotice \in [DOMAIN lastNotice -> Nat] /\ MaxPostingTime \in Nat /\ Interval \in Nat \ {0}
      /\ now \in 0 .. MaxPostingTime /\ UNCHANGED <<accepts, now, trouble>>
      /\ notices \in [Channels -> Seq(0 .. MaxPostingTime)]
  BY DEF NoticeInv, NoticeTypes, PostingTypeOK, DeliveryAssumption, Claim
<1>2. delivery[d] \in DeliveryState /\ delivery[d].kept <= Len(delivery[d].files) /\ c \in Channels
  BY <1>1 DEF PostingTypeOK, DeliveryState
<1>3. PICK p \in {"notice", "failed"} :
        /\ DeliveryBecomes(d, [delivery[d] EXCEPT !.pc = p, !.at = now])
        /\ \/ /\ p = "notice" /\ Due(c) /\ lastNotice' = Stamped(c)
              /\ notices' = [notices EXCEPT ![c] = Append(@, now)]
           \/ ~Due(c) /\ UNCHANGED <<lastNotice, notices>>
  BY DEF Claim
<1> DEFINE l == [delivery[d] EXCEPT !.pc = p, !.at = now]
<1>4. l \in DeliveryState /\ l.kept <= Len(l.files) /\ l.channel = c /\ l.at = now
  BY <1>1, <1>2 DEF DeliveryState, PCs
<1>5. DeliveryBecomes(d, l)
  BY <1>3
<1> HIDE DEF l
<1>6. /\ delivery' \in [Deliveries -> DeliveryState]
      /\ \A e \in Deliveries : delivery'[e].kept <= Len(delivery'[e].files)
      /\ delivery'[d] = l /\ \A e \in Deliveries : e # d => delivery'[e] = delivery[e]
  BY <1>1, <1>4, <1>5, BecomesTyped
<1>7. /\ notices' \in [Channels -> Seq(0 .. MaxPostingTime)]
      /\ DOMAIN lastNotice' \subseteq Channels /\ lastNotice' \in [DOMAIN lastNotice' -> Nat]
      /\ \A x \in DOMAIN lastNotice' : lastNotice'[x] <= now
      /\ LastIsRemembered' /\ NoticesAreSpaced'
      /\ \E t \in ToSet(notices'[c]) : t <= now /\ now - t < Interval
      /\ \A x \in Channels : ToSet(notices[x]) \subseteq ToSet(notices'[x])
  <2>1. CASE Due(c) /\ lastNotice' = Stamped(c) /\ notices' = [notices EXCEPT ![c] = Append(@, now)]
    <3> HIDE DEF c
    <3>1. now <= now /\ now - now < Interval
      BY <1>1
    <3> QED BY <1>1, <1>2, <2>1, <3>1, NoticeAdded
  <2>2. CASE ~Due(c) /\ UNCHANGED <<lastNotice, notices>>
    <3> HIDE DEF c
    <3>1. c \in DOMAIN lastNotice /\ now - lastNotice[c] < Interval
      BY <1>1, <2>2 DEF Due
    <3>2. /\ lastNotice[c] = notices[c][Len(notices[c])] /\ lastNotice[c] <= now
          /\ Len(notices[c]) > 0
      BY <1>1, <1>2, <3>1 DEF LastIsRemembered
    <3>3. lastNotice[c] \in ToSet(notices[c])
      <4>1. Len(notices[c]) \in DOMAIN notices[c]
        BY <1>1, <1>2, <3>2
      <4> QED BY <3>2, <4>1 DEF ToSet
    <3>4. LastIsRemembered' /\ NoticesAreSpaced'
      BY <1>1, <2>2 DEF LastIsRemembered, NoticesAreSpaced
    <3>5. DOMAIN lastNotice \subseteq Channels /\ \A x \in DOMAIN lastNotice : lastNotice[x] <= now
      BY <1>1 DEF PostingTypeOK
    <3> QED BY <1>1, <2>2, <3>1, <3>2, <3>3, <3>4, <3>5
  <2> QED BY <1>3, <2>1, <2>2
<1>8. NoticeTypes'
  BY <1>1, <1>6, <1>7 DEF NoticeTypes, PostingTypeOK
<1>9. NoSendFailsQuietly'
  <2> HIDE DEF c
  <2>1. ASSUME NEW e \in Deliveries, e # d, delivery[e].pc \in {"notice", "failed"}
        PROVE  \E t \in ToSet(notices'[delivery[e].channel]) :
                 t <= delivery[e].at /\ delivery[e].at - t < Interval
    <3>1. delivery[e].channel \in Channels
      BY <1>1 DEF PostingTypeOK, DeliveryState
    <3> QED BY <1>1, <1>7, <2>1, <3>1 DEF NoSendFailsQuietly
  <2> QED BY <1>4, <1>6, <1>7, <2>1 DEF NoSendFailsQuietly
<1> QED BY <1>7, <1>8, <1>9 DEF NoticeInv

\* Time passes, and what Discord accepts moves.
LEMMA TickOrMoveKeeps ==
  ASSUME DeliveryAssumption, NoticeInv, PostingTick \/ \E c \in Channels : LimitMoves(c)
  PROVE  NoticeInv'
<1>1. /\ PostingTypeOK /\ LastIsRemembered /\ NoticesAreSpaced /\ NoSendFailsQuietly
      /\ lastNotice \in [DOMAIN lastNotice -> Nat] /\ MaxPostingTime \in Nat /\ MaxTrouble \in Nat
  BY DEF NoticeInv, NoticeTypes, DeliveryAssumption
<1>2. CASE PostingTick
  <2>1. now' \in 0 .. MaxPostingTime /\ now' = now + 1 /\ now \in 0 .. MaxPostingTime
        /\ UNCHANGED <<delivery, accepts, lastNotice, notices, trouble>>
    BY <1>1, <1>2 DEF PostingTick, PostingTypeOK
  <2>2. \A x \in DOMAIN lastNotice : lastNotice[x] <= now' /\ lastNotice[x] \in Nat
    BY <1>1, <2>1 DEF PostingTypeOK
  <2>3. NoticeTypes'
    BY <1>1, <2>1, <2>2 DEF NoticeTypes, PostingTypeOK
  <2>4. LastIsRemembered' /\ NoticesAreSpaced' /\ NoSendFailsQuietly'
    BY <1>1, <2>1, <2>2 DEF LastIsRemembered, NoticesAreSpaced, NoSendFailsQuietly
  <2> QED BY <2>3, <2>4 DEF NoticeInv
<1>3. ASSUME NEW c \in Channels, LimitMoves(c)
      PROVE  NoticeInv'
  <2>1. /\ trouble' \in 0 .. MaxTrouble /\ UNCHANGED <<lastNotice, notices, now>>
        /\ accepts' \in [Channels -> Accepted]
    BY <1>1, <1>3 DEF LimitMoves, Trouble, PostingTypeOK
  <2>2. ASSUME NEW d \in Deliveries
        PROVE  /\ delivery'[d] \in DeliveryState /\ delivery'[d].files = delivery[d].files
               /\ delivery'[d].kept = delivery[d].kept /\ delivery'[d].pc = delivery[d].pc
               /\ delivery'[d].at = delivery[d].at /\ delivery'[d].channel = delivery[d].channel
    <3>1. delivery[d] \in DeliveryState
      BY <1>1 DEF PostingTypeOK
    <3>2. delivery'[d] = [delivery[d] EXCEPT !.steady = FALSE] \/ delivery'[d] = delivery[d]
      BY <1>3 DEF LimitMoves
    <3> QED BY <3>1, <3>2 DEF DeliveryState
  <2>3. delivery' \in [Deliveries -> DeliveryState]
    BY <1>3, <2>2 DEF LimitMoves
  <2>4. NoticeTypes'
    BY <1>1, <2>1, <2>2, <2>3 DEF NoticeTypes, PostingTypeOK
  <2>5. LastIsRemembered' /\ NoticesAreSpaced'
    BY <1>1, <2>1 DEF LastIsRemembered, NoticesAreSpaced
  <2>6. NoSendFailsQuietly'
    BY <1>1, <2>1, <2>2 DEF NoSendFailsQuietly
  <2> QED BY <2>4, <2>5, <2>6 DEF NoticeInv
<1> QED BY <1>2, <1>3

\* Nothing was sent and nothing failed at the start.
LEMMA NoticeInvInit == DeliveryAssumption /\ PostingInit => NoticeInv
<1> SUFFICES ASSUME DeliveryAssumption, PostingInit
             PROVE  NoticeInv
  OBVIOUS
<1>1. (CHOOSE c \in Channels : TRUE) \in Channels
  BY DEF DeliveryAssumption
<1>2. \A d \in Deliveries : /\ delivery[d] \in DeliveryState /\ delivery[d].pc = "idle"
                            /\ delivery[d].kept = 0 /\ Len(delivery[d].files) = 0
  BY <1>1 DEF PostingInit, DeliveryState, PCs, DeliveryAssumption
<1>3. delivery \in [Deliveries -> DeliveryState]
  BY <1>2 DEF PostingInit
<1>4. /\ DOMAIN lastNotice = {} /\ notices \in [Channels -> Seq(0 .. MaxPostingTime)]
      /\ \A c \in Channels : Len(notices[c]) = 0
      /\ lastNotice \in [DOMAIN lastNotice -> Nat]
  BY DEF PostingInit
<1>5. NoticeTypes
  BY <1>2, <1>3, <1>4 DEF NoticeTypes, PostingTypeOK, PostingInit, DeliveryAssumption
<1>6. LastIsRemembered /\ NoticesAreSpaced /\ NoSendFailsQuietly
  BY <1>2, <1>4 DEF LastIsRemembered, NoticesAreSpaced, NoSendFailsQuietly
<1> QED BY <1>5, <1>6 DEF NoticeInv

\* Every step keeps the notices right.
LEMMA NoticeInvStep ==
  ASSUME DeliveryAssumption, NoticeInv, [PostingNext]_posting
  PROVE  NoticeInv'
<1>1. CASE UNCHANGED posting
  <2>1. UNCHANGED <<delivery, accepts, lastNotice, notices, now, trouble>>
    BY <1>1 DEF posting
  <2>2. NoticeTypes'
    BY <2>1 DEF NoticeInv, NoticeTypes, PostingTypeOK
  <2>3. LastIsRemembered' /\ NoticesAreSpaced' /\ NoSendFailsQuietly'
    BY <2>1 DEF NoticeInv, LastIsRemembered, NoticesAreSpaced, NoSendFailsQuietly
  <2> QED BY <2>2, <2>3 DEF NoticeInv
<1>2. ASSUME NEW d \in Deliveries, NEW c \in Channels, DeliverAlbum(d, c)
      PROVE  NoticeInv'
  BY <1>2, DeliverKeeps
<1>3. ASSUME NEW d \in Deliveries, Continue(d) \/ AttemptError(d)
      PROVE  NoticeInv'
  BY <1>3, AttemptKeeps, ClaimKeeps DEF Continue
<1> QED BY <1>1, <1>2, <1>3, TickOrMoveKeeps DEF PostingNext

(***************************************************************************)
(* However many sends fail at the same moment, in whatever channels, and   *)
(* whatever makes them fail, a channel hears of it at most once per        *)
(* interval, and of each (sendWithBackoff, noteSendFailure and             *)
(* claimFailureNotice of internal/controller/discord/bot.go).              *)
(***************************************************************************)
THEOREM ChannelsAreTold ==
  ASSUME DeliveryAssumption
  PROVE  PostingSpec => []FailuresAreTold
<1>1. PostingInit => NoticeInv
  BY NoticeInvInit
<1>2. ASSUME NoticeInv, [PostingNext]_posting
      PROVE  NoticeInv'
  BY <1>2, NoticeInvStep
<1>3. NoticeInv => FailuresAreTold
  BY DEF NoticeInv, FailuresAreTold
<1> QED BY <1>1, <1>2, <1>3, PTL DEF PostingSpec

-----------------------------------------------------------------------------
(* Discoveries                                                             *)

\* A set of numbers that is not empty has a least one.
LEMMA NatLeast ==
  ASSUME NEW T, T \subseteq Nat, T # {}
  PROVE  \E x \in T : \A y \in T : x <= y
<1> DEFINE R == {ss \in Nat \X Nat : ss[1] < ss[2]}
<1>1. IsWellFoundedOn(R, Nat)
  BY NatLessThanWellFounded DEF OpToRel
<1>2. \A x, y \in Nat : y < x => <<y, x>> \in R
  OBVIOUS
<1> HIDE DEF R
<1>3. PICK x \in T : \A y \in T : ~ (<<y, x>> \in R)
  BY <1>1, WFMin
<1>4. \A y \in T : ~ (y < x)
  BY <1>2, <1>3
<1>5. \A y \in T : x <= y
  <2> TAKE y \in T
  <2>1. ~ (y < x) /\ y \in Nat /\ x \in Nat
    BY <1>4
  <2> QED BY <2>1
<1> QED BY <1>5

Event   == [trigger : Triggers \cup {NoTrigger}, path : Paths, files : BOOLEAN, links : BOOLEAN]
Message == [event : Nat, rule : Rules, caption : BOOLEAN]

NotifyTypes ==
  /\ report \in Seq(Event) /\ initial \in BOOLEAN /\ table \in [Rules -> RuleRow]
  /\ event \in 1 .. Len(report) + 1 /\ queue \subseteq Rules /\ posted \in BOOLEAN
  /\ stage \in {"list", "rule", "attach", "link", "text"}
  /\ channel \in Seq(Message) /\ touched \subseteq Rules

\* Where the loop is: past "list" within the report and the cap, and past "rule" with a rule
\* at hand whose scope the album is in.
LoopInBounds ==
  /\ event <= EventCap + 1
  /\ stage # "list" => ~initial /\ event <= EventCap /\ event <= Len(report)
  /\ stage \in {"attach", "link", "text"} =>
       queue # {} /\ report[event].path \in table[First].scope
  /\ initial => channel = <<>>

Posted(r) == \E i \in DOMAIN channel : channel[i].event = event /\ channel[i].rule = r

\* No message is about an event or a rule still to come; posted remembers of the rule at
\* hand whether one has arrived.
MessagesInTurn ==
  /\ \A i \in DOMAIN channel : channel[i].event <= event
  /\ stage = "list" => \A i \in DOMAIN channel : channel[i].event # event
  /\ \A r \in queue : Posted(r) => stage \in {"link", "text"} /\ r = First
  /\ stage = "attach" => ~posted
  /\ stage \in {"link", "text"} => (posted <=> Posted(First))

\* An event's rule hears of it.
Match(e, r) ==
  /\ table[r].enabled /\ report[e].trigger = table[r].trigger /\ report[e].path \in table[r].scope

\* Of the rules nobody edited: those that match an event that is over have been tried, those
\* that match the present one have been or are queued, and none for an event still to come.
HeardSoFar ==
  \A r \in Rules \ touched :
    /\ \A e \in (1 .. Len(report)) \ unlisted :
         e < event => e <= EventCap /\ (<<e, r>> \in tried <=> Match(e, r))
    /\ \A e \in Nat : e > event \/ (e = event /\ stage = "list") => <<e, r>> \notin tried
    /\ stage # "list" =>
         (<<event, r>> \in tried \/ (r \in queue /\ report[event].path \in table[r].scope)
            <=> Match(event, r))

NotifyInv ==
  NotifyTypes /\ LoopInBounds /\ MessagesInTurn /\ CaptionIsSaidOnce /\ HeardSoFar

\* The first rule of a queue is in it.
LEMMA FirstQueued ==
  ASSUME NotifyAssumption, queue \subseteq Rules, queue # {}
  PROVE  First \in queue
<1>1. queue \subseteq Nat
  BY DEF NotifyAssumption
<1>2. \E x \in queue : \A y \in queue : x <= y
  BY <1>1, NatLeast
<1>3. First = CHOOSE x \in queue : \A y \in queue : x <= y
  BY DEF First, Min
<1> QED BY <1>2, <1>3

\* The report at the start.
LEMMA NotifyInvInit == NotifyAssumption /\ NotifyInit => NotifyInv
<1> SUFFICES ASSUME NotifyAssumption, NotifyInit
             PROVE  NotifyInv
  OBVIOUS
<1>1. /\ report \in Reports /\ initial \in BOOLEAN /\ table \in [Rules -> RuleRow]
      /\ event = 1 /\ queue = {} /\ stage = "list" /\ posted = FALSE
      /\ channel = <<>> /\ tried = {} /\ unlisted = {} /\ touched = {}
  BY DEF NotifyInit
<1>2. report \in Seq(Event) /\ Len(report) \in Nat /\ EventCap \in Nat /\ DOMAIN channel = {}
  <2>1. \A s \in Reports : s \in Seq(Event)
    BY DEF NotifyAssumption, Event
  <2>2. report \in Seq(Event)
    BY <1>1, <2>1
  <2>3. EventCap \in Nat
    BY DEF NotifyAssumption
  <2> QED BY <1>1, <2>2, <2>3
<1>3. NotifyTypes
  <2>1. event \in 1 .. Len(report) + 1
    BY <1>1, <1>2
  <2>2. channel \in Seq(Message)
    BY <1>1
  <2> QED BY <1>1, <1>2, <2>1, <2>2 DEF NotifyTypes
<1>4. LoopInBounds /\ MessagesInTurn
  BY <1>1, <1>2 DEF LoopInBounds, MessagesInTurn
<1>5. CaptionIsSaidOnce /\ HeardSoFar
  BY <1>1, <1>2 DEF CaptionIsSaidOnce, HeardSoFar
<1> QED BY <1>3, <1>4, <1>5 DEF NotifyInv

\* An event's rules are listed, it has none, or they cannot be.
LEMMA ListRulesKeeps ==
  ASSUME NotifyAssumption, NotifyInv, ListRules
  PROVE  NotifyInv'
<1>1. /\ NotifyTypes /\ LoopInBounds /\ MessagesInTurn /\ CaptionIsSaidOnce /\ HeardSoFar
      /\ Len(report) \in Nat /\ event \in Nat /\ EventCap \in Nat
      /\ report \in Seq(Event) /\ channel \in Seq(Message)
  BY DEF NotifyInv, NotifyTypes, NotifyAssumption
<1>2. /\ stage = "list" /\ ~initial /\ event <= Len(report) /\ event <= EventCap
      /\ UNCHANGED <<report, initial, table, posted, channel, tried, touched>>
  BY <1>1 DEF ListRules, Over
<1>3. event \in 1 .. Len(report) /\ report[event] \in Event
  BY <1>1, <1>2 DEF NotifyTypes
<1>4. \A i \in DOMAIN channel : channel[i].event \in Nat /\ channel[i].event < event
  <2> TAKE i \in DOMAIN channel
  <2>1. channel[i] \in Message
    BY <1>1
  <2>2. channel[i].event \in Nat /\ channel[i].event <= event /\ channel[i].event # event
    BY <1>1, <1>2, <2>1 DEF Message, MessagesInTurn
  <2> QED BY <1>1, <2>2
<1>5. CaptionIsSaidOnce'
  BY <1>1, <1>2 DEF CaptionIsSaidOnce
<1>6. CASE /\ event' = event + 1 /\ UNCHANGED <<queue, stage>>
           /\ \/ report[event].trigger = NoTrigger /\ UNCHANGED unlisted
              \/ unlisted' = unlisted \cup {event}
  <2>1. NotifyTypes'
    BY <1>1, <1>2, <1>3, <1>6 DEF NotifyTypes
  <2>2. LoopInBounds'
    BY <1>1, <1>2, <1>6 DEF LoopInBounds
  <2>3. \A i \in DOMAIN channel : channel[i].event <= event + 1 /\ channel[i].event # event + 1
    BY <1>1, <1>4
  <2>4. MessagesInTurn'
    BY <1>2, <1>6, <2>3 DEF MessagesInTurn, Posted
  <2>5. ASSUME NEW r \in Rules \ touched
        PROVE  /\ \A e \in (1 .. Len(report)) \ unlisted' :
                    e < event + 1 => e <= EventCap /\ (<<e, r>> \in tried <=> Match(e, r))
               /\ \A e \in Nat : e > event + 1 \/ e = event + 1 => <<e, r>> \notin tried
    <3>1. ASSUME NEW e \in (1 .. Len(report)) \ unlisted', e < event + 1
          PROVE  e <= EventCap /\ (<<e, r>> \in tried <=> Match(e, r))
      <4>1. CASE e = event
        <5>1. report[event].trigger = NoTrigger
          BY <1>6, <3>1, <4>1
        <5>2. table[r].trigger \in Triggers /\ NoTrigger \notin Triggers
          BY <1>1 DEF NotifyTypes, RuleRow, NotifyAssumption
        <5>3. ~Match(e, r) /\ <<e, r>> \notin tried
          BY <1>1, <1>2, <4>1, <5>1, <5>2 DEF Match, HeardSoFar
        <5> QED BY <1>2, <4>1, <5>3
      <4>2. CASE e # event
        <5>1. e < event /\ e \notin unlisted
          BY <1>1, <1>6, <3>1, <4>2
        <5> QED BY <1>1, <5>1 DEF HeardSoFar
      <4> QED BY <4>1, <4>2
    <3>2. ASSUME NEW e \in Nat, e > event + 1 \/ e = event + 1
          PROVE  <<e, r>> \notin tried
      <4>1. e > event
        BY <1>1, <3>2
      <4> QED BY <1>1, <4>1 DEF HeardSoFar
    <3> QED BY <3>1, <3>2
  <2>6. HeardSoFar'
    BY <1>2, <1>6, <2>5 DEF HeardSoFar, Match
  <2> QED BY <1>5, <2>1, <2>2, <2>4, <2>6 DEF NotifyInv
<1>7. CASE /\ queue' = Listening(report[event].trigger) /\ stage' = "rule"
           /\ UNCHANGED <<event, unlisted>>
  <2>1. /\ queue' \subseteq Rules
        /\ \A r \in Rules : r \in queue' <=>
             table[r].enabled /\ table[r].trigger = report[event].trigger
    BY <1>7 DEF Listening
  <2>2. NotifyTypes'
    BY <1>1, <1>2, <1>7, <2>1 DEF NotifyTypes
  <2>3. LoopInBounds'
    BY <1>1, <1>2, <1>7 DEF LoopInBounds
  <2>4. MessagesInTurn'
    BY <1>1, <1>2, <1>4, <1>7 DEF MessagesInTurn, Posted
  <2>5. ASSUME NEW r \in Rules \ touched
        PROVE  /\ \A e \in (1 .. Len(report)) \ unlisted :
                    e < event => e <= EventCap /\ (<<e, r>> \in tried <=> Match(e, r))
               /\ \A e \in Nat : e > event => <<e, r>> \notin tried
               /\ <<event, r>> \in tried \/ (r \in queue' /\ report[event].path \in table[r].scope)
                    <=> Match(event, r)
    <3>1. <<event, r>> \notin tried
      BY <1>1, <1>2 DEF HeardSoFar
    <3>2. r \in queue' /\ report[event].path \in table[r].scope <=> Match(event, r)
      BY <2>1 DEF Match
    <3>3. /\ \A e \in (1 .. Len(report)) \ unlisted :
               e < event => e <= EventCap /\ (<<e, r>> \in tried <=> Match(e, r))
          /\ \A e \in Nat : e > event => <<e, r>> \notin tried
      BY <1>1 DEF HeardSoFar
    <3> QED BY <3>1, <3>2, <3>3
  <2>6. HeardSoFar'
    BY <1>2, <1>7, <2>5 DEF HeardSoFar, Match
  <2> QED BY <1>5, <2>2, <2>3, <2>4, <2>6 DEF NotifyInv
<1>8. \/ /\ event' = event + 1 /\ UNCHANGED <<queue, stage>>
         /\ \/ report[event].trigger = NoTrigger /\ UNCHANGED unlisted
            \/ unlisted' = unlisted \cup {event}
      \/ /\ queue' = Listening(report[event].trigger) /\ stage' = "rule"
         /\ UNCHANGED <<event, unlisted>>
  BY DEF ListRules, NextEvent
<1> QED BY <1>6, <1>7, <1>8

\* What is common to the steps of the loop.
LEMMA NotifyFacts ==
  ASSUME NotifyAssumption, NotifyInv
  PROVE  /\ NotifyTypes /\ LoopInBounds /\ MessagesInTurn /\ CaptionIsSaidOnce /\ HeardSoFar
         /\ Len(report) \in Nat /\ event \in Nat /\ EventCap \in Nat
         /\ channel \in Seq(Message) /\ Len(channel) \in Nat /\ DOMAIN channel = 1 .. Len(channel)
         /\ queue # {} => First \in queue /\ First \in Rules
<1>1. NotifyTypes
  BY DEF NotifyInv
<1>2. queue # {} => First \in queue
  BY <1>1, FirstQueued DEF NotifyTypes
<1>3. LoopInBounds /\ MessagesInTurn /\ CaptionIsSaidOnce /\ HeardSoFar
  BY DEF NotifyInv
<1>4. EventCap \in Nat
  BY DEF NotifyAssumption
<1>5. /\ report \in Seq(Event) /\ channel \in Seq(Message) /\ queue \subseteq Rules
      /\ event \in 1 .. Len(report) + 1
  BY <1>1 DEF NotifyTypes
<1>6. /\ Len(report) \in Nat /\ Len(channel) \in Nat /\ DOMAIN channel = 1 .. Len(channel)
  BY <1>5
<1>7. event \in Nat
  BY <1>5, <1>6
<1> QED BY <1>1, <1>2, <1>3, <1>4, <1>5, <1>6, <1>7

\* The next rule is at hand, is passed over for its scope, or there is none.
LEMMA NextRuleKeeps ==
  ASSUME NotifyAssumption, NotifyInv, NextRule
  PROVE  NotifyInv'
<1>1. /\ NotifyTypes /\ LoopInBounds /\ MessagesInTurn /\ CaptionIsSaidOnce /\ HeardSoFar
      /\ Len(report) \in Nat /\ event \in Nat /\ EventCap \in Nat
      /\ channel \in Seq(Message) /\ Len(channel) \in Nat /\ DOMAIN channel = 1 .. Len(channel)
      /\ queue # {} => First \in queue /\ First \in Rules
  BY NotifyFacts
<1>2. /\ stage = "rule" /\ ~initial /\ event <= EventCap /\ event <= Len(report)
      /\ UNCHANGED <<report, initial, table, channel, tried, unlisted, touched>>
  BY <1>1 DEF NextRule, LoopInBounds
<1>3. CaptionIsSaidOnce'
  BY <1>1, <1>2 DEF CaptionIsSaidOnce
<1>4. \A r \in queue : ~Posted(r)
  BY <1>1, <1>2 DEF MessagesInTurn
<1>5. CASE queue = {} /\ event' = event + 1 /\ stage' = "list" /\ UNCHANGED <<queue, posted>>
  <2>1. NotifyTypes'
    BY <1>1, <1>2, <1>5 DEF NotifyTypes
  <2>2. LoopInBounds'
    BY <1>1, <1>2, <1>5 DEF LoopInBounds
  <2>3. \A i \in DOMAIN channel : channel[i].event <= event + 1 /\ channel[i].event # event + 1
    <3> TAKE i \in DOMAIN channel
    <3>1. channel[i] \in Message
      BY <1>1
    <3>2. channel[i].event \in Nat /\ channel[i].event <= event
      BY <1>1, <3>1 DEF Message, MessagesInTurn
    <3> QED BY <1>1, <3>2
  <2>4. MessagesInTurn'
    BY <1>2, <1>5, <2>3 DEF MessagesInTurn, Posted
  <2>5. ASSUME NEW r \in Rules \ touched
        PROVE  /\ \A e \in (1 .. Len(report)) \ unlisted :
                    e < event + 1 => e <= EventCap /\ (<<e, r>> \in tried <=> Match(e, r))
               /\ \A e \in Nat : e > event + 1 \/ e = event + 1 => <<e, r>> \notin tried
    <3>1. ASSUME NEW e \in (1 .. Len(report)) \ unlisted, e < event + 1
          PROVE  e <= EventCap /\ (<<e, r>> \in tried <=> Match(e, r))
      <4>1. CASE e = event
        <5>1. <<event, r>> \in tried <=> Match(event, r)
          BY <1>1, <1>2, <1>5 DEF HeardSoFar
        <5> QED BY <1>2, <4>1, <5>1
      <4>2. CASE e # event
        <5>1. e < event
          BY <1>1, <3>1, <4>2
        <5> QED BY <1>1, <5>1 DEF HeardSoFar
      <4> QED BY <4>1, <4>2
    <3>2. ASSUME NEW e \in Nat, e > event + 1 \/ e = event + 1
          PROVE  <<e, r>> \notin tried
      <4>1. e > event
        BY <1>1, <3>2
      <4> QED BY <1>1, <4>1 DEF HeardSoFar
    <3> QED BY <3>1, <3>2
  <2>6. HeardSoFar'
    BY <1>2, <1>5, <2>5 DEF HeardSoFar, Match
  <2> QED BY <1>3, <2>1, <2>2, <2>4, <2>6 DEF NotifyInv
<1>6. CASE /\ queue # {} /\ report[event].path \notin table[First].scope
           /\ queue' = queue \ {First} /\ UNCHANGED <<event, stage, posted>>
  <2>1. NotifyTypes' /\ LoopInBounds'
    BY <1>1, <1>2, <1>6 DEF NotifyTypes, LoopInBounds
  <2>2. MessagesInTurn'
    <3>1. \A r \in queue' : ~Posted(r)
      BY <1>4, <1>6
    <3> QED BY <1>1, <1>2, <1>6, <3>1 DEF MessagesInTurn, Posted
  <2>3. \A r \in Rules : (r \in queue' /\ report[event].path \in table[r].scope)
                         <=> (r \in queue /\ report[event].path \in table[r].scope)
    BY <1>6
  <2>4. HeardSoFar'
    BY <1>1, <1>2, <1>6, <2>3 DEF HeardSoFar, Match
  <2> QED BY <1>3, <2>1, <2>2, <2>4 DEF NotifyInv
<1>7. CASE /\ queue # {} /\ report[event].path \in table[First].scope
           /\ stage' = "attach" /\ posted' = FALSE /\ UNCHANGED <<event, queue>>
  <2>1. First' = First
    BY <1>7 DEF First
  <2>2. NotifyTypes' /\ LoopInBounds'
    BY <1>1, <1>2, <1>7, <2>1 DEF NotifyTypes, LoopInBounds
  <2>3. MessagesInTurn'
    BY <1>1, <1>2, <1>4, <1>7, <2>1 DEF MessagesInTurn, Posted
  <2>4. HeardSoFar'
    BY <1>1, <1>2, <1>7 DEF HeardSoFar, Match
  <2> QED BY <1>3, <2>2, <2>3, <2>4 DEF NotifyInv
<1> QED BY <1>5, <1>6, <1>7 DEF NextRule

\* A message for the rule at hand arrives, captioned if it is the first.
LEMMA ArrivalTold ==
  ASSUME NotifyAssumption, NotifyInv, queue # {}, NEW caption \in BOOLEAN,
         caption <=> ~Posted(First), Arrives(caption)
  PROVE  /\ channel' \in Seq(Message) /\ CaptionIsSaidOnce'
         /\ DOMAIN channel \subseteq DOMAIN channel'
         /\ \A i \in DOMAIN channel : channel'[i] = channel[i]
         /\ \A i \in DOMAIN channel' : i \in DOMAIN channel \/
              (channel'[i].event = event /\ channel'[i].rule = First)
         /\ \E i \in DOMAIN channel' : channel'[i].event = event /\ channel'[i].rule = First
<1> DEFINE m == [event |-> event, rule |-> First, caption |-> caption]
<1>1. /\ CaptionIsSaidOnce /\ event \in Nat
      /\ channel \in Seq(Message) /\ Len(channel) \in Nat /\ DOMAIN channel = 1 .. Len(channel)
      /\ First \in Rules
  BY NotifyFacts
<1>2. /\ m \in Message /\ m.event = event /\ m.rule = First
  BY <1>1 DEF Message
<1>3. m.caption <=> ~Posted(First)
  OBVIOUS
<1>4. channel' = Append(channel, m)
  BY DEF Arrives
<1> HIDE DEF m
<1>5. /\ channel' \in Seq(Message) /\ DOMAIN channel' = 1 .. (Len(channel) + 1)
      /\ \A i \in 1 .. Len(channel) : channel'[i] = channel[i]
      /\ channel'[Len(channel) + 1] = m
  BY <1>1, <1>2, <1>4
<1>6. CaptionIsSaidOnce'
  <2>1. ASSUME NEW i \in 1 .. Len(channel)
        PROVE  channel'[i].caption <=> \A j \in 1 .. i - 1 :
                 <<channel'[j].event, channel'[j].rule>> # <<channel'[i].event, channel'[i].rule>>
    <3>1. \A j \in 1 .. i - 1 : j \in 1 .. Len(channel)
      BY <1>1
    <3>2. channel[i].caption <=> \A j \in 1 .. i - 1 :
            <<channel[j].event, channel[j].rule>> # <<channel[i].event, channel[i].rule>>
      BY <1>1 DEF CaptionIsSaidOnce
    <3> QED BY <1>5, <3>1, <3>2
  <2>2. LET i == Len(channel) + 1
        IN  channel'[i].caption <=> \A j \in 1 .. i - 1 :
              <<channel'[j].event, channel'[j].rule>> # <<channel'[i].event, channel'[i].rule>>
    <3>1. Len(channel) + 1 - 1 = Len(channel)
      BY <1>1
    <3>2. Posted(First) <=>
            \E j \in 1 .. Len(channel) : channel'[j].event = event /\ channel'[j].rule = First
      BY <1>1, <1>5 DEF Posted
    <3> QED BY <1>2, <1>3, <1>5, <3>1, <3>2
  <2>3. \A i \in 1 .. (Len(channel) + 1) : i \in 1 .. Len(channel) \/ i = Len(channel) + 1
    BY <1>1
  <2> QED BY <1>5, <2>1, <2>2, <2>3 DEF CaptionIsSaidOnce
<1> QED BY <1>1, <1>2, <1>5, <1>6

\* A message that is attached, or that links, goes out or does not; the last says it in words,
\* and the rule has been tried.
LEMMA SendingKeeps ==
  ASSUME NotifyAssumption, NotifyInv, Attach \/ Link \/ Text
  PROVE  NotifyInv'
<1> DEFINE first == First
           Sent  == /\ channel' \in Seq(Message) /\ CaptionIsSaidOnce'
                    /\ posted' \in BOOLEAN
                    /\ \A i \in DOMAIN channel' : channel'[i].event <= event
                    /\ \A r : (\E i \in DOMAIN channel' : channel'[i].event = event /\ channel'[i].rule = r)
                                <=> Posted(r) \/ (posted' /\ r = first)
<1>1. /\ NotifyTypes /\ LoopInBounds /\ MessagesInTurn /\ CaptionIsSaidOnce /\ HeardSoFar
      /\ Len(report) \in Nat /\ event \in Nat /\ EventCap \in Nat
      /\ channel \in Seq(Message) /\ Len(channel) \in Nat /\ DOMAIN channel = 1 .. Len(channel)
      /\ queue # {} => first \in queue /\ first \in Rules
  BY NotifyFacts
<1>2. /\ stage \in {"attach", "link", "text"}
      /\ UNCHANGED <<report, initial, table, event, unlisted, touched>>
      /\ \/ Attach /\ stage = "attach" /\ stage' = "link" /\ UNCHANGED <<queue, tried>>
         \/ Link /\ stage = "link" /\ stage' = "text" /\ UNCHANGED <<queue, tried>>
         \/ /\ Text /\ stage = "text" /\ stage' = "rule" /\ queue' = queue \ {first}
            /\ tried' = tried \cup {<<event, first>>}
  BY DEF Attach, Link, Text
<1>3. /\ queue # {} /\ first \in queue /\ first \in Rules /\ report[event].path \in table[first].scope
      /\ ~initial /\ event <= EventCap /\ event <= Len(report)
  BY <1>1, <1>2 DEF LoopInBounds
<1>4. posted \in BOOLEAN /\ (posted <=> Posted(first))
  <2>1. posted \in BOOLEAN
    BY <1>1 DEF NotifyTypes
  <2>2. CASE stage = "attach"
    BY <1>1, <1>3, <2>1, <2>2 DEF MessagesInTurn
  <2>3. CASE stage # "attach"
    BY <1>1, <1>2, <2>1, <2>3 DEF MessagesInTurn
  <2> QED BY <2>1, <2>2, <2>3
<1>5. \/ posted' = TRUE /\ \E caption \in BOOLEAN : (caption <=> ~Posted(first)) /\ Arrives(caption)
      \/ UNCHANGED <<channel, posted>>
  <2>1. CASE Attach
    <3>1. ~posted /\ (Arrives(TRUE) \/ UNCHANGED <<channel, posted>>)
      BY <1>1, <2>1 DEF Attach, Fails, MessagesInTurn
    <3> QED BY <1>4, <3>1 DEF Arrives
  <2>2. CASE Link
    <3>1. Arrives(~posted) \/ UNCHANGED <<channel, posted>>
      BY <2>2 DEF Link, Fails, LinkCaption
    <3>2. (~posted) \in BOOLEAN
      OBVIOUS
    <3>3. ~posted <=> ~Posted(first)
      BY <1>4
    <3>4. Arrives(~posted) => posted' = TRUE
      BY DEF Arrives
    <3> QED BY <3>1, <3>2, <3>3, <3>4
  <2>3. CASE Text
    <3>1. (~posted /\ Arrives(TRUE)) \/ UNCHANGED <<channel, posted>>
      BY <2>3 DEF Text, Fails
    <3> QED BY <1>4, <3>1 DEF Arrives
  <2> QED BY <2>1, <2>2, <2>3
<1>6. Sent
  <2>1. \A i \in DOMAIN channel : channel[i].event <= event
    BY <1>1 DEF MessagesInTurn
  <2>2. ASSUME NEW caption \in BOOLEAN, caption <=> ~Posted(first), Arrives(caption),
               posted' = TRUE
        PROVE  Sent
    <3>1. /\ channel' \in Seq(Message) /\ CaptionIsSaidOnce'
          /\ DOMAIN channel \subseteq DOMAIN channel'
          /\ \A i \in DOMAIN channel : channel'[i] = channel[i]
          /\ \A i \in DOMAIN channel' : i \in DOMAIN channel \/
               (channel'[i].event = event /\ channel'[i].rule = first)
          /\ \E i \in DOMAIN channel' : channel'[i].event = event /\ channel'[i].rule = first
      BY <1>3, <2>2, ArrivalTold
    <3> HIDE DEF first
    <3>2. \A i \in DOMAIN channel' : channel'[i].event <= event
      BY <1>1, <2>1, <3>1
    <3>3. \A r : (\E i \in DOMAIN channel' : channel'[i].event = event /\ channel'[i].rule = r)
                   <=> Posted(r) \/ r = first
      BY <3>1 DEF Posted
    <3> QED BY <2>2, <3>1, <3>2, <3>3
  <2>3. CASE UNCHANGED <<channel, posted>>
    <3>1. CaptionIsSaidOnce'
      BY <1>1, <2>3 DEF CaptionIsSaidOnce
    <3>2. \A r : Posted(r) <=> \E i \in DOMAIN channel' : channel'[i].event = event /\ channel'[i].rule = r
      BY <2>3 DEF Posted
    <3> HIDE DEF first
    <3> QED BY <1>1, <1>4, <2>1, <2>3, <3>1, <3>2
  <2> QED BY <1>5, <2>2, <2>3
<1>7. NotifyTypes'
  BY <1>1, <1>2, <1>6 DEF NotifyTypes
<1>8. CASE UNCHANGED <<queue, tried>> /\ stage' \in {"link", "text"}
  <2>1. First' = first
    BY <1>8 DEF First
  <2>2. LoopInBounds'
    BY <1>1, <1>2, <1>3, <1>8, <2>1 DEF LoopInBounds
  <2>3. \A r \in queue : Posted(r) => r = first
    BY <1>1 DEF MessagesInTurn
  <2>4. Posted(first) => posted'
    BY <1>4, <1>5
  <2>5. MessagesInTurn'
    <3> HIDE DEF first
    <3> QED BY <1>2, <1>6, <1>8, <2>1, <2>3, <2>4 DEF MessagesInTurn, Posted
  <2>6. HeardSoFar'
    BY <1>1, <1>2, <1>8 DEF HeardSoFar, Match
  <2> QED BY <1>6, <1>7, <2>2, <2>5, <2>6 DEF NotifyInv
<1>9. CASE /\ stage' = "rule" /\ queue' = queue \ {first} /\ tried' = tried \cup {<<event, first>>}
  <2>1. LoopInBounds'
    BY <1>1, <1>2, <1>3, <1>9 DEF LoopInBounds
  <2>2. \A r \in queue' : ~Posted(r)
    BY <1>1, <1>9 DEF MessagesInTurn
  <2>3. MessagesInTurn'
    <3> HIDE DEF first
    <3> QED BY <1>2, <1>6, <1>9, <2>2 DEF MessagesInTurn, Posted
  <2>4. ASSUME NEW r \in Rules \ touched
        PROVE  /\ \A e \in (1 .. Len(report)) \ unlisted :
                    e < event => e <= EventCap /\ (<<e, r>> \in tried' <=> Match(e, r))
               /\ \A e \in Nat : e > event => <<e, r>> \notin tried'
               /\ <<event, r>> \in tried' \/ (r \in queue' /\ report[event].path \in table[r].scope)
                    <=> Match(event, r)
    <3> HIDE DEF first
    <3>1. \A e \in Nat : e # event => (<<e, r>> \in tried' <=> <<e, r>> \in tried)
      BY <1>9
    <3>2. \A e \in (1 .. Len(report)) \ unlisted :
            e < event => e <= EventCap /\ (<<e, r>> \in tried <=> Match(e, r))
      BY <1>1 DEF HeardSoFar
    <3>3. \A e \in Nat : e > event => <<e, r>> \notin tried
      BY <1>1 DEF HeardSoFar
    <3>4. <<event, r>> \in tried \/ (r \in queue /\ report[event].path \in table[r].scope)
            <=> Match(event, r)
      BY <1>1, <1>2 DEF HeardSoFar
    <3>5. <<event, r>> \in tried' \/ (r \in queue' /\ report[event].path \in table[r].scope)
            <=> Match(event, r)
      BY <1>3, <1>9, <3>4
    <3>6. \A e \in 1 .. Len(report) : e \in Nat /\ (e < event => e # event)
      BY <1>1
    <3>7. \A e \in Nat : e > event => e # event
      BY <1>1
    <3> QED BY <3>1, <3>2, <3>3, <3>5, <3>6, <3>7
  <2>5. HeardSoFar'
    BY <1>2, <1>9, <2>4 DEF HeardSoFar, Match
  <2> QED BY <1>6, <1>7, <2>1, <2>3, <2>5 DEF NotifyInv
<1> QED BY <1>2, <1>8, <1>9

\* An operator's edit takes its rule out of account.
LEMMA ToggleKeeps ==
  ASSUME NotifyAssumption, NotifyInv, NEW t \in Rules, Toggle(t)
  PROVE  NotifyInv'
<1>1. /\ NotifyTypes /\ LoopInBounds /\ MessagesInTurn /\ CaptionIsSaidOnce /\ HeardSoFar
      /\ Len(report) \in Nat /\ event \in Nat /\ EventCap \in Nat
  BY NotifyFacts
<1>2. /\ touched' = touched \cup {t} /\ table' = [table EXCEPT ![t].enabled = ~@]
      /\ UNCHANGED <<report, initial, event, queue, stage, posted, channel, tried, unlisted>>
  BY DEF Toggle
<1>3. table \in [Rules -> RuleRow]
  BY <1>1 DEF NotifyTypes
<1>4. [table[t] EXCEPT !.enabled = ~@] \in RuleRow
  <2>1. table[t] \in RuleRow
    BY <1>3
  <2> QED BY <2>1 DEF RuleRow
<1>5. table' = [table EXCEPT ![t] = [table[t] EXCEPT !.enabled = ~@]]
  BY <1>2
<1>6. /\ table' \in [Rules -> RuleRow]
      /\ \A r \in Rules : r # t => table'[r] = table[r]
      /\ \A r \in Rules : table'[r].scope = table[r].scope
  <2>1. table[t] \in RuleRow
    BY <1>3
  <2>2. [table[t] EXCEPT !.enabled = ~@].scope = table[t].scope
    BY <2>1 DEF RuleRow
  <2> DEFINE new == [table[t] EXCEPT !.enabled = ~@]
  <2>3. table' = [table EXCEPT ![t] = new] /\ new \in RuleRow /\ new.scope = table[t].scope
    BY <1>4, <1>5, <2>2
  <2> HIDE DEF new
  <2> QED BY <1>3, <2>3
<1>7. First' = First
  BY <1>2 DEF First
<1>8. NotifyTypes'
  BY <1>1, <1>2, <1>6 DEF NotifyTypes
<1>9. LoopInBounds'
  <2>1. queue # {} => First \in Rules
    BY NotifyFacts
  <2> QED BY <1>1, <1>2, <1>6, <1>7, <2>1 DEF LoopInBounds
<1>10. MessagesInTurn' /\ CaptionIsSaidOnce'
  BY <1>1, <1>2, <1>7 DEF MessagesInTurn, Posted, CaptionIsSaidOnce
<1>11. HeardSoFar'
  <2>1. ASSUME NEW r \in Rules \ touched'
        PROVE  r \in Rules \ touched /\ table'[r] = table[r]
    BY <1>2, <1>6
  <2> QED BY <1>1, <1>2, <2>1 DEF HeardSoFar, Match
<1> QED BY <1>8, <1>9, <1>10, <1>11 DEF NotifyInv

\* The loop's invariant, step by step.
LEMMA NotifyInvNext ==
  ASSUME NotifyAssumption, NotifyInv, [NotifyNext]_(notifying)
  PROVE  NotifyInv'
<1>1. CASE UNCHANGED notifying
  <2>1. UNCHANGED <<report, initial, table, event, queue, stage, posted, channel, tried, unlisted, touched>>
    BY <1>1 DEF notifying
  <2>2. NotifyTypes' /\ LoopInBounds'
    BY <2>1 DEF NotifyInv, NotifyTypes, LoopInBounds, First
  <2>3. MessagesInTurn' /\ CaptionIsSaidOnce' /\ HeardSoFar'
    BY <2>1 DEF NotifyInv, MessagesInTurn, Posted, CaptionIsSaidOnce, HeardSoFar, Match,
                First
  <2> QED BY <2>2, <2>3 DEF NotifyInv
<1>2. CASE Attach \/ Link \/ Text
  BY <1>2, SendingKeeps
<1>3. ASSUME NEW t \in Rules, Toggle(t)
      PROVE  NotifyInv'
  BY <1>3, ToggleKeeps
<1> QED BY <1>1, <1>2, <1>3, ListRulesKeeps, NextRuleKeeps DEF NotifyNext

(***************************************************************************)
(* Whichever messages fail, and however many rules listen, exactly the     *)
(* first message that arrives about an event for a rule has the caption    *)
(* (postDiscoveredMedia of internal/controller/discord/scheduler.go).      *)
(***************************************************************************)
THEOREM CaptionsAreSaidOnce ==
  ASSUME NotifyAssumption
  PROVE  NotifySpec => []CaptionIsSaidOnce
<1>1. NotifyInit => NotifyInv
  BY NotifyInvInit
<1>2. NotifyInv /\ [NotifyNext]_(notifying) => NotifyInv'
  BY NotifyInvNext
<1>3. NotifyInv => CaptionIsSaidOnce
  BY DEF NotifyInv
<1> QED BY <1>1, <1>2, <1>3, PTL DEF NotifySpec

(***************************************************************************)
(* No rule misses a discovery for another's failure, nor hears of one that *)
(* it does not listen for, whatever the report, the rules and the edits of *)
(* them meanwhile; a first import is announced to nobody (notifySyncEvents *)
(* of internal/controller/discord/scheduler.go).                           *)
(***************************************************************************)
THEOREM MatchesAreHeard ==
  ASSUME NotifyAssumption
  PROVE  NotifySpec => []EveryMatchIsHeard
<1>1. NotifyInit => NotifyInv
  BY NotifyInvInit
<1>2. NotifyInv /\ [NotifyNext]_(notifying) => NotifyInv'
  BY NotifyInvNext
<1>3. ASSUME NotifyInv
      PROVE  EveryMatchIsHeard
  <2>1. /\ LoopInBounds /\ HeardSoFar /\ Len(report) \in Nat /\ event \in Nat /\ EventCap \in Nat
    BY <1>3, NotifyFacts
  <2>2. ASSUME Over, ~initial,
               NEW e \in (1 .. Len(report)) \ unlisted, NEW r \in Rules \ touched
        PROVE  <<e, r>> \in tried <=> e <= EventCap /\ Match(e, r)
    <3>1. stage = "list" /\ (event > Len(report) \/ event > EventCap)
      BY <2>1, <2>2 DEF Over, LoopInBounds
    <3>2. CASE e < event
      BY <2>1, <3>2 DEF HeardSoFar
    <3>3. CASE ~(e < event)
      <4>1. e \in Nat /\ (e > event \/ e = event) /\ ~(e <= EventCap)
        BY <2>1, <3>1, <3>3
      <4>2. <<e, r>> \notin tried
        BY <2>1, <3>1, <4>1 DEF HeardSoFar
      <4> QED BY <4>1, <4>2
    <3> QED BY <3>2, <3>3
  <2>3. initial => channel = <<>>
    BY <2>1 DEF LoopInBounds
  <2> QED BY <2>2, <2>3 DEF EveryMatchIsHeard, Match
<1> QED BY <1>1, <1>2, <1>3, PTL DEF NotifySpec

-----------------------------------------------------------------------------
(* The pages of a full album                                               *)

\* e, of length n, is S from its least number to its largest.
Ascends(e, n, S) ==
  /\ e \in [1 .. n -> S] /\ \A x \in S : \E i \in 1 .. n : e[i] = x
  /\ \A i, j \in 1 .. n : i < j => e[i] < e[j]

\* Every set of numbers up to N can be listed in order: the least N for which one could
\* not has a predecessor, to whose list N is appended.
LEMMA OrderExists ==
  ASSUME NEW N \in Nat, NEW S \in SUBSET (1 .. N)
  PROVE  \E n \in Nat : \E e \in [1 .. n -> S] : Ascends(e, n, S)
<1> DEFINE Lists(A) == \E n \in Nat : \E e \in [1 .. n -> A] : Ascends(e, n, A)
           T == {m \in Nat : \E A \in SUBSET (1 .. m) : ~Lists(A)}
<1>1. Lists({})
  <2>1. [i \in 1 .. 0 |-> 0] \in [1 .. 0 -> {}] /\ Ascends([i \in 1 .. 0 |-> 0], 0, {})
    BY DEF Ascends
  <2> QED BY <2>1
<1>2. ASSUME NEW m \in Nat, NEW A \in SUBSET (1 .. m), m # 0, ~Lists(A)
      PROVE  ~Lists(A \ {m}) /\ A \ {m} \in SUBSET (1 .. (m - 1))
  <2>1. A \ {m} \in SUBSET (1 .. (m - 1))
    OBVIOUS
  <2>2. CASE m \notin A
    <3>1. A \ {m} = A
      BY <2>2
    <3> QED BY <1>2, <2>1, <3>1
  <2>3. CASE m \in A
    <3>1. ASSUME NEW n \in Nat, NEW e \in [1 .. n -> A \ {m}], Ascends(e, n, A \ {m})
          PROVE  FALSE
      <4> DEFINE d == [i \in 1 .. (n + 1) |-> IF i = n + 1 THEN m ELSE e[i]]
      <4>1. d \in [1 .. (n + 1) -> A] /\ d[n + 1] = m /\ \A i \in 1 .. n : d[i] = e[i] /\ d[i] \in 1 .. (m - 1)
        <5>1. \A i \in 1 .. n : i \in 1 .. (n + 1) /\ i # n + 1 /\ e[i] \in A /\ e[i] \in 1 .. (m - 1)
          <6>1. \A i \in 1 .. n : e[i] \in A \ {m}
            OBVIOUS
          <6>2. \A i \in 1 .. n : i \in 1 .. (n + 1) /\ i # n + 1
            OBVIOUS
          <6> QED BY <2>1, <6>1, <6>2
        <5>2. \A i \in 1 .. (n + 1) : i # n + 1 => i \in 1 .. n
          OBVIOUS
        <5>3. n + 1 \in 1 .. (n + 1)
          OBVIOUS
        <5> QED BY <2>3, <5>1, <5>2, <5>3
      <4> HIDE DEF d
      <4>2. \A x \in A : \E i \in 1 .. (n + 1) : d[i] = x
        <5>1. n + 1 \in 1 .. (n + 1) /\ 1 .. n \subseteq 1 .. (n + 1)
          OBVIOUS
        <5> QED BY <3>1, <4>1, <5>1 DEF Ascends
      <4>3. \A i, j \in 1 .. (n + 1) : i < j => d[i] < d[j]
        <5> SUFFICES ASSUME NEW i \in 1 .. (n + 1), NEW j \in 1 .. (n + 1), i < j
                     PROVE  d[i] < d[j]
          OBVIOUS
        <5>1. CASE j = n + 1
          <6>1. i \in 1 .. n
            BY <5>1
          <6> QED BY <4>1, <5>1, <6>1
        <5>2. CASE j # n + 1
          <6>1. i \in 1 .. n /\ j \in 1 .. n
            BY <5>2
          <6> QED BY <3>1, <4>1, <6>1 DEF Ascends
        <5> QED BY <5>1, <5>2
      <4>4. n + 1 \in Nat /\ Ascends(d, n + 1, A)
        BY <4>1, <4>2, <4>3 DEF Ascends
      <4> QED BY <1>2, <4>1, <4>4
    <3> QED BY <2>1, <3>1
  <2> QED BY <2>2, <2>3
<1> HIDE DEF Lists
<1>3. ASSUME ~Lists(S)
      PROVE  FALSE
  <2>1. N \in T
    BY <1>3
  <2>2. PICK m \in T : \A y \in T : m <= y
    BY <2>1, NatLeast
  <2>3. PICK A \in SUBSET (1 .. m) : m \in Nat /\ ~Lists(A)
    BY <2>2
  <2>4. m # 0
    <3>1. m = 0 => A = {}
      BY <2>3
    <3> QED BY <1>1, <2>3, <3>1
  <2>5. m - 1 \in T
    <3>1. m - 1 \in Nat
      BY <2>3, <2>4
    <3>2. ~Lists(A \ {m}) /\ A \ {m} \in SUBSET (1 .. (m - 1))
      BY <1>2, <2>3, <2>4
    <3> QED BY <3>1, <3>2
  <2> HIDE DEF T
  <2> QED BY <2>2, <2>3, <2>5
<1> QED BY <1>3 DEF Lists

\* FullAlbum counts as we do.
LEMMA SameCount == \A S : Cardinality(S) = Cardinality(S)
BY DEF Cardinality, Cardinality

\* The list in order is the one.
LEMMA OrderIs ==
  ASSUME NEW S \in SUBSET Nat, NEW n \in Nat, NEW e, Ascends(e, n, S)
  PROVE  InOrder(S) = e /\ Cardinality(S) = n
<1>1. e \in [1 .. n -> S] /\ \A i, j \in 1 .. n : i < j => e[i] < e[j]
  BY DEF Ascends
<1>2. \A i, j \in 1 .. n : (e[i] <= e[j] <=> i <= j) /\ (e[i] = e[j] => i = j)
  <2> SUFFICES ASSUME NEW i \in 1 .. n, NEW j \in 1 .. n
               PROVE  (e[i] <= e[j] <=> i <= j) /\ (e[i] = e[j] => i = j)
    OBVIOUS
  <2>1. e[i] \in Nat /\ e[j] \in Nat
    BY <1>1
  <2>2. (i < j => e[i] < e[j]) /\ (j < i => e[j] < e[i])
    BY <1>1
  <2> QED BY <2>1, <2>2
<1>3. ASSUME NEW i \in 0 .. n
      PROVE  Cardinality({e[j] : j \in 1 .. i}) = i
  <2> DEFINE U == {e[j] : j \in 1 .. i}
             d == [j \in 1 .. i |-> e[j]]
  <2>1. d \in Bijection(1 .. i, U)
    BY <1>1, <1>2 DEF Bijection, Injection, Surjection, IsInjective
  <2>2. ExistsBijection(1 .. i, U)
    BY <2>1 DEF ExistsBijection
  <2>3. i \in Int /\ 1 \in Int /\ i >= 0
    OBVIOUS
  <2>4. IsFiniteSet(1 .. i) /\ Cardinality(1 .. i) = i
    <3>1. IsFiniteSet(1 .. i) /\ Cardinality(1 .. i) = IF 1 > i THEN 0 ELSE i - 1 + 1
      BY <2>3, FS_Interval
    <3> QED BY <2>3, <3>1
  <2> HIDE DEF U
  <2>5. Cardinality(U) = Cardinality(1 .. i)
    BY <2>2, <2>4, FS_Bijection
  <2> QED BY <2>4, <2>5 DEF U
<1>4. Cardinality(S) = n
  <2>1. S = {e[j] : j \in 1 .. n}
    BY <1>1 DEF Ascends
  <2>2. n \in 0 .. n
    OBVIOUS
  <2> QED BY <1>3, <2>1, <2>2
<1>5. ASSUME NEW i \in 1 .. n
      PROVE  Cardinality({y \in S : y <= e[i]}) = i
  <2>1. {y \in S : y <= e[i]} = {e[j] : j \in 1 .. i}
    <3>1. ASSUME NEW y \in S, y <= e[i]
          PROVE  y \in {e[j] : j \in 1 .. i}
      <4>1. PICK j \in 1 .. n : e[j] = y
        BY DEF Ascends
      <4>2. j <= i
        BY <1>2, <3>1, <4>1
      <4>3. j \in 1 .. i
        BY <4>2
      <4> QED BY <4>1, <4>3
    <3>2. ASSUME NEW j \in 1 .. i
          PROVE  e[j] \in S /\ e[j] <= e[i]
      <4>1. j \in 1 .. n /\ j <= i
        OBVIOUS
      <4> QED BY <1>1, <1>2, <4>1
    <3> QED BY <3>1, <3>2
  <2>2. i \in 0 .. n
    OBVIOUS
  <2> QED BY <1>3, <2>1, <2>2
<1>6. ASSUME NEW i \in 1 .. n
      PROVE  (CHOOSE x \in S : Cardinality({y \in S : y <= x}) = i) = e[i]
  <2>1. e[i] \in S /\ Cardinality({y \in S : y <= e[i]}) = i
    BY <1>1, <1>5, SameCount
  <2>2. \A x \in S : Cardinality({y \in S : y <= x}) = i => x = e[i]
    BY <1>5, SameCount DEF Ascends
  <2> QED BY <2>1, <2>2
<1>7. Cardinality(S) = n
  BY <1>4, SameCount
<1>8. InOrder(S)
        = [i \in 1 .. n |-> CHOOSE x \in S : Cardinality({y \in S : y <= x}) = i]
  BY <1>7 DEF InOrder
<1>9. InOrder(S) = [i \in 1 .. n |-> e[i]]
  BY <1>6, <1>8
<1>10. [i \in 1 .. n |-> e[i]] = e
  BY <1>1
<1> QED BY <1>4, <1>9, <1>10

\* An album that gains an image with a higher id has it at the end of its list.
LEMMA OrderGrows ==
  ASSUME NEW N \in Nat, NEW S \in SUBSET (1 .. N), NEW x \in Nat, x > N
  PROVE  /\ InOrder(S) \in Seq(S) /\ Len(InOrder(S)) = Cardinality(S)
         /\ \A y \in S : \E i \in 1 .. Len(InOrder(S)) : InOrder(S)[i] = y
         /\ \A i, j \in 1 .. Len(InOrder(S)) :
              i < j => InOrder(S)[i] < InOrder(S)[j]
         /\ InOrder(S \cup {x}) = Append(InOrder(S), x)
<1>0. PICK n \in Nat : \E f \in [1 .. n -> S] : Ascends(f, n, S)
  BY OrderExists
<1>1. PICK e \in [1 .. n -> S] : Ascends(e, n, S)
  BY <1>0
<1>2. InOrder(S) = e /\ Cardinality(S) = n
  BY <1>1, OrderIs
<1>3. e \in Seq(S) /\ Len(e) = n
  BY <1>1
<1> DEFINE d == Append(e, x)
<1>4. d \in [1 .. (n + 1) -> S \cup {x}] /\ d[n + 1] = x /\ \A i \in 1 .. n : d[i] = e[i]
  <2>1. e \in Seq(S \cup {x}) /\ x \in S \cup {x}
    BY <1>3
  <2>2. d \in Seq(S \cup {x}) /\ Len(d) = n + 1
    BY <1>3, <2>1
  <2>3. d[n + 1] = x /\ \A i \in 1 .. n : d[i] = e[i]
    BY <1>3, <2>1
  <2> HIDE DEF d
  <2> QED BY <2>2, <2>3
<1> HIDE DEF d
<1>5. Ascends(d, n + 1, S \cup {x})
  <2>1. \A y \in S \cup {x} : \E i \in 1 .. (n + 1) : d[i] = y
    <3>1. n + 1 \in 1 .. (n + 1) /\ 1 .. n \subseteq 1 .. (n + 1)
      OBVIOUS
    <3> QED BY <1>1, <1>4, <3>1 DEF Ascends
  <2>2. ASSUME NEW i \in 1 .. (n + 1), NEW j \in 1 .. (n + 1), i < j
        PROVE  d[i] < d[j]
    <3>1. i \in 1 .. n /\ d[i] \in 1 .. N
      <4>1. i \in 1 .. n
        BY <2>2
      <4>2. e[i] \in S
        BY <4>1
      <4> QED BY <1>4, <4>1, <4>2
    <3>2. CASE j = n + 1
      BY <1>4, <3>1, <3>2
    <3>3. CASE j # n + 1
      <4>1. j \in 1 .. n
        BY <3>3
      <4> QED BY <1>1, <1>4, <2>2, <3>1, <4>1 DEF Ascends
    <3> QED BY <3>2, <3>3
  <2> QED BY <1>4, <2>1, <2>2 DEF Ascends
<1>6. InOrder(S \cup {x}) = d
  BY <1>5, OrderIs
<1> QED BY <1>1, <1>2, <1>3, <1>6 DEF Ascends, d

PagePCs == {"idle", "cover", "list", "thread", "lead", "page", "clear", "read"}
Locals  == [pc : PagePCs, offset : Nat, cover : Nat, page : Seq(ImageIds), end : Nat, total : Nat]
Presses == [offset : Nat, pressed : BOOLEAN, shown : BOOLEAN]

PageTypes ==
  /\ live \subseteq ImageIds /\ cover \in live \cup {0}
  /\ IsFiniteSet(live) /\ live \subseteq 1 .. Cardinality(live) + count.edits
  /\ thread \in [open : BOOLEAN, walked : Seq(ImageIds), arrived : SUBSET ImageIds, seen : Nat]
  /\ buttons \in Seq(Presses) /\ handler \in [Handlers -> Locals]
  /\ count \in [asks : Nat, presses : Nat, edits : Nat, faults : Nat]
  /\ shifted \in BOOLEAN /\ again \in BOOLEAN /\ cut \in BOOLEAN

\* The goroutines that have the thread, or a button of it.
Posts(l) == l.pc \in {"lead", "page", "clear", "read"}

\* What the locals and the buttons owe to each other and to the thread.
LocalsInPlace ==
  /\ \A h \in Handlers :
       /\ handler[h].pc = "idle" => handler[h] = IdleHandler
       /\ handler[h].pc \in {"cover", "list", "thread", "lead"} => handler[h].offset = 0
       /\ handler[h].pc = "clear" =>
            handler[h].offset \in DOMAIN buttons /\ buttons[handler[h].offset].pressed
       /\ Posts(handler[h]) => thread.open
  /\ \A b \in DOMAIN buttons : ~buttons[b].pressed => buttons[b].shown
  /\ ~thread.open => thread.walked = <<>> /\ thread.arrived = {} /\ buttons = <<>> /\ thread.seen = 0

Arrivals == count.faults = 0 => thread.arrived = ToSet(thread.walked)

\* The thread as it should read: the cover, then the list.
Covers == IF cover = 0 THEN 0 ELSE 1
Nth(i) == IF i <= Covers THEN cover ELSE Listed[i - Covers]
Long   == Covers + Len(Listed)

\* The cover and the first k of the list have been walked over.
Said(k) == \A i \in 1 .. Covers + k : Nth(i) \in ToSet(thread.walked)

\* A page is a piece of the list as it is now, and all before it has been said.
OnTrack(l) ==
  /\ l.pc \in {"list", "thread", "lead"} => l.cover = cover
  /\ l.pc \in {"thread", "lead"} => l.end = Len(l.page)
  /\ l.pc \in {"thread", "lead", "page"} =>
       /\ l.end <= l.total /\ l.total <= Len(Listed) /\ Len(l.page) <= l.end
       /\ \A i \in 1 .. Len(l.page) : l.page[i] = Listed[l.end - Len(l.page) + i]
       /\ Paged(l.total) \/ l.end = l.total
  /\ l.pc = "page" => Said(l.end - Len(l.page))
  /\ l.pc = "read" => Said(l.offset) /\ l.offset <= Len(Listed)

Walks ==
  /\ \A h \in Handlers, l \in Locals : handler[h] = l => OnTrack(l)
  /\ \A b \in DOMAIN buttons, k \in Nat :
       buttons[b].offset = k => Said(k) /\ k <= Len(Listed)
  /\ \A x \in ToSet(thread.walked) : \E i \in 1 .. Long : x = Nth(i)
  /\ thread.seen <= Len(Listed)

\* Who or what leads on: a goroutine whose list is as long as any that was read, or that is
\* to read one, a button, or nothing since all has been said.
Leads(l) == l.pc \in {"clear", "read"} \/ (l.pc \in {"lead", "page"} /\ l.total >= thread.seen)
WayOn ==
  thread.open /\ ~cut =>
    \/ \E h \in Handlers : Leads(handler[h])
    \/ \E b \in DOMAIN buttons : buttons[b].shown /\ (again \/ ~buttons[b].pressed)
    \/ Said(thread.seen)

\* Unless a button is pressed twice there is one goroutine or one button to go on, and the
\* thread reads as it should up to where that stands.
Reached(l) ==
  CASE l.pc = "lead"  -> 0
    [] l.pc = "page"  -> Covers + (l.end - Len(l.page))
    [] l.pc = "clear" -> Covers + buttons[l.offset].offset
    [] OTHER          -> Covers + l.offset

OneWay ==
  /\ \A g, h \in Handlers : Posts(handler[g]) /\ Posts(handler[h]) => g = h
  /\ \A a, b \in DOMAIN buttons : ~buttons[a].pressed /\ ~buttons[b].pressed => a = b
  /\ \A h \in Handlers, b \in DOMAIN buttons : Posts(handler[h]) => buttons[b].pressed
  /\ \A h \in Handlers : Posts(handler[h]) => Len(thread.walked) = Reached(handler[h])
  /\ \A b \in DOMAIN buttons : ~buttons[b].pressed => Len(thread.walked) = Covers + buttons[b].offset
  /\ Len(thread.walked) <= Long
  /\ \A i \in 1 .. Len(thread.walked) : thread.walked[i] = Nth(i)

PageInv ==
  /\ PageTypes /\ LocalsInPlace /\ Arrivals
  /\ ~shifted => Walks /\ WayOn /\ (~again => OneWay)

\* The list of an album is in order and without the cover.
LEMMA ListedIs ==
  ASSUME PageTypes
  PROVE  /\ Listed \in Seq(ImageIds) /\ Len(Listed) \in Nat
         /\ Covers \in {0, 1} /\ Long \in Nat
         /\ \A i \in 1 .. Len(Listed) : Listed[i] \in ImageIds \ {cover}
         /\ \A i, j \in 1 .. Len(Listed) : i < j => Listed[i] < Listed[j]
         /\ \A i \in 1 .. Long : Nth(i) \in ImageIds
         /\ \A i, j \in 1 .. Long : Nth(i) = Nth(j) => i = j
<1>1. PICK S : S = live \ {cover}
  OBVIOUS
<1>2. PICK N \in Nat : N = Cardinality(live) + count.edits
  BY FS_CardinalityType DEF PageTypes
<1>3. S \in SUBSET (1 .. N) /\ N + 1 \in Nat /\ N + 1 > N
  BY <1>1, <1>2 DEF PageTypes
<1> DEFINE L == InOrder(S)
<1>4. L \in Seq(S) /\ \A i, j \in 1 .. Len(L) : i < j => L[i] < L[j]
  BY <1>3, OrderGrows
<1>5. S \subseteq ImageIds \ {cover} /\ ImageIds = Nat \ {0}
  BY <1>1 DEF PageTypes, ImageIds
<1>6. Listed = L
  BY <1>1 DEF Listed
<1> HIDE DEF L
<1>7. L \in Seq(ImageIds) /\ Len(L) \in Nat /\ \A i \in 1 .. Len(L) : L[i] \in ImageIds \ {cover}
  <2>1. Len(L) \in Nat /\ L = [i \in 1 .. Len(L) |-> L[i]] /\ \A i \in 1 .. Len(L) : L[i] \in S
    BY <1>4
  <2>2. \A i \in 1 .. Len(L) : L[i] \in ImageIds \ {cover}
    BY <1>5, <2>1
  <2> QED BY <2>1, <2>2
<1>8. Covers \in {0, 1} /\ (Covers = 1 <=> cover # 0) /\ Long = Covers + Len(L) /\ Long \in Nat
      /\ (cover # 0 => cover \in ImageIds)
  BY <1>6, <1>7 DEF Covers, Long, PageTypes
<1>9. \A i \in 1 .. Long : IF i <= Covers THEN i = 1 /\ Nth(i) = cover /\ cover # 0
                           ELSE i - Covers \in 1 .. Len(L) /\ Nth(i) = L[i - Covers]
  BY <1>6, <1>7, <1>8 DEF Nth
<1>10. \A i \in 1 .. Long : Nth(i) \in ImageIds
  BY <1>7, <1>8, <1>9
<1>11. ASSUME NEW i \in 1 .. Long, NEW j \in 1 .. Long, Nth(i) = Nth(j)
       PROVE  i = j
  <2>1. CASE i <= Covers
    BY <1>7, <1>9, <1>11, <2>1
  <2>2. CASE ~(i <= Covers) /\ j <= Covers
    BY <1>7, <1>9, <1>11, <2>2
  <2>3. CASE ~(i <= Covers) /\ ~(j <= Covers)
    <3> DEFINE m == i - Covers
               n == j - Covers
    <3>1. m \in 1 .. Len(L) /\ n \in 1 .. Len(L) /\ L[m] = L[n]
      BY <1>9, <1>11, <2>3
    <3>2. L[m] \in Nat /\ L[n] \in Nat
      BY <1>5, <1>7, <3>1
    <3>3. ~(m < n) /\ ~(n < m)
      BY <1>4, <3>1, <3>2
    <3>4. m = n
      BY <1>7, <3>1, <3>3
    <3> QED BY <1>8, <3>4
  <2> QED BY <2>1, <2>2, <2>3
<1> QED BY <1>4, <1>6, <1>7, <1>8, <1>10, <1>11

\* The same before and after a step.
LEMMA ListSizes ==
  PageTypes => Listed \in Seq(ImageIds) /\ Len(Listed) \in Nat /\ Covers \in {0, 1}
BY ListedIs

\* And so they do after a step.
LEMMA ListSizesThen ==
  PageTypes' => Listed' \in Seq(ImageIds) /\ Len(Listed') \in Nat /\ Covers' \in {0, 1}
<1>1. (PageTypes => Listed \in Seq(ImageIds) /\ Len(Listed) \in Nat
                      /\ Covers \in {0, 1})'
  BY ListSizes, PTL
<1>2. ImageIds' = ImageIds
  BY DEF ImageIds
<1> QED BY <1>1, <1>2

\* A sync's new image comes last.
LEMMA ListedGrows ==
  ASSUME PageTypes, AppendImage
  PROVE  /\ \E x \in ImageIds : Listed' = Append(Listed, x)
         /\ live' \subseteq ImageIds /\ IsFiniteSet(live')
         /\ live' \subseteq 1 .. Cardinality(live') + count'.edits
<1>1. PICK S : S = live \ {cover}
  OBVIOUS
<1>2. Cardinality(live) \in Nat /\ count.edits \in Nat
  BY FS_CardinalityType DEF PageTypes
<1>3. PICK N \in Nat : N = Cardinality(live) + count.edits
  BY <1>2
<1>4. live' = live \cup {N + 1} /\ count'.edits = count.edits + 1 /\ cover' = cover
  BY <1>2, <1>3, SameCount DEF AppendImage, CountUp, PageTypes
<1>5. S \in SUBSET (1 .. N) /\ N + 1 \in Nat /\ N + 1 > N /\ N + 1 \notin live /\ cover # N + 1
  BY <1>1, <1>3 DEF PageTypes
<1>6. Listed = InOrder(S) /\ Listed' = InOrder(S \cup {N + 1})
  BY <1>1, <1>4, <1>5 DEF Listed
<1>7. Listed' = Append(Listed, N + 1)
  BY <1>5, <1>6, OrderGrows
<1>8. IsFiniteSet(live \cup {N + 1}) /\ Cardinality(live \cup {N + 1}) = Cardinality(live) + 1
  BY <1>5, FS_AddElement DEF PageTypes
<1>9. Cardinality(live') + count'.edits = N + 2
  BY <1>2, <1>3, <1>4, <1>8
<1>10. N + 1 \in ImageIds /\ live' \subseteq 1 .. N + 2
  <2>1. live \subseteq 1 .. N
    BY <1>3 DEF PageTypes
  <2> QED BY <1>4, <2>1 DEF ImageIds
<1> QED BY <1>4, <1>7, <1>8, <1>9, <1>10 DEF PageTypes

Counts == [asks : Nat, presses : Nat, edits : Nat, faults : Nat]

\* One of the bounds is used up by one.
LEMMA BumpIs ==
  ASSUME PageTypes, NEW w \in {"asks", "presses", "edits", "faults"}, NEW bound, CountUp(w, bound)
  PROVE  /\ count' \in Counts /\ (w # "edits" => count'.edits = count.edits)
         /\ count'.faults = 0 => count.faults = 0 /\ w # "faults"
<1>1. count \in Counts /\ count' = [count EXCEPT ![w] = count[w] + 1]
  BY DEF PageTypes, Counts, CountUp
<1>2. count[w] + 1 \in Nat
  BY <1>1 DEF Counts
<1> QED BY <1>1, <1>2 DEF Counts

\* A page walks over a piece of the list, and all of it arrives unless there is a fault.
LEMMA SendsIs ==
  ASSUME PageTypes, NEW s \in Seq(ImageIds), Sends(s)
  PROVE  /\ thread'.walked \in Seq(ImageIds) /\ thread'.walked = thread.walked \o s
         /\ thread' \in [open : BOOLEAN, walked : Seq(ImageIds),
                         arrived : SUBSET ImageIds, seen : Nat]
         /\ thread'.open = thread.open /\ thread'.seen = thread.seen
         /\ ToSet(thread'.walked) = ToSet(thread.walked) \cup ToSet(s)
         /\ count' \in Counts /\ count'.edits = count.edits
         /\ count'.faults = 0 =>
              count.faults = 0 /\ thread'.arrived = thread.arrived \cup ToSet(s)
<1> DEFINE Threads == [open : BOOLEAN, walked : Seq(ImageIds),
                       arrived : SUBSET ImageIds, seen : Nat]
<1>1. thread \in Threads /\ count \in Counts
  BY DEF PageTypes, Counts
<1>2. PICK w \in Seq(ImageIds) : w = thread.walked
  BY <1>1
<1>3. w \o s \in Seq(ImageIds) /\ ToSet(w \o s) = ToSet(w) \cup ToSet(s)
  <2>1. /\ Len(w \o s) = Len(w) + Len(s) /\ Len(w) \in Nat /\ Len(s) \in Nat
        /\ \A i \in 1 .. Len(w) : (w \o s)[i] = w[i]
        /\ \A i \in 1 .. Len(s) : (w \o s)[Len(w) + i] = s[i]
    OBVIOUS
  <2>2. \A i \in 1 .. Len(w \o s) : i \in 1 .. Len(w) \/ \E j \in 1 .. Len(s) : i = Len(w) + j
    <3> SUFFICES ASSUME NEW i \in 1 .. Len(w \o s), i \notin 1 .. Len(w)
                 PROVE  \E j \in 1 .. Len(s) : i = Len(w) + j
      OBVIOUS
    <3>1. i - Len(w) \in 1 .. Len(s) /\ i = Len(w) + (i - Len(w))
      BY <2>1
    <3> QED BY <3>1
  <2>3. DOMAIN (w \o s) = 1 .. Len(w \o s) /\ DOMAIN w = 1 .. Len(w) /\ DOMAIN s = 1 .. Len(s)
    OBVIOUS
  <2>4. \A i \in 1 .. Len(w) : i \in 1 .. Len(w \o s)
    BY <2>1
  <2>5. \A i \in 1 .. Len(s) : Len(w) + i \in 1 .. Len(w \o s)
    BY <2>1
  <2>6. w \o s \in Seq(ImageIds)
    OBVIOUS
  <2>7. ASSUME NEW x
        PROVE  x \in ToSet(w \o s) <=> x \in ToSet(w) \/ x \in ToSet(s)
    <3>1. ASSUME NEW i \in 1 .. Len(w \o s)
          PROVE  (w \o s)[i] \in ToSet(w) \/ (w \o s)[i] \in ToSet(s)
      <4>1. CASE i \in 1 .. Len(w)
        <5>1. (w \o s)[i] = w[i]
          BY <2>1, <4>1
        <5> QED BY <2>3, <4>1, <5>1 DEF ToSet
      <4>2. CASE \E j \in 1 .. Len(s) : i = Len(w) + j
        <5>1. PICK j \in 1 .. Len(s) : i = Len(w) + j
          BY <4>2
        <5>2. (w \o s)[i] = s[j]
          BY <2>1, <5>1
        <5> QED BY <2>3, <5>2 DEF ToSet
      <4> QED BY <2>2, <4>1, <4>2
    <3>2. ASSUME NEW i \in 1 .. Len(w)
          PROVE  w[i] \in ToSet(w \o s)
      BY <2>1, <2>3, <2>4 DEF ToSet
    <3>3. ASSUME NEW i \in 1 .. Len(s)
          PROVE  s[i] \in ToSet(w \o s)
      BY <2>1, <2>3, <2>5 DEF ToSet
    <3> QED BY <2>3, <3>1, <3>2, <3>3 DEF ToSet
  <2> QED BY <2>6, <2>7
<1>4. PICK got \in Seq(ImageIds) :
        /\ thread' = [thread EXCEPT !.walked = w \o s, !.arrived = thread.arrived \cup ToSet(got)]
        /\ (count' = count /\ got = s) \/ \E b : CountUp("faults", b)
  <2>1. CASE /\ thread' = [thread EXCEPT !.walked = @ \o s, !.arrived = @ \cup ToSet(s)]
             /\ UNCHANGED count
    BY <1>2, <2>1
  <2>2. CASE /\ s # <<>> /\ CountUp("faults", MaxFaults)
             /\ \E got \in {<<>>, Front(s)} :
                  thread' = [thread EXCEPT !.walked = @ \o s, !.arrived = @ \cup ToSet(got)]
    <3>1. Front(s) \in Seq(ImageIds) /\ <<>> \in Seq(ImageIds)
      BY <2>2 DEF Front
    <3> QED BY <1>2, <2>2, <3>1
  <2> QED BY <2>1, <2>2 DEF Sends
<1>5. ToSet(got) \subseteq ImageIds
  BY DEF ToSet
<1>6. thread' \in Threads /\ thread'.walked = w \o s /\ thread'.open = thread.open
      /\ thread'.seen = thread.seen /\ thread'.arrived = thread.arrived \cup ToSet(got)
  <2>1. thread.arrived \cup ToSet(got) \in SUBSET ImageIds
    BY <1>1, <1>5
  <2> QED BY <1>1, <1>3, <1>4, <2>1
<1>7. /\ count' \in Counts /\ count'.edits = count.edits
      /\ count'.faults = 0 => count.faults = 0 /\ got = s
  BY <1>1, <1>4, BumpIs
<1> QED BY <1>2, <1>3, <1>6, <1>7

\* What every step but a shift does: the list and the thread gain, and buttons stay.
GrowsOn ==
  /\ cover' = cover /\ Len(Listed) <= Len(Listed')
  /\ \A i \in 1 .. Len(Listed) : Listed'[i] = Listed[i]
  /\ ToSet(thread.walked) \subseteq ToSet(thread'.walked)
  /\ Len(buttons) <= Len(buttons')
  /\ \A b \in 1 .. Len(buttons) : buttons'[b].offset = buttons[b].offset

\* What has been said stays said, and a page stays a piece of the list.
LEMMA StaysOnTrack ==
  ASSUME PageTypes, PageTypes', GrowsOn
  PROVE  /\ Covers' = Covers /\ Long <= Long' /\ \A i \in 1 .. Long : Nth(i)' = Nth(i)
         /\ \A k \in Nat : k <= Len(Listed) /\ Said(k) => Said(k)'
         /\ \A l \in Locals : OnTrack(l) => OnTrack(l)'
<1>1. /\ Len(Listed) \in Nat /\ Len(Listed)' \in Nat /\ Covers \in {0, 1}
      /\ Long = Covers + Len(Listed) /\ Long' = Covers' + Len(Listed)'
  BY ListSizes, ListSizesThen DEF Long
<1>2. Covers' = Covers
  BY DEF GrowsOn, Covers
<1>3. Long <= Long'
  BY <1>1, <1>2 DEF GrowsOn
<1>4. ASSUME NEW i \in 1 .. Long
      PROVE  Nth(i)' = Nth(i)
  <2>1. i <= Covers \/ i - Covers \in 1 .. Len(Listed)
    BY <1>1
  <2> QED BY <1>2, <2>1 DEF Nth, GrowsOn
<1>5. ASSUME NEW k \in Nat, k <= Len(Listed), Said(k)
      PROVE  Said(k)'
  <2>1. \A i \in 1 .. Covers + k : i \in 1 .. Long
    BY <1>1, <1>5
  <2> QED BY <1>2, <1>4, <1>5, <2>1 DEF Said, GrowsOn
<1>6. ASSUME NEW l \in Locals, OnTrack(l)
      PROVE  OnTrack(l)'
  <2>1. l.end \in Nat /\ l.total \in Nat /\ Len(l.page) \in Nat /\ l.offset \in Nat
    BY DEF Locals
  <2>2. l.pc \in {"list", "thread", "lead"} => l.cover = cover'
    BY <1>6 DEF OnTrack, GrowsOn
  <2>3. l.pc \in {"thread", "lead", "page"} =>
          /\ l.end <= l.total /\ l.total <= Len(Listed)' /\ Len(l.page) <= l.end
          /\ \A i \in 1 .. Len(l.page) : l.page[i] = Listed'[l.end - Len(l.page) + i]
          /\ Paged(l.total) \/ l.end = l.total
    <3> SUFFICES ASSUME l.pc \in {"thread", "lead", "page"}
                 PROVE  /\ l.end <= l.total /\ l.total <= Len(Listed)' /\ Len(l.page) <= l.end
                        /\ \A i \in 1 .. Len(l.page) :
                             l.page[i] = Listed'[l.end - Len(l.page) + i]
                        /\ Paged(l.total) \/ l.end = l.total
      OBVIOUS
    <3>1. /\ l.end <= l.total /\ l.total <= Len(Listed) /\ Len(l.page) <= l.end
          /\ \A i \in 1 .. Len(l.page) : l.page[i] = Listed[l.end - Len(l.page) + i]
          /\ Paged(l.total) \/ l.end = l.total
      BY <1>6 DEF OnTrack
    <3>2. l.total <= Len(Listed)'
      BY <1>1, <2>1, <3>1 DEF GrowsOn
    <3>3. \A i \in 1 .. Len(l.page) : l.end - Len(l.page) + i \in 1 .. Len(Listed)
      BY <1>1, <2>1, <3>1
    <3> QED BY <3>1, <3>2, <3>3 DEF GrowsOn
  <2>4. l.pc = "page" => Said(l.end - Len(l.page))'
    <3> SUFFICES ASSUME l.pc = "page"
                 PROVE  Said(l.end - Len(l.page))'
      OBVIOUS
    <3>1. PICK k \in Nat : k = l.end - Len(l.page)
      BY <1>6, <2>1 DEF OnTrack
    <3>2. k <= Len(Listed) /\ Said(k)
      BY <1>1, <1>6, <2>1, <3>1 DEF OnTrack
    <3>3. Said(k)'
      BY <1>5, <3>2
    <3> QED BY <3>1, <3>3
  <2>5. l.pc = "read" => Said(l.offset)' /\ l.offset <= Len(Listed)'
    <3> SUFFICES ASSUME l.pc = "read"
                 PROVE  Said(l.offset)' /\ l.offset <= Len(Listed)'
      OBVIOUS
    <3>1. PICK k \in Nat : k = l.offset
      BY <2>1
    <3>2. k <= Len(Listed) /\ Said(k)
      BY <1>6, <3>1 DEF OnTrack
    <3>3. Said(k)' /\ k <= Len(Listed)'
      BY <1>1, <1>5, <3>2 DEF GrowsOn
    <3> QED BY <3>1, <3>3
  <2>6. l.pc \in {"thread", "lead"} => l.end = Len(l.page)
    BY <1>6 DEF OnTrack
  <2> QED BY <2>2, <2>3, <2>4, <2>5, <2>6 DEF OnTrack
<1> QED BY <1>2, <1>3, <1>4, <1>5, <1>6

\* What the pages owe is kept if the new locals and buttons are on track.
LEMMA WalksOn ==
  ASSUME PageTypes, PageTypes', GrowsOn, Walks,
         \A h \in Handlers, l \in Locals : handler'[h] = l => handler[h] = l \/ OnTrack(l)',
         \A b \in 1 .. Len(buttons'), k \in Nat :
           buttons'[b].offset = k => b \in 1 .. Len(buttons) \/ (Said(k)' /\ k <= Len(Listed')),
         \A x \in ToSet(thread'.walked) :
           x \in ToSet(thread.walked) \/ \E i \in 1 .. Long' : x = Nth(i)',
         thread'.seen <= Len(Listed')
  PROVE  Walks'
<1>1. /\ Len(Listed) \in Nat /\ Len(Listed') \in Nat
      /\ Len(Listed) <= Len(Listed') /\ Long \in Nat /\ Long' \in Nat
  BY ListSizes, ListSizesThen DEF GrowsOn, Long
<1>2. \A h \in Handlers, l \in Locals : handler'[h] = l => OnTrack(l)'
  BY StaysOnTrack DEF Walks
<1>3. ASSUME NEW b \in DOMAIN buttons', NEW k \in Nat, buttons'[b].offset = k
      PROVE  Said(k)' /\ k <= Len(Listed')
  <2>1. b \in 1 .. Len(buttons') /\ DOMAIN buttons = 1 .. Len(buttons)
    <3>1. buttons \in Seq(Presses) /\ buttons' \in Seq(Presses)
      BY DEF PageTypes
    <3> QED BY <3>1
  <2>2. CASE b \in 1 .. Len(buttons)
    <3>1. buttons[b].offset = k
      BY <1>3, <2>2 DEF GrowsOn
    <3>2. Said(k) /\ k <= Len(Listed)
      BY <2>1, <2>2, <3>1 DEF Walks
    <3> QED BY <1>1, <3>2, StaysOnTrack
  <2> QED BY <1>3, <2>1, <2>2
<1>4. \A x \in ToSet(thread'.walked) : \E i \in 1 .. Long' : x = Nth(i)'
  <2> TAKE x \in ToSet(thread'.walked)
  <2>1. CASE x \in ToSet(thread.walked)
    <3>1. PICK i \in 1 .. Long : x = Nth(i)
      BY <2>1 DEF Walks
    <3>2. i \in 1 .. Long' /\ Nth(i)' = Nth(i)
      BY <1>1, StaysOnTrack
    <3> QED BY <3>1, <3>2
  <2> QED BY <2>1
<1> QED BY <1>2, <1>3, <1>4 DEF Walks

\* A goroutine moves on by itself, without a word to the thread.
LEMMA MoveKeeps ==
  ASSUME PageInv, NEW h \in Handlers, NEW l \in Locals, handler' = [handler EXCEPT ![h] = l],
         UNCHANGED <<live, cover, shifted, thread, buttons, again>>,
         count' \in Counts, count'.edits = count.edits, count'.faults = 0 => count.faults = 0,
         cut' \in BOOLEAN, cut => cut',
         l.pc = "idle" => l = IdleHandler, l.pc # "clear",
         l.pc \in {"cover", "list", "thread", "lead"} => l.offset = 0,
         Posts(l) => Posts(handler[h]),
         ~shifted => OnTrack(l),
         ~shifted /\ ~cut' /\ Leads(handler[h]) => Leads(l) \/ Said(thread.seen),
         ~shifted /\ ~again /\ Posts(l) => Reached(l) = Reached(handler[h])
  PROVE  PageInv'
<1>1. PageTypes /\ LocalsInPlace /\ Arrivals
  BY DEF PageInv
<1>2. /\ handler' \in [Handlers -> Locals] /\ handler'[h] = l
      /\ \A g \in Handlers : g # h => handler'[g] = handler[g]
  BY <1>1 DEF PageTypes
<1>3. PageTypes'
  BY <1>1, <1>2 DEF PageTypes, Counts
<1>4. LocalsInPlace'
  <2>1. \A g \in Handlers :
          /\ handler'[g].pc = "idle" => handler'[g] = IdleHandler
          /\ handler'[g].pc \in {"cover", "list", "thread", "lead"} => handler'[g].offset = 0
          /\ handler'[g].pc = "clear" =>
               handler'[g].offset \in DOMAIN buttons /\ buttons[handler'[g].offset].pressed
    BY <1>1, <1>2 DEF LocalsInPlace
  <2>2. \A g \in Handlers : Posts(handler'[g]) => thread.open
    BY <1>1, <1>2 DEF LocalsInPlace
  <2> QED BY <1>1, <2>1, <2>2 DEF LocalsInPlace, Posts
<1>5. Arrivals'
  BY <1>1 DEF Arrivals
<1>6. ASSUME ~shifted
      PROVE  Walks' /\ WayOn' /\ (~again => OneWay')
  <2>1. Walks /\ WayOn /\ (~again => OneWay)
    BY <1>6 DEF PageInv
  <2>2. /\ Listed' = Listed /\ Covers' = Covers /\ Long' = Long
        /\ \A i : Nth(i)' = Nth(i)
        /\ \A k : Said(k)' <=> Said(k)
    BY DEF Listed, Covers, Long, Nth, Said
  <2>3. \A m : OnTrack(m)' <=> OnTrack(m)
    BY <2>2 DEF OnTrack
  <2>4. Walks'
    BY <1>2, <1>6, <2>1, <2>2, <2>3 DEF Walks
  <2>5. WayOn'
    <3> SUFFICES ASSUME thread.open, ~cut'
                 PROVE  \/ \E g \in Handlers : Leads(handler'[g])
                        \/ \E b \in DOMAIN buttons : buttons[b].shown /\ (again \/ ~buttons[b].pressed)
                        \/ Said(thread.seen)
      BY <2>2 DEF WayOn, Leads
    <3>1. CASE \E g \in Handlers : Leads(handler[g])
      <4>1. PICK g \in Handlers : Leads(handler[g])
        BY <3>1
      <4>2. CASE g = h
        <5>1. Leads(l) \/ Said(thread.seen)
          BY <1>6, <4>1, <4>2
        <5> QED BY <1>2, <5>1
      <4>3. CASE g # h
        BY <1>2, <4>1, <4>3
      <4> QED BY <4>2, <4>3
    <3> QED BY <2>1, <3>1 DEF WayOn
  <2>6. ASSUME ~again
        PROVE  OneWay'
    <3>1. OneWay
      BY <2>1, <2>6
    <3>2. \A g \in Handlers : Posts(handler'[g]) => Posts(handler[g])
      BY <1>2
    <3>3. \A g \in Handlers : Posts(handler'[g]) => Reached(handler'[g]) = Reached(handler[g])
      BY <1>2, <1>6, <2>6
    <3>4. \A f, g \in Handlers : Posts(handler'[f]) /\ Posts(handler'[g]) => f = g
      BY <3>1, <3>2 DEF OneWay
    <3>5. \A g \in Handlers, b \in DOMAIN buttons : Posts(handler'[g]) => buttons[b].pressed
      BY <3>1, <3>2 DEF OneWay
    <3>6. \A g \in Handlers : Posts(handler'[g]) => Len(thread.walked) = Reached(handler'[g])
      BY <3>1, <3>2, <3>3 DEF OneWay
    <3>7. \A g \in Handlers : (Posts(handler[g]))' <=> Posts(handler'[g])
      BY DEF Posts
    <3>8. \A g \in Handlers : (Reached(handler[g]))' = Reached(handler'[g])
      BY <2>2 DEF Reached
    <3> QED BY <2>2, <3>1, <3>4, <3>5, <3>6, <3>7, <3>8 DEF OneWay
  <2> QED BY <2>4, <2>5, <2>6
<1> QED BY <1>3, <1>4, <1>5, <1>6 DEF PageInv

\* A goroutine with nothing to do.
LEMMA IdleTyped == IdleHandler \in Locals /\ IdleHandler.pc = "idle"
<1>1. <<>> \in Seq(ImageIds)
  OBVIOUS
<1> QED BY <1>1 DEF IdleHandler, Locals, PagePCs

\* p is the piece of the list from o up to end, and leaves none of it unless it is paged.
IsPage(p, o, end) ==
  /\ end \in Nat /\ o <= end /\ end <= Len(Listed)
  /\ p \in Seq(ImageIds) /\ Len(p) = end - o
  /\ \A i \in 1 .. Len(p) : p[i] = Listed[end - Len(p) + i]
  /\ Paged(Len(Listed)) \/ end = Len(Listed)

\* Where a page of the list ends, and what it holds.
LEMMA PageIs ==
  ASSUME PageTypes, PagingAssumption, NEW o \in Nat, o <= Len(Listed),
         NEW end, end = PageEnd(o, Len(Listed)),
         NEW p, p = SubSeq(Listed, o + 1, end)
  PROVE  IsPage(p, o, end)
<1>1. PICK L : L = Listed
  OBVIOUS
<1>2. L \in Seq(ImageIds) /\ Len(L) \in Nat
  BY <1>1, ListSizes
<1>3. PageSize \in Nat /\ Threshold \in Nat
  BY DEF PagingAssumption
<1>4. SizeOf(Len(L)) \in Nat /\ (Paged(Len(L)) \/ SizeOf(Len(L)) = Len(L))
  BY <1>2, <1>3 DEF SizeOf
<1>5. end \in Nat /\ o <= end /\ end <= Len(L) /\ (Paged(Len(L)) \/ end = Len(L))
  BY <1>1, <1>2, <1>4 DEF PageEnd
<1>6. p \in Seq(ImageIds) /\ Len(p) = end - o /\ \A i \in 1 .. Len(p) : p[i] = L[o + i]
  BY <1>1, <1>2, <1>5
<1>7. \A i \in 1 .. Len(p) : p[i] = L[end - Len(p) + i]
  <2>1. end - Len(p) = o
    BY <1>5, <1>6
  <2> QED BY <1>6, <2>1
<1> QED BY <1>1, <1>5, <1>6, <1>7 DEF IsPage

\* Asking for the album.
LEMMA AskKeeps ==
  ASSUME PageInv, NEW h \in Handlers, PressFull(h) \/ Command(h),
         PagingAssumption
  PROVE  PageInv'
<1>1. PageTypes /\ LocalsInPlace
  BY DEF PageInv
<1>2. handler[h] = IdleHandler
  BY <1>1 DEF LocalsInPlace, PressFull, Command, At
<1>3. PICK l : l = [IdleHandler EXCEPT !.pc = "cover"]
  OBVIOUS
<1>4. l \in Locals /\ l.pc = "cover" /\ l.offset = 0
  BY <1>3, IdleTyped DEF Locals, PagePCs, IdleHandler
<1>5. handler' = [handler EXCEPT ![h] = l]
  BY <1>2, <1>3 DEF PressFull, Command, GoesTo, HandlerBecomes
<1>6. count' \in Counts /\ count'.edits = count.edits /\ (count'.faults = 0 => count.faults = 0)
  <2>1. CASE PressFull(h)
    BY <1>1, <2>1, BumpIs DEF PressFull
  <2>2. CASE Command(h)
    BY <1>1, <2>2 DEF Command, PageTypes, Counts, PagingAssumption
  <2> QED BY <2>1, <2>2
<1>7. UNCHANGED <<live, cover, shifted, thread, buttons, again>> /\ cut' = cut
  BY DEF PressFull, Command, album
<1>8. OnTrack(l) /\ ~Posts(l) /\ ~Leads(handler[h])
  BY <1>2, <1>4, IdleTyped DEF OnTrack, Posts, Leads
<1>9. cut' \in BOOLEAN
  BY <1>1, <1>7 DEF PageTypes
<1> QED BY <1>4, <1>5, <1>6, <1>7, <1>8, <1>9, MoveKeeps

\* Reading the cover.
LEMMA LoadCoverKeeps ==
  ASSUME PageInv, NEW h \in Handlers, LoadCover(h)
  PROVE  PageInv'
<1>1. PageTypes /\ LocalsInPlace
  BY DEF PageInv
<1>2. PICK m \in Locals : m = handler[h]
  BY <1>1 DEF PageTypes
<1>3. m.pc = "cover" /\ m.offset = 0
  BY <1>1, <1>2 DEF LocalsInPlace, LoadCover, At
<1>4. PICK l : l = [m EXCEPT !.pc = "list", !.cover = cover]
  OBVIOUS
<1>5. l \in Locals /\ l.pc = "list" /\ l.offset = 0 /\ l.cover = cover
  <2>1. cover \in Nat
    BY <1>1 DEF PageTypes, ImageIds
  <2> QED BY <1>3, <1>4, <2>1 DEF Locals, PagePCs
<1>6. handler' = [handler EXCEPT ![h] = l]
  BY <1>2, <1>4 DEF LoadCover, HandlerBecomes
<1>7. UNCHANGED <<live, cover, shifted, thread, buttons, again>> /\ cut' = cut /\ count' = count
  BY DEF LoadCover, album
<1>8. count' \in Counts /\ cut' \in BOOLEAN
  BY <1>1, <1>7 DEF PageTypes, Counts
<1>9. OnTrack(l) /\ ~Posts(l) /\ ~Leads(handler[h])
  BY <1>2, <1>3, <1>5 DEF OnTrack, Posts, Leads
<1> QED BY <1>5, <1>6, <1>7, <1>8, <1>9, MoveKeeps

\* A goroutine gives up, or ends without a word.
LEMMA StopKeeps ==
  ASSUME PageInv, NEW h \in Handlers, handler' = [handler EXCEPT ![h] = IdleHandler],
         UNCHANGED <<live, cover, shifted, thread, buttons, again>>,
         count' \in Counts, count'.edits = count.edits, count'.faults = 0 => count.faults = 0,
         cut' \in BOOLEAN, cut => cut',
         ~shifted /\ ~cut' /\ Leads(handler[h]) => Said(thread.seen)
  PROVE  PageInv'
<1>1. PICK l \in Locals : l = IdleHandler
  BY IdleTyped
<1>2. l.pc = "idle" /\ handler' = [handler EXCEPT ![h] = l]
  BY <1>1, IdleTyped
<1>3. OnTrack(l) /\ ~Posts(l)
  BY <1>2 DEF OnTrack, Posts
<1> QED BY <1>1, <1>2, <1>3, MoveKeeps

\* The locals with a page just read.
Turned(m, pc) ==
  [m EXCEPT !.pc = pc, !.end = PageEnd(m.offset, Len(Listed)),
            !.total = Len(Listed),
            !.page = SubSeq(Listed, m.offset + 1,
                            PageEnd(m.offset, Len(Listed)))]

\* The locals of a page just read are on track.
LEMMA PageOnTrack ==
  ASSUME PageTypes, PagingAssumption, NEW m \in Locals, NEW pc \in {"thread", "page"},
         m.offset <= Len(Listed), pc = "thread" => m.offset = 0 /\ m.cover = cover,
         pc = "page" => Said(m.offset),
         NEW l, l = Turned(m, pc)
  PROVE  OnTrack(l) /\ (pc = "page" => Reached(l) = Covers + m.offset)
<1>1. PICK o \in Nat : o = m.offset
  BY DEF Locals
<1>2. PICK end : end = PageEnd(o, Len(Listed))
  OBVIOUS
<1>3. PICK p : p = SubSeq(Listed, o + 1, end)
  OBVIOUS
<1>4. /\ end \in Nat /\ o <= end /\ end <= Len(Listed)
      /\ p \in Seq(ImageIds) /\ Len(p) = end - o
      /\ \A i \in 1 .. Len(p) : p[i] = Listed[end - Len(p) + i]
      /\ Paged(Len(Listed)) \/ end = Len(Listed)
  <2>1. o <= Len(Listed)
    BY <1>1
  <2>2. IsPage(p, o, end)
    BY <1>2, <1>3, <2>1, PageIs
  <2> QED BY <2>2 DEF IsPage
<1>5. PICK n \in Nat : n = Len(Listed)
  BY ListSizes
<1>6. l = [m EXCEPT !.pc = pc, !.end = end, !.total = n, !.page = p]
  BY <1>1, <1>2, <1>3, <1>5 DEF Turned
<1>7. /\ l \in Locals /\ l.pc = pc /\ l.offset = o /\ l.end = end /\ l.total = n /\ l.page = p
      /\ l.cover = m.cover
  BY <1>1, <1>4, <1>5, <1>6 DEF Locals, PagePCs
<1>8. l.end - Len(l.page) = m.offset /\ (pc = "thread" => l.end = Len(l.page)) /\ Len(l.page) <= l.end
  <2>1. l.end = end /\ Len(l.page) = end - o
    BY <1>4, <1>7
  <2>2. pc = "thread" => o = 0
    BY <1>1
  <2> QED BY <1>1, <1>4, <2>1, <2>2
<1>9. l.pc = "page" => Said(l.end - Len(l.page))
  BY <1>7, <1>8
<1>10. OnTrack(l)
  <2>1. l.pc \in {"list", "thread", "lead"} => l.cover = cover
    BY <1>7
  <2>2. l.pc \in {"thread", "lead"} => l.end = Len(l.page)
    BY <1>7, <1>8
  <2>3. l.end <= l.total /\ l.total <= Len(Listed)
    BY <1>4, <1>5, <1>7
  <2>4. \A i \in 1 .. Len(l.page) : l.page[i] = Listed[l.end - Len(l.page) + i]
    BY <1>4, <1>7
  <2>5. Paged(l.total) \/ l.end = l.total
    BY <1>4, <1>5, <1>7
  <2>6. l.pc # "read"
    BY <1>7
  <2> QED BY <1>8, <1>9, <2>1, <2>2, <2>3, <2>4, <2>5, <2>6 DEF OnTrack
<1>11. pc = "page" => Reached(l) = Covers + m.offset
  BY <1>7, <1>8 DEF Reached
<1> QED BY <1>10, <1>11

\* Reading the list.
LEMMA LoadListKeeps ==
  ASSUME PageInv, PagingAssumption, NEW h \in Handlers, LoadList(h)
  PROVE  PageInv'
<1>1. PageTypes /\ LocalsInPlace
  BY DEF PageInv
<1>2. PICK m \in Locals : m = handler[h]
  BY <1>1 DEF PageTypes
<1>3. m.pc = "list" /\ m.offset = 0 /\ ~Leads(handler[h])
  BY <1>1, <1>2 DEF LocalsInPlace, LoadList, At, Leads
<1>4. UNCHANGED <<live, cover, shifted, thread, buttons, again>> /\ cut' = cut /\ count' = count
  BY DEF LoadList, album
<1>5. count' \in Counts /\ cut' \in BOOLEAN
  BY <1>1, <1>4 DEF PageTypes, Counts
<1>6. CASE HandlerBecomes(h, IdleHandler)
  BY <1>3, <1>4, <1>5, <1>6, StopKeeps DEF HandlerBecomes
<1>7. CASE Page(h, "thread")
  <2>1. PICK l : l = Turned(m, "thread")
    OBVIOUS
  <2>2. handler' = [handler EXCEPT ![h] = l] /\ l \in Locals
        /\ l.pc = "thread" /\ l.offset = 0
    <3>1. PICK n \in Nat : n = Len(Listed)
      BY <1>1, ListSizes
    <3>2. l.pc = "thread" /\ l.offset = 0
      BY <1>3, <2>1 DEF Locals, Turned
    <3>3. l \in Locals
      <4>1. 0 \in Nat /\ 0 <= Len(Listed)
        BY <3>1
      <4>2. PageEnd(0, Len(Listed)) \in Nat
            /\ SubSeq(Listed, 0 + 1, PageEnd(0, Len(Listed))) \in Seq(ImageIds)
        BY <1>1, <4>1, PageIs DEF IsPage
      <4> QED BY <1>3, <2>1, <3>1, <4>2 DEF Locals, PagePCs, Turned
    <3> QED BY <1>2, <1>7, <2>1, <3>2, <3>3 DEF Page, HandlerBecomes, Turned
  <2>3. ASSUME ~shifted
        PROVE  OnTrack(l)
    <3>1. m.cover = cover
      BY <1>2, <1>3, <2>3 DEF PageInv, Walks, OnTrack
    <3>2. m.offset <= Len(Listed)
      BY <1>1, <1>3, ListSizes
    <3>3. "thread" \in {"thread", "page"}
      OBVIOUS
    <3> QED BY <1>1, <1>3, <2>1, <3>1, <3>2, <3>3, PageOnTrack
  <2>4. ~Posts(l)
    BY <2>2 DEF Posts
  <2> QED BY <1>3, <1>4, <1>5, <2>2, <2>3, <2>4, MoveKeeps
<1> QED BY <1>6, <1>7 DEF LoadList

\* Reading the album again.
LEMMA ReadKeeps ==
  ASSUME PageInv, PagingAssumption, NEW h \in Handlers, Read(h)
  PROVE  PageInv'
<1>1. PageTypes /\ LocalsInPlace
  BY DEF PageInv
<1>2. PICK m \in Locals : m = handler[h]
  BY <1>1 DEF PageTypes
<1>3. m.pc = "read" /\ m.offset \in Nat
  BY <1>2 DEF Read, At, Locals
<1>4. UNCHANGED <<live, cover, shifted, thread, buttons, again>>
  BY DEF Read, album
<1>5. PICK n \in Nat : n = Len(Listed)
  BY <1>1, ListSizes
<1>6. CASE m.offset < Len(Listed) /\ Page(h, "page") /\ UNCHANGED <<count, cut>>
  <2>1. PICK l : l = Turned(m, "page")
    OBVIOUS
  <2>2. m.offset <= Len(Listed)
    BY <1>3, <1>5, <1>6
  <2>3. handler' = [handler EXCEPT ![h] = l] /\ l \in Locals /\ l.pc = "page" /\ l.total = n
    <3>1. PageEnd(m.offset, Len(Listed)) \in Nat
          /\ SubSeq(Listed, m.offset + 1, PageEnd(m.offset, Len(Listed)))
               \in Seq(ImageIds)
      BY <1>1, <1>3, <2>2, PageIs DEF IsPage
    <3>2. l \in Locals /\ l.pc = "page" /\ l.total = n
      BY <1>5, <2>1, <3>1 DEF Locals, PagePCs, Turned
    <3> QED BY <1>2, <1>6, <2>1, <3>2 DEF Page, HandlerBecomes, Turned
  <2>4. ASSUME ~shifted
        PROVE  OnTrack(l) /\ Reached(l) = Covers + m.offset
    <3>1. Said(m.offset)
      BY <1>2, <1>3, <2>4 DEF PageInv, Walks, OnTrack
    <3>2. PICK pc \in {"thread", "page"} : pc = "page"
      OBVIOUS
    <3> QED BY <1>1, <2>1, <2>2, <3>1, <3>2, PageOnTrack
  <2>5. ~shifted => Leads(l)
    <3>1. ~shifted => thread.seen <= n
      BY <1>5 DEF PageInv, Walks
    <3>2. thread.seen \in Nat
      BY <1>1 DEF PageTypes
    <3> QED BY <2>3, <3>1, <3>2 DEF Leads
  <2>6. Reached(handler[h]) = Covers + m.offset /\ Posts(handler[h])
    BY <1>2, <1>3 DEF Reached, Posts
  <2>7. count' \in Counts /\ count'.edits = count.edits /\ (count'.faults = 0 => count.faults = 0)
        /\ cut' \in BOOLEAN /\ cut' = cut
    BY <1>1, <1>6 DEF PageTypes, Counts
  <2> QED BY <1>4, <2>3, <2>4, <2>5, <2>6, <2>7, MoveKeeps
<1>7. CASE /\ m.offset >= Len(Listed)
           /\ HandlerBecomes(h, IdleHandler) /\ UNCHANGED <<count, cut>>
  <2>1. ~shifted => Said(thread.seen)
    <3> SUFFICES ASSUME ~shifted
                 PROVE  Said(thread.seen)
      OBVIOUS
    <3>1. Said(m.offset) /\ thread.seen <= n
      BY <1>2, <1>3, <1>5 DEF PageInv, Walks, OnTrack
    <3>2. thread.seen \in Nat /\ thread.seen <= m.offset /\ Covers \in {0, 1}
      BY <1>1, <1>3, <1>5, <1>7, <3>1, ListSizes DEF PageTypes
    <3>3. \A i \in 1 .. Covers + thread.seen : i \in 1 .. Covers + m.offset
      BY <1>3, <3>2
    <3> QED BY <3>1, <3>3 DEF Said
  <2>2. count' \in Counts /\ count'.edits = count.edits /\ (count'.faults = 0 => count.faults = 0)
        /\ cut' \in BOOLEAN /\ (cut => cut')
    BY <1>1, <1>7 DEF PageTypes, Counts
  <2>3. handler' = [handler EXCEPT ![h] = IdleHandler]
    BY <1>7 DEF HandlerBecomes
  <2>4. ~shifted /\ ~cut' /\ Leads(handler[h]) => Said(thread.seen)
    BY <2>1
  <2> QED BY <1>4, <2>2, <2>3, <2>4, StopKeeps
<1>8. CASE CountUp("faults", MaxFaults) /\ cut' = TRUE /\ HandlerBecomes(h, IdleHandler)
  <2>1. count' \in Counts /\ count'.edits = count.edits /\ (count'.faults = 0 => count.faults = 0)
    BY <1>1, <1>8, BumpIs
  <2> QED BY <1>4, <1>8, <2>1, StopKeeps DEF HandlerBecomes
<1> QED BY <1>2, <1>6, <1>7, <1>8 DEF Read

\* A sync that takes an image out, or one in, or moves the cover.
LEMMA ShiftKeeps ==
  ASSUME PageInv, Shift
  PROVE  PageInv'
<1>1. PageTypes /\ LocalsInPlace /\ Arrivals
  BY DEF PageInv
<1>2. UNCHANGED <<thread, buttons, handler, again, cut>> /\ shifted' = TRUE
  BY DEF Shift
<1>3. count' \in Counts /\ count'.edits = count.edits + 1 /\ count'.faults = count.faults
  BY <1>1 DEF Shift, CountUp, PageTypes, Counts
<1>4. Cardinality(live) \in Nat /\ count.edits \in Nat
  BY <1>1, FS_CardinalityType DEF PageTypes
<1>5. /\ live' \subseteq ImageIds /\ cover' \in live' \cup {0} /\ IsFiniteSet(live')
      /\ live' \subseteq 1 .. Cardinality(live') + count'.edits
  <2>1. CASE \E i \in live : live' = live \ {i} /\ cover' = IF i = cover THEN 0 ELSE cover
    <3>1. PICK i \in live : live' = live \ {i} /\ cover' = IF i = cover THEN 0 ELSE cover
      BY <2>1
    <3>2. PICK S : S = live
      OBVIOUS
    <3>3. IsFiniteSet(S \ {i}) /\ Cardinality(S \ {i}) = Cardinality(S) - 1
      BY <1>1, <3>2, FS_RemoveElement DEF PageTypes
    <3>4. Cardinality(live') + count'.edits = Cardinality(live) + count.edits
      BY <1>3, <1>4, <3>1, <3>2, <3>3
    <3> QED BY <1>1, <3>1, <3>2, <3>3, <3>4 DEF PageTypes
  <2>2. CASE cover' \in ({0} \cup live) \ {cover} /\ UNCHANGED live
    <3>1. Cardinality(live') + count'.edits = Cardinality(live) + count.edits + 1
      BY <1>3, <1>4, <2>2
    <3>2. PICK N \in Nat : N = Cardinality(live) + count.edits
      BY <1>4
    <3>3. live' \subseteq 1 .. (N + 1)
      BY <1>1, <2>2, <3>2 DEF PageTypes
    <3> QED BY <1>1, <2>2, <3>1, <3>2, <3>3 DEF PageTypes
  <2> QED BY <2>1, <2>2 DEF Shift
<1>6. PageTypes'
  BY <1>1, <1>2, <1>3, <1>5 DEF PageTypes, Counts
<1>7. LocalsInPlace'
  BY <1>1, <1>2 DEF LocalsInPlace, Posts
<1>8. Arrivals'
  BY <1>1, <1>2, <1>3 DEF Arrivals
<1> QED BY <1>2, <1>6, <1>7, <1>8 DEF PageInv

\* A sync's new image.
LEMMA AppendKeeps ==
  ASSUME PageInv, AppendImage
  PROVE  PageInv'
<1>1. PageTypes /\ LocalsInPlace /\ Arrivals
  BY DEF PageInv
<1>2. UNCHANGED <<cover, shifted, thread, buttons, handler, again, cut>>
  BY DEF AppendImage
<1>3. count' \in Counts /\ count'.faults = count.faults
  BY <1>1 DEF AppendImage, CountUp, PageTypes, Counts
<1>4. PageTypes'
  <2>1. /\ live' \subseteq ImageIds /\ IsFiniteSet(live')
        /\ live' \subseteq 1 .. Cardinality(live') + count'.edits
    BY <1>1, ListedGrows
  <2>2. live \subseteq live'
    BY DEF AppendImage
  <2> QED BY <1>1, <1>2, <1>3, <2>1, <2>2 DEF PageTypes, Counts
<1>5. LocalsInPlace'
  BY <1>1, <1>2 DEF LocalsInPlace, Posts
<1>6. Arrivals'
  BY <1>1, <1>2, <1>3 DEF Arrivals
<1>7. GrowsOn
  <2>1. PICK x \in ImageIds : Listed' = Append(Listed, x)
    BY <1>1, ListedGrows
  <2>2. PICK L \in Seq(ImageIds) : L = Listed
    BY <1>1, ListSizes
  <2>3. Len(L) <= Len(Append(L, x)) /\ \A i \in 1 .. Len(L) : Append(L, x)[i] = L[i]
    OBVIOUS
  <2>4. Len(buttons) <= Len(buttons') /\ \A b \in 1 .. Len(buttons) : buttons'[b].offset = buttons[b].offset
    <3>1. Len(buttons) \in Nat
      BY <1>1 DEF PageTypes
    <3> QED BY <1>2, <3>1
  <2> QED BY <1>2, <2>1, <2>2, <2>3, <2>4 DEF GrowsOn
<1>8. ASSUME ~shifted
      PROVE  Walks' /\ WayOn' /\ (~again => OneWay')
  <2>1. Walks /\ WayOn /\ (~again => OneWay)
    BY <1>8 DEF PageInv
  <2>2. /\ Covers' = Covers /\ Long <= Long' /\ \A i \in 1 .. Long : Nth(i)' = Nth(i)
        /\ \A k \in Nat : k <= Len(Listed) /\ Said(k) => Said(k)'
    BY <1>1, <1>4, <1>7, StaysOnTrack
  <2>3. Walks'
    <3>1. thread'.seen <= Len(Listed')
      <4>1. thread.seen <= Len(Listed) /\ thread.seen \in Nat
        BY <1>1, <2>1 DEF Walks, PageTypes
      <4> QED BY <1>1, <1>2, <1>4, <1>7, <4>1, ListSizes, ListSizesThen DEF GrowsOn
    <3> QED BY <1>1, <1>2, <1>4, <1>7, <2>1, <3>1, WalksOn
  <2>4. WayOn'
    <3>1. PICK k \in Nat : k = thread.seen
      BY <1>1 DEF PageTypes
    <3>2. Said(k) => Said(k)'
      BY <2>1, <2>2, <3>1 DEF Walks
    <3>3. \A h \in Handlers : Leads(handler[h]) => Leads(handler[h])'
      BY <1>2 DEF Leads
    <3> QED BY <1>2, <2>1, <3>1, <3>2, <3>3 DEF WayOn
  <2>5. ASSUME ~again
        PROVE  OneWay'
    <3>1. OneWay
      BY <2>1, <2>5
    <3>2. Len(thread.walked) \in Nat /\ Long \in Nat /\ Long' \in Nat
      <4>1. Len(thread.walked) \in Nat
        BY <1>1 DEF PageTypes
      <4>2. Long \in Nat /\ Long' \in Nat
        BY <1>1, <1>4, ListSizes, ListSizesThen DEF Long
      <4> QED BY <4>1, <4>2
    <3>3. Len(thread.walked) <= Long' /\ \A i \in 1 .. Len(thread.walked) : thread.walked[i] = Nth(i)'
      BY <2>2, <3>1, <3>2 DEF OneWay
    <3>4. \A h \in Handlers : (Posts(handler[h]))' <=> Posts(handler[h])
      BY <1>2 DEF Posts
    <3>5. \A h \in Handlers : (Reached(handler[h]))' = Reached(handler[h])
      BY <1>2, <2>2 DEF Reached
    <3> QED BY <1>2, <2>2, <3>1, <3>3, <3>4, <3>5 DEF OneWay
  <2> QED BY <2>3, <2>4, <2>5
<1> QED BY <1>2, <1>4, <1>5, <1>6, <1>8 DEF PageInv

\* A restart.
LEMMA CrashKeeps ==
  ASSUME PageInv, Crash
  PROVE  PageInv'
<1>1. PageTypes /\ LocalsInPlace /\ Arrivals
  BY DEF PageInv
<1>2. UNCHANGED <<live, cover, shifted, thread, buttons, again>> /\ cut' = TRUE
      /\ handler' = [h \in Handlers |-> IdleHandler]
  BY DEF Crash, album
<1>3. count' \in Counts /\ count'.edits = count.edits /\ (count'.faults = 0 => count.faults = 0)
  BY <1>1, BumpIs DEF Crash
<1>4. \A h \in Handlers : handler'[h] = IdleHandler /\ handler'[h].pc = "idle" /\ ~Posts(handler'[h])
  BY <1>2, IdleTyped DEF Posts
<1>5. PageTypes'
  BY <1>1, <1>2, <1>3, IdleTyped DEF PageTypes, Counts
<1>6. LocalsInPlace'
  BY <1>1, <1>2, <1>4 DEF LocalsInPlace, Posts
<1>7. Arrivals'
  BY <1>1, <1>2, <1>3 DEF Arrivals
<1>8. ASSUME ~shifted
      PROVE  Walks' /\ WayOn' /\ (~again => OneWay')
  <2>1. Walks /\ (~again => OneWay)
    BY <1>8 DEF PageInv
  <2>2. /\ Listed' = Listed /\ Covers' = Covers /\ Long' = Long
        /\ \A i : Nth(i)' = Nth(i)
        /\ \A k : Said(k)' <=> Said(k)
    BY <1>2 DEF Listed, Covers, Long, Nth, Said
  <2>3. Walks'
    <3>1. \A h \in Handlers, l \in Locals : handler'[h] = l => OnTrack(l)'
      BY <1>4 DEF OnTrack
    <3> QED BY <1>2, <2>1, <2>2, <3>1 DEF Walks
  <2>4. WayOn'
    BY <1>2 DEF WayOn
  <2>5. \A h \in Handlers : ~(Posts(handler[h]))'
    BY <1>4 DEF Posts
  <2>6. ~again => OneWay'
    BY <1>2, <2>1, <2>2, <2>5 DEF OneWay
  <2> QED BY <2>3, <2>4, <2>6
<1> QED BY <1>2, <1>5, <1>6, <1>7, <1>8 DEF PageInv

\* A button that changes but its offset.
LEMMA ButtonChanges ==
  ASSUME NEW s \in Seq(Presses), NEW b \in DOMAIN s, NEW e \in Presses, e.offset = s[b].offset,
         NEW r, r = [s EXCEPT ![b] = e]
  PROVE  /\ r \in Seq(Presses) /\ DOMAIN r = DOMAIN s /\ Len(r) = Len(s) /\ r[b] = e
         /\ \A a \in DOMAIN s : a # b => r[a] = s[a]
         /\ \A a \in DOMAIN s : r[a].offset = s[a].offset
<1>1. DOMAIN r = DOMAIN s /\ r[b] = e /\ \A a \in DOMAIN s : a # b => r[a] = s[a]
  OBVIOUS
<1>2. Len(s) \in Nat /\ DOMAIN s = 1 .. Len(s) /\ \A a \in 1 .. Len(s) : s[a] \in Presses
  OBVIOUS
<1>3. \A a \in 1 .. Len(s) : r[a] \in Presses
  BY <1>1, <1>2
<1>4. r = [a \in 1 .. Len(s) |-> r[a]]
  BY <1>1, <1>2
<1>5. r \in Seq(Presses) /\ Len(r) = Len(s)
  BY <1>2, <1>3, <1>4
<1> QED BY <1>1, <1>5

\* A press of a continue button.
LEMMA PressMoreKeeps ==
  ASSUME PageInv, NEW h \in Handlers, NEW b, PressMore(h, b)
  PROVE  PageInv'
<1>1. PageTypes /\ LocalsInPlace /\ Arrivals
  BY DEF PageInv
<1>2. handler[h] = IdleHandler /\ handler[h].pc = "idle" /\ ~Posts(handler[h])
  BY <1>1, IdleTyped DEF LocalsInPlace, PressMore, At, Posts
<1>3. UNCHANGED <<live, cover, shifted, thread, cut>> /\ again' = (again \/ buttons[b].pressed)
  BY DEF PressMore, album
<1>4. b \in DOMAIN buttons /\ buttons' = [buttons EXCEPT ![b].pressed = TRUE] /\ b \in Nat
  BY <1>1 DEF PressMore, PageTypes
<1>5. PICK l : l = [IdleHandler EXCEPT !.pc = "clear", !.offset = b]
  OBVIOUS
<1>6. l \in Locals /\ l.pc = "clear" /\ l.offset = b
  BY <1>4, <1>5, IdleTyped DEF Locals, PagePCs, IdleHandler
<1>7. handler' = [handler EXCEPT ![h] = l]
  BY <1>5 DEF PressMore, HandlerBecomes
<1>8. /\ handler' \in [Handlers -> Locals] /\ handler'[h] = l
      /\ \A g \in Handlers : g # h => handler'[g] = handler[g]
  BY <1>1, <1>6, <1>7 DEF PageTypes
<1>9. count' \in Counts /\ count'.edits = count.edits /\ (count'.faults = 0 => count.faults = 0)
  BY <1>1, BumpIs DEF PressMore
<1>10. /\ buttons' \in Seq(Presses) /\ DOMAIN buttons' = DOMAIN buttons /\ Len(buttons') = Len(buttons)
       /\ buttons'[b].pressed /\ buttons'[b].offset = buttons[b].offset /\ buttons'[b].shown = buttons[b].shown
       /\ \A a \in DOMAIN buttons : a # b => buttons'[a] = buttons[a]
  <2>1. buttons \in Seq(Presses) /\ buttons[b] \in Presses
    BY <1>1, <1>4 DEF PageTypes
  <2>2. [buttons[b] EXCEPT !.pressed = TRUE] \in Presses
    BY <2>1 DEF Presses
  <2>3. PICK e \in Presses : e = [buttons[b] EXCEPT !.pressed = TRUE]
    BY <2>2
  <2>4. e.pressed /\ e.offset = buttons[b].offset /\ e.shown = buttons[b].shown
    BY <2>1, <2>3 DEF Presses
  <2>5. buttons' = [buttons EXCEPT ![b] = e]
    BY <1>4, <2>3
  <2>6. /\ buttons' \in Seq(Presses) /\ DOMAIN buttons' = DOMAIN buttons
        /\ Len(buttons') = Len(buttons) /\ buttons'[b] = e
        /\ \A a \in DOMAIN buttons : a # b => buttons'[a] = buttons[a]
    <3>1. PICK s \in Seq(Presses) : s = buttons
      BY <2>1
    <3>2. PICK r : r = buttons'
      OBVIOUS
    <3>3. b \in DOMAIN s /\ e.offset = s[b].offset /\ r = [s EXCEPT ![b] = e]
      BY <1>4, <2>4, <2>5, <3>1, <3>2
    <3>4. /\ r \in Seq(Presses) /\ DOMAIN r = DOMAIN s /\ Len(r) = Len(s) /\ r[b] = e
          /\ \A a \in DOMAIN s : a # b => r[a] = s[a]
      BY <3>3, ButtonChanges
    <3> QED BY <3>1, <3>2, <3>4
  <2> QED BY <2>4, <2>6
<1>11. again' \in BOOLEAN /\ (~again' => ~again /\ ~buttons[b].pressed)
  <2>1. buttons[b].pressed \in BOOLEAN
    <3>1. buttons[b] \in Presses
      BY <1>1, <1>4 DEF PageTypes
    <3> QED BY <3>1 DEF Presses
  <2> QED BY <1>1, <1>3, <2>1 DEF PageTypes
<1>12. PageTypes'
  BY <1>1, <1>3, <1>8, <1>9, <1>10, <1>11 DEF PageTypes, Counts
<1>13. LocalsInPlace'
  <2>1. thread.open
    BY <1>1, <1>4 DEF LocalsInPlace, PageTypes
  <2>2. \A g \in Handlers :
          /\ handler'[g].pc = "idle" => handler'[g] = IdleHandler
          /\ handler'[g].pc \in {"cover", "list", "thread", "lead"} => handler'[g].offset = 0
    BY <1>1, <1>6, <1>8 DEF LocalsInPlace
  <2>3. \A g \in Handlers : handler'[g].pc = "clear" =>
          handler'[g].offset \in DOMAIN buttons' /\ buttons'[handler'[g].offset].pressed
    BY <1>1, <1>4, <1>6, <1>8, <1>10 DEF LocalsInPlace
  <2>4. \A a \in DOMAIN buttons' : ~buttons'[a].pressed => buttons'[a].shown
    BY <1>1, <1>10 DEF LocalsInPlace
  <2> QED BY <1>3, <2>1, <2>2, <2>3, <2>4 DEF LocalsInPlace
<1>14. Arrivals'
  BY <1>1, <1>3, <1>9 DEF Arrivals
<1>15. ASSUME ~shifted
       PROVE  Walks' /\ WayOn' /\ (~again' => OneWay')
  <2>1. Walks /\ (~again => OneWay)
    BY <1>15 DEF PageInv
  <2>2. /\ Listed' = Listed /\ Covers' = Covers /\ Long' = Long
        /\ \A i : Nth(i)' = Nth(i)
        /\ \A k : Said(k)' <=> Said(k)
    BY <1>3 DEF Listed, Covers, Long, Nth, Said
  <2>3. \A m : OnTrack(m)' <=> OnTrack(m)
    BY <1>3, <2>2 DEF OnTrack
  <2>4. Walks'
    <3>1. OnTrack(l)
      BY <1>6 DEF OnTrack
    <3>2. \A g \in Handlers, m \in Locals : handler'[g] = m => OnTrack(m)'
      BY <1>8, <2>1, <2>3, <3>1 DEF Walks
    <3>3. \A a \in DOMAIN buttons', k \in Nat : buttons'[a].offset = k => Said(k) /\ k <= Len(Listed)
      BY <1>4, <1>10, <2>1 DEF Walks
    <3> QED BY <1>3, <2>1, <2>2, <3>2, <3>3 DEF Walks
  <2>5. WayOn'
    <3>1. Leads(handler[h])'
      BY <1>6, <1>8 DEF Leads
    <3> QED BY <3>1 DEF WayOn
  <2>6. ASSUME ~again'
        PROVE  OneWay'
    <3>1. OneWay /\ ~buttons[b].pressed
      BY <1>11, <2>1, <2>6
    <3>2. \A g \in Handlers : ~Posts(handler[g])
      BY <1>4, <3>1 DEF OneWay
    <3>3. \A g \in Handlers : (Posts(handler[g]))' => g = h
      BY <1>8, <3>2 DEF Posts
    <3>4. \A a \in DOMAIN buttons' : buttons'[a].pressed
      BY <1>4, <1>10, <3>1 DEF OneWay
    <3>5. Len(thread.walked) = Covers + buttons[b].offset
      BY <1>4, <3>1 DEF OneWay
    <3>6. (Reached(handler[h]))' = Covers + buttons[b].offset
      BY <1>6, <1>8, <1>10, <2>2 DEF Reached
    <3>7. \A g \in Handlers : (Posts(handler[g]))' => Len(thread'.walked) = (Reached(handler[g]))'
      BY <1>3, <3>3, <3>5, <3>6
    <3>8. Len(thread'.walked) <= Long' /\ \A i \in 1 .. Len(thread'.walked) : thread'.walked[i] = Nth(i)'
      BY <1>3, <2>2, <3>1 DEF OneWay
    <3> QED BY <3>3, <3>4, <3>7, <3>8 DEF OneWay
  <2> QED BY <2>4, <2>5, <2>6
<1> QED BY <1>3, <1>12, <1>13, <1>14, <1>15 DEF PageInv

\* The pressed button is taken down, or stays.
LEMMA ClearKeeps ==
  ASSUME PageInv, NEW h \in Handlers, Clear(h)
  PROVE  PageInv'
<1>1. PageTypes /\ LocalsInPlace /\ Arrivals
  BY DEF PageInv
<1>2. PICK m \in Locals : m = handler[h]
  BY <1>1 DEF PageTypes
<1>3. m.pc = "clear" /\ Posts(handler[h])
  BY <1>2 DEF Clear, At, Posts
<1>4. PICK b : b = m.offset
  OBVIOUS
<1>5. b \in DOMAIN buttons /\ buttons[b].pressed /\ thread.open
  BY <1>1, <1>2, <1>3, <1>4 DEF LocalsInPlace
<1>6. PICK o : o = buttons[b].offset
  OBVIOUS
<1>7. buttons \in Seq(Presses) /\ buttons[b] \in Presses /\ o \in Nat
  <2>1. buttons \in Seq(Presses) /\ buttons[b] \in Presses
    BY <1>1, <1>5 DEF PageTypes
  <2> QED BY <1>6, <2>1 DEF Presses
<1>8. PICK l : l = [m EXCEPT !.pc = "read", !.offset = o]
  OBVIOUS
<1>9. l \in Locals /\ l.pc = "read" /\ l.offset = o
  BY <1>7, <1>8 DEF Locals, PagePCs
<1>10. handler' = [handler EXCEPT ![h] = l]
  BY <1>2, <1>4, <1>6, <1>8 DEF Clear, HandlerBecomes
<1>11. /\ handler' \in [Handlers -> Locals] /\ handler'[h] = l
       /\ \A g \in Handlers : g # h => handler'[g] = handler[g]
  BY <1>1, <1>9, <1>10 DEF PageTypes
<1>12. UNCHANGED <<live, cover, shifted, thread, cut, again>>
  BY DEF Clear, album
<1>13. /\ count' \in Counts /\ count'.edits = count.edits /\ (count'.faults = 0 => count.faults = 0)
       /\ buttons' = buttons \/ buttons' = [buttons EXCEPT ![b].shown = FALSE]
  <2>1. CASE buttons' = [buttons EXCEPT ![b].shown = FALSE] /\ UNCHANGED count
    BY <1>1, <2>1 DEF PageTypes, Counts
  <2>2. CASE UNCHANGED buttons /\ CountUp("faults", MaxFaults)
    BY <1>1, <2>2, BumpIs
  <2> QED BY <1>2, <1>4, <2>1, <2>2 DEF Clear
<1>14. /\ buttons' \in Seq(Presses) /\ DOMAIN buttons' = DOMAIN buttons /\ Len(buttons') = Len(buttons)
       /\ buttons'[b].pressed
       /\ \A a \in DOMAIN buttons : a # b => buttons'[a] = buttons[a]
       /\ \A a \in DOMAIN buttons : buttons'[a].offset = buttons[a].offset
  <2>1. CASE buttons' = buttons
    BY <1>5, <1>7, <2>1
  <2>2. CASE buttons' = [buttons EXCEPT ![b].shown = FALSE]
    <3>1. PICK e \in Presses : e = [buttons[b] EXCEPT !.shown = FALSE]
      BY <1>7 DEF Presses
    <3>2. e.pressed = buttons[b].pressed /\ e.offset = buttons[b].offset
      BY <1>7, <3>1 DEF Presses
    <3>3. PICK s \in Seq(Presses) : s = buttons
      BY <1>7
    <3>4. PICK r : r = buttons'
      OBVIOUS
    <3>5. b \in DOMAIN s /\ e.offset = s[b].offset /\ r = [s EXCEPT ![b] = e]
      BY <1>5, <2>2, <3>1, <3>2, <3>3, <3>4
    <3>6. /\ r \in Seq(Presses) /\ DOMAIN r = DOMAIN s /\ Len(r) = Len(s) /\ r[b] = e
          /\ \A a \in DOMAIN s : a # b => r[a] = s[a]
          /\ \A a \in DOMAIN s : r[a].offset = s[a].offset
      BY <3>5, ButtonChanges
    <3> QED BY <1>5, <3>2, <3>3, <3>4, <3>6
  <2> QED BY <1>13, <2>1, <2>2
<1>15. PageTypes'
  BY <1>1, <1>11, <1>12, <1>13, <1>14 DEF PageTypes, Counts
<1>16. LocalsInPlace'
  <2>1. \A g \in Handlers :
          /\ handler'[g].pc = "idle" => handler'[g] = IdleHandler
          /\ handler'[g].pc \in {"cover", "list", "thread", "lead"} => handler'[g].offset = 0
    BY <1>1, <1>9, <1>11 DEF LocalsInPlace
  <2>2. \A g \in Handlers : handler'[g].pc = "clear" =>
          handler'[g].offset \in DOMAIN buttons' /\ buttons'[handler'[g].offset].pressed
    BY <1>1, <1>9, <1>11, <1>14 DEF LocalsInPlace
  <2>3. \A a \in DOMAIN buttons' : ~buttons'[a].pressed => buttons'[a].shown
    BY <1>1, <1>14 DEF LocalsInPlace
  <2> QED BY <1>5, <1>12, <2>1, <2>2, <2>3 DEF LocalsInPlace
<1>17. Arrivals'
  BY <1>1, <1>12, <1>13 DEF Arrivals
<1>18. ASSUME ~shifted
       PROVE  Walks' /\ WayOn' /\ (~again => OneWay')
  <2>1. Walks /\ (~again => OneWay)
    BY <1>18 DEF PageInv
  <2>2. /\ Listed' = Listed /\ Covers' = Covers /\ Long' = Long
        /\ \A i : Nth(i)' = Nth(i)
        /\ \A k : Said(k)' <=> Said(k)
    BY <1>12 DEF Listed, Covers, Long, Nth, Said
  <2>3. \A k : OnTrack(k)' <=> OnTrack(k)
    BY <1>12, <2>2 DEF OnTrack
  <2>4. Walks'
    <3>1. OnTrack(l)
      BY <1>5, <1>6, <1>7, <1>9, <2>1 DEF OnTrack, Walks
    <3>2. \A g \in Handlers, k \in Locals : handler'[g] = k => OnTrack(k)'
      BY <1>11, <2>1, <2>3, <3>1 DEF Walks
    <3>3. \A a \in DOMAIN buttons', k \in Nat : buttons'[a].offset = k => Said(k) /\ k <= Len(Listed)
      BY <1>14, <2>1 DEF Walks
    <3> QED BY <1>12, <2>1, <2>2, <3>2, <3>3 DEF Walks
  <2>5. WayOn'
    <3>1. Leads(handler[h])'
      BY <1>9, <1>11 DEF Leads
    <3> QED BY <3>1 DEF WayOn
  <2>6. ASSUME ~again
        PROVE  OneWay'
    <3>1. OneWay
      BY <2>1, <2>6
    <3>2. \A g \in Handlers : (Posts(handler[g]))' => g = h
      BY <1>3, <1>11, <3>1 DEF Posts, OneWay
    <3>3. \A a \in DOMAIN buttons' : buttons'[a].pressed
      BY <1>3, <1>14, <3>1 DEF OneWay
    <3>4. Len(thread.walked) = Covers + o
      BY <1>2, <1>3, <1>4, <1>6, <3>1 DEF OneWay, Reached
    <3>5. (Reached(handler[h]))' = Covers + o
      BY <1>9, <1>11, <2>2 DEF Reached
    <3>6. \A g \in Handlers : (Posts(handler[g]))' => Len(thread'.walked) = (Reached(handler[g]))'
      BY <1>12, <3>2, <3>4, <3>5
    <3>7. Len(thread'.walked) <= Long' /\ \A i \in 1 .. Len(thread'.walked) : thread'.walked[i] = Nth(i)'
      BY <1>12, <2>2, <3>1 DEF OneWay
    <3> QED BY <3>2, <3>3, <3>6, <3>7 DEF OneWay
  <2> QED BY <2>4, <2>5, <2>6
<1> QED BY <1>12, <1>15, <1>16, <1>17, <1>18 DEF PageInv

\* The thread is opened, or there was one.
LEMMA OpenThreadKeeps ==
  ASSUME PageInv, NEW h \in Handlers, OpenThread(h)
  PROVE  PageInv'
<1>1. PageTypes /\ LocalsInPlace /\ Arrivals
  BY DEF PageInv
<1>2. PICK m \in Locals : m = handler[h]
  BY <1>1 DEF PageTypes
<1>3. m.pc = "thread" /\ m.offset = 0 /\ ~Leads(handler[h])
  BY <1>1, <1>2 DEF LocalsInPlace, OpenThread, At, Leads
<1>4. UNCHANGED <<live, cover, shifted, buttons, count, again, cut>>
  BY DEF OpenThread, album
<1>5. count' \in Counts /\ cut' \in BOOLEAN
  BY <1>1, <1>4 DEF PageTypes, Counts
<1>6. CASE HandlerBecomes(h, IdleHandler) /\ UNCHANGED thread
  BY <1>3, <1>4, <1>5, <1>6, StopKeeps DEF HandlerBecomes
<1>7. CASE ~thread.open /\ thread' = [thread EXCEPT !.open = TRUE] /\ GoesTo(h, "lead")
  <2>1. PICK l : l = [m EXCEPT !.pc = "lead"]
    OBVIOUS
  <2>2. /\ l \in Locals /\ l.pc = "lead" /\ l.offset = 0 /\ l.cover = m.cover
        /\ l.page = m.page /\ l.end = m.end /\ l.total = m.total /\ l.total \in Nat
    BY <1>3, <2>1 DEF Locals, PagePCs
  <2>3. handler' = [handler EXCEPT ![h] = l]
    BY <1>2, <1>7, <2>1 DEF GoesTo, HandlerBecomes
  <2>4. /\ handler' \in [Handlers -> Locals] /\ handler'[h] = l
        /\ \A g \in Handlers : g # h => handler'[g] = handler[g]
    BY <1>1, <2>2, <2>3 DEF PageTypes
  <2>5. /\ thread' \in [open : BOOLEAN, walked : Seq(ImageIds),
                        arrived : SUBSET ImageIds, seen : Nat]
        /\ thread'.open /\ thread'.walked = thread.walked /\ thread'.arrived = thread.arrived
        /\ thread'.seen = thread.seen
    BY <1>1, <1>7 DEF PageTypes
  <2>6. /\ thread.walked = <<>> /\ thread.seen = 0 /\ buttons = <<>> /\ DOMAIN buttons = {}
        /\ \A g \in Handlers : ~Posts(handler[g])
    BY <1>1, <1>7 DEF LocalsInPlace
  <2>7. PageTypes'
    BY <1>1, <1>4, <2>4, <2>5 DEF PageTypes
  <2>8. LocalsInPlace'
    BY <1>1, <1>4, <2>2, <2>4, <2>5 DEF LocalsInPlace
  <2>9. Arrivals'
    BY <1>1, <1>4, <2>5 DEF Arrivals
  <2>10. ASSUME ~shifted
         PROVE  Walks' /\ WayOn' /\ OneWay'
    <3>1. Walks
      BY <2>10 DEF PageInv
    <3>2. /\ Listed' = Listed /\ Covers' = Covers /\ Long' = Long
          /\ \A i : Nth(i)' = Nth(i)
          /\ \A k : Said(k)' <=> Said(k)
      BY <1>4, <2>5 DEF Listed, Covers, Long, Nth, Said
    <3>3. \A k : OnTrack(k)' <=> OnTrack(k)
      BY <1>4, <3>2 DEF OnTrack
    <3>4. Walks'
      <4>1. OnTrack(m)
        BY <1>2, <3>1 DEF Walks
      <4>2. OnTrack(l)
        BY <1>3, <2>2, <4>1 DEF OnTrack
      <4>3. \A g \in Handlers, k \in Locals : handler'[g] = k => OnTrack(k)'
        BY <2>4, <3>1, <3>3, <4>2 DEF Walks
      <4> QED BY <1>4, <2>5, <3>1, <3>2, <4>3 DEF Walks
    <3>5. WayOn'
      <4>1. (Leads(handler[h]))'
        BY <2>2, <2>4, <2>5, <2>6 DEF Leads
      <4> QED BY <4>1 DEF WayOn
    <3>6. OneWay'
      <4>1. \A g \in Handlers : (Posts(handler[g]))' => g = h
        BY <2>4, <2>6 DEF Posts
      <4>2. DOMAIN buttons' = {}
        BY <1>4, <2>6
      <4>3. Len(thread'.walked) = 0 /\ (Reached(handler[h]))' = 0
        BY <2>2, <2>4, <2>5, <2>6 DEF Reached
      <4>4. Long' \in Nat
        BY <2>7, ListSizesThen DEF Long
      <4> QED BY <4>1, <4>2, <4>3, <4>4 DEF OneWay
    <3> QED BY <3>4, <3>5, <3>6
  <2> QED BY <1>4, <2>7, <2>8, <2>9, <2>10 DEF PageInv
<1> QED BY <1>6, <1>7 DEF OpenThread

\* s is what comes next in the thread for a goroutine with the locals m.
NextWords(m, s) ==
  \A k \in 1 .. Len(s) : Reached(m) + k \in 1 .. Long /\ s[k] = Nth(Reached(m) + k)

\* What is left of the page of l is a piece of the list.
LeftOver(l) == \A i \in 1 .. Len(l.page) : l.page[i] = Listed[l.end - Len(l.page) + i]

\* A goroutine posts what comes next in the thread.
LEMMA SpeakKeeps ==
  ASSUME PageInv, NEW h \in Handlers, NEW m \in Locals, handler[h] = m, m.pc \in {"lead", "page"},
         NEW s \in Seq(ImageIds), Sends(s),
         NEW l \in Locals, handler' = [handler EXCEPT ![h] = l],
         l.pc = "page", l.end = m.end, l.total = m.total, Len(l.page) <= Len(m.page),
         UNCHANGED <<live, cover, shifted, buttons, again, cut>>,
         ~shifted => LeftOver(l) /\ NextWords(m, s) /\ Reached(l) = Reached(m) + Len(s)
  PROVE  PageInv'
<1>1. PageTypes /\ LocalsInPlace /\ Arrivals
  BY DEF PageInv
<1>2. /\ handler' \in [Handlers -> Locals] /\ handler'[h] = l
      /\ \A g \in Handlers : g # h => handler'[g] = handler[g]
  BY <1>1 DEF PageTypes
<1>3. /\ thread'.walked \in Seq(ImageIds) /\ thread'.walked = thread.walked \o s
      /\ thread' \in [open : BOOLEAN, walked : Seq(ImageIds),
                      arrived : SUBSET ImageIds, seen : Nat]
      /\ thread'.open = thread.open /\ thread'.seen = thread.seen
      /\ ToSet(thread'.walked) = ToSet(thread.walked) \cup ToSet(s)
      /\ count' \in Counts /\ count'.edits = count.edits
      /\ count'.faults = 0 =>
           count.faults = 0 /\ thread'.arrived = thread.arrived \cup ToSet(s)
  BY <1>1, SendsIs
<1>4. Posts(handler[h]) /\ thread.open /\ Posts(l)
  BY <1>1 DEF LocalsInPlace, Posts
<1>5. PageTypes'
  BY <1>1, <1>2, <1>3 DEF PageTypes, Counts
<1>6. LocalsInPlace'
  <2>1. \A g \in Handlers :
          /\ handler'[g].pc = "idle" => handler'[g] = IdleHandler
          /\ handler'[g].pc \in {"cover", "list", "thread", "lead"} => handler'[g].offset = 0
          /\ handler'[g].pc = "clear" =>
               handler'[g].offset \in DOMAIN buttons /\ buttons[handler'[g].offset].pressed
    BY <1>1, <1>2 DEF LocalsInPlace
  <2>2. \A a \in DOMAIN buttons : ~buttons[a].pressed => buttons[a].shown
    BY <1>1 DEF LocalsInPlace
  <2> QED BY <1>3, <1>4, <2>1, <2>2 DEF LocalsInPlace
<1>7. Arrivals'
  BY <1>1, <1>3 DEF Arrivals
<1>8. ASSUME ~shifted
      PROVE  Walks' /\ WayOn' /\ (~again => OneWay')
  <2>1. Walks /\ WayOn /\ (~again => OneWay)
    BY <1>8 DEF PageInv
  <2>2. /\ Listed' = Listed /\ Covers' = Covers /\ Long' = Long
        /\ \A i : Nth(i)' = Nth(i)
    BY DEF Listed, Covers, Long, Nth
  <2>3. GrowsOn
    <3>1. Len(Listed) \in Nat /\ Len(buttons) \in Nat
      BY <1>1, ListSizes DEF PageTypes
    <3> QED BY <1>3, <2>2, <3>1 DEF GrowsOn
  <2>4. PICK r : r = Reached(m)
    OBVIOUS
  <2>5. /\ m.end \in Nat /\ m.total \in Nat /\ Len(m.page) \in Nat /\ Len(l.page) \in Nat
        /\ Len(s) \in Nat /\ Covers \in {0, 1}
    BY <1>1, ListSizes DEF Locals
  <2>6. OnTrack(m)
    BY <2>1 DEF Walks
  <2>7. /\ m.end <= m.total /\ m.total <= Len(Listed) /\ Len(m.page) <= m.end
        /\ Paged(m.total) \/ m.end = m.total
    BY <2>6 DEF OnTrack
  <2>8. r \in Nat /\ r + Len(s) = Covers + (l.end - Len(l.page))
    <3>1. r = 0 \/ r = Covers + (m.end - Len(m.page))
      BY <2>4 DEF Reached
    <3>2. r \in Nat
      BY <2>5, <2>7, <3>1
    <3>3. Reached(l) = Covers + (l.end - Len(l.page))
      BY DEF Reached
    <3> QED BY <1>8, <2>4, <3>2, <3>3
  <2>9. \A k \in 1 .. Len(s) : r + k \in 1 .. Long /\ s[k] = Nth(r + k)
    BY <1>8, <2>4 DEF NextWords
  <2>10. \A i \in 1 .. r : Nth(i) \in ToSet(thread.walked)
    <3>1. CASE m.pc = "lead"
      BY <2>4, <3>1 DEF Reached
    <3>2. CASE m.pc = "page"
      <4>1. r = Covers + (m.end - Len(m.page))
        BY <2>4, <3>2 DEF Reached
      <4> QED BY <2>6, <3>2, <4>1 DEF OnTrack, Said
    <3> QED BY <3>1, <3>2
  <2>11. \A k \in 1 .. Len(s) : s[k] \in ToSet(s)
    BY DEF ToSet
  <2>12. OnTrack(l)'
    <3>1. PICK k : k = l.end - Len(l.page)
      OBVIOUS
    <3>2. ASSUME NEW i \in 1 .. Covers + k
          PROVE  Nth(i) \in ToSet(thread'.walked)
      <4>1. CASE i <= r
        <5>1. i \in 1 .. r
          BY <2>8, <4>1
        <5> QED BY <1>3, <2>10, <5>1
      <4>2. CASE ~(i <= r)
        <5>1. i - r \in 1 .. Len(s) /\ r + (i - r) = i
          BY <2>5, <2>7, <2>8, <3>1, <4>2
        <5>2. PICK j \in 1 .. Len(s) : r + j = i
          BY <5>1
        <5>3. Nth(i) = s[j] /\ s[j] \in ToSet(s)
          BY <2>9, <2>11, <5>2
        <5> QED BY <1>3, <5>3
      <4> QED BY <4>1, <4>2
    <3>3. Said(k)'
      BY <2>2, <3>2 DEF Said
    <3>4. Len(l.page) <= l.end /\ l.end <= l.total
      BY <2>5, <2>7
    <3>5. l.end <= l.total /\ l.total <= Len(Listed') /\ (Paged(l.total) \/ l.end = l.total)
      BY <2>2, <2>7
    <3>6. \A i \in 1 .. Len(l.page) : l.page[i] = Listed'[l.end - Len(l.page) + i]
      BY <1>8, <2>2 DEF LeftOver
    <3> QED BY <3>1, <3>3, <3>4, <3>5, <3>6 DEF OnTrack
  <2>13. Walks'
    <3>1. \A g \in Handlers, k \in Locals : handler'[g] = k => handler[g] = k \/ OnTrack(k)'
      BY <1>2, <2>12
    <3>2. \A b \in 1 .. Len(buttons'), k \in Nat :
            buttons'[b].offset = k => b \in 1 .. Len(buttons) \/ (Said(k)' /\ k <= Len(Listed'))
      OBVIOUS
    <3>3. \A x \in ToSet(thread'.walked) :
            x \in ToSet(thread.walked) \/ \E i \in 1 .. Long' : x = Nth(i)'
      <4> SUFFICES ASSUME NEW x \in ToSet(s)
                   PROVE  \E i \in 1 .. Long' : x = Nth(i)'
        BY <1>3
      <4>1. PICK k \in 1 .. Len(s) : x = s[k]
        BY DEF ToSet
      <4>2. PICK i : i = r + k
        OBVIOUS
      <4> QED BY <2>2, <2>9, <4>1, <4>2
    <3>4. thread'.seen <= Len(Listed')
      BY <1>3, <2>1, <2>2 DEF Walks
    <3> QED BY <1>1, <1>5, <2>1, <2>3, <3>1, <3>2, <3>3, <3>4, WalksOn
  <2>14. WayOn'
    <3>1. \A g \in Handlers : Leads(handler[g]) => (Leads(handler[g]))'
      BY <1>2, <1>3 DEF Leads
    <3>2. PICK k \in Nat : k = thread.seen
      BY <1>1 DEF PageTypes
    <3>3. Said(k) => Said(k)'
      BY <1>1, <1>5, <2>1, <2>3, <3>2, StaysOnTrack DEF Walks
    <3> QED BY <1>3, <2>1, <3>1, <3>2, <3>3 DEF WayOn
  <2>15. ASSUME ~again
         PROVE  OneWay'
    <3>1. OneWay
      BY <2>1, <2>15
    <3>2. \A g \in Handlers : (Posts(handler[g]))' => g = h
      BY <1>2, <1>4, <3>1 DEF Posts, OneWay
    <3>3. \A a \in DOMAIN buttons' : buttons'[a].pressed
      BY <1>4, <3>1 DEF OneWay
    <3>4. PICK w \in Seq(ImageIds) : w = thread.walked
      BY <1>1 DEF PageTypes
    <3>5. Len(w) = r
      BY <1>4, <2>4, <3>1, <3>4 DEF OneWay
    <3>6. (Reached(handler[h]))' = r + Len(s)
      BY <1>2, <2>2, <2>8 DEF Reached
    <3>7. Len(w \o s) = r + Len(s) /\ thread'.walked = w \o s
      <4>1. Len(w \o s) = Len(w) + Len(s)
        OBVIOUS
      <4> QED BY <1>3, <3>4, <3>5, <4>1
    <3>8. \A g \in Handlers : (Posts(handler[g]))' => Len(thread'.walked) = (Reached(handler[g]))'
      BY <3>2, <3>6, <3>7
    <3>9. r + Len(s) <= Long
      <4>1. Long \in Nat /\ Len(w) <= Long
        BY <1>1, <3>1, <3>4, ListSizes DEF OneWay, Long
      <4>2. CASE Len(s) = 0
        BY <2>8, <3>5, <4>1, <4>2
      <4>3. CASE Len(s) # 0
        <5>1. Len(s) \in 1 .. Len(s)
          BY <2>5, <4>3
        <5> QED BY <2>9, <5>1
      <4> QED BY <4>2, <4>3
    <3>10. \A i \in 1 .. Len(w \o s) : (w \o s)[i] = Nth(i)
      <4> SUFFICES ASSUME NEW i \in 1 .. Len(w \o s)
                   PROVE  (w \o s)[i] = Nth(i)
        OBVIOUS
      <4>1. CASE i <= r
        <5>1. i \in 1 .. Len(w) /\ (w \o s)[i] = w[i]
          BY <3>5, <4>1
        <5> QED BY <3>1, <3>4, <5>1 DEF OneWay
      <4>2. CASE ~(i <= r)
        <5>1. i - r \in 1 .. Len(s) /\ (w \o s)[i] = s[i - r] /\ r + (i - r) = i
          BY <2>8, <3>5, <3>7, <4>2
        <5>2. PICK j : j = i - r
          OBVIOUS
        <5> QED BY <2>9, <5>1, <5>2
      <4> QED BY <4>1, <4>2
    <3> QED BY <2>2, <3>2, <3>3, <3>7, <3>8, <3>9, <3>10 DEF OneWay
  <2> QED BY <2>13, <2>14, <2>15
<1> QED BY <1>5, <1>6, <1>7, <1>8 DEF PageInv

\* The cover leads the first page.
LEMMA SendCoverKeeps ==
  ASSUME PageInv, NEW h \in Handlers, SendCover(h)
  PROVE  PageInv'
<1>1. PageTypes /\ LocalsInPlace
  BY DEF PageInv
<1>2. PICK m \in Locals : m = handler[h]
  BY <1>1 DEF PageTypes
<1>3. m.pc = "lead"
  BY <1>2 DEF SendCover, At
<1>4. PICK s : s = IF m.cover = 0 THEN <<>> ELSE <<m.cover>>
  OBVIOUS
<1>5. m.cover \in Nat
  BY DEF Locals
<1>6. s \in Seq(ImageIds) /\ (m.cover = 0 => Len(s) = 0) /\ (m.cover # 0 => Len(s) = 1 /\ s[1] = m.cover)
  <2>1. CASE m.cover = 0
    BY <1>4, <2>1
  <2>2. CASE m.cover # 0
    <3>1. m.cover \in ImageIds
      BY <1>5, <2>2 DEF ImageIds
    <3> QED BY <1>4, <2>2, <3>1
  <2> QED BY <2>1, <2>2
<1>7. Sends(s)
  BY <1>2, <1>4 DEF SendCover
<1>8. PICK l : l = [m EXCEPT !.pc = "page"]
  OBVIOUS
<1>9. l \in Locals /\ l.pc = "page" /\ l.end = m.end /\ l.total = m.total /\ l.page = m.page
  BY <1>8 DEF Locals, PagePCs
<1>10. handler' = [handler EXCEPT ![h] = l]
  BY <1>2, <1>8 DEF SendCover, GoesTo, HandlerBecomes
<1>11. UNCHANGED <<live, cover, shifted, buttons, again, cut>>
  BY DEF SendCover, album
<1>12. ASSUME ~shifted
       PROVE  LeftOver(l) /\ NextWords(m, s) /\ Reached(l) = Reached(m) + Len(s)
  <2>1. OnTrack(m)
    BY <1>2, <1>12 DEF PageInv, Walks
  <2>2. LeftOver(l)
    BY <1>3, <1>9, <2>1 DEF OnTrack, LeftOver
  <2>3. m.cover = cover /\ m.end = Len(m.page) /\ m.end \in Nat
    BY <1>3, <2>1 DEF OnTrack, Locals
  <2>4. Reached(m) = 0 /\ Len(s) = Covers /\ Covers \in {0, 1}
    BY <1>3, <1>6, <2>3 DEF Reached, Covers
  <2>5. Reached(l) = Covers
    BY <1>9, <2>3, <2>4 DEF Reached
  <2>6. NextWords(m, s)
    <3> SUFFICES ASSUME NEW k \in 1 .. Len(s)
                 PROVE  0 + k \in 1 .. Long /\ s[k] = Nth(0 + k)
      BY <2>4 DEF NextWords
    <3>1. k = 1 /\ Covers = 1 /\ Len(Listed) \in Nat
      BY <1>1, <2>4, ListSizes
    <3>2. Nth(1) = cover /\ 1 \in 1 .. Long
      BY <3>1 DEF Nth, Long
    <3> QED BY <1>6, <2>3, <2>4, <3>1, <3>2 DEF Covers
  <2> QED BY <2>2, <2>4, <2>5, <2>6
<1>13. m.pc \in {"lead", "page"} /\ Len(l.page) <= Len(m.page) /\ handler[h] = m
  <2>1. Len(m.page) \in Nat
    BY DEF Locals
  <2> QED BY <1>2, <1>3, <1>9, <2>1
<1> QED BY <1>6, <1>7, <1>9, <1>10, <1>11, <1>12, <1>13, SpeakKeeps

\* A window of the page.
LEMMA SendWindowKeeps ==
  ASSUME PageInv, PagingAssumption, NEW h \in Handlers, SendWindow(h)
  PROVE  PageInv'
<1>1. PageTypes /\ LocalsInPlace
  BY DEF PageInv
<1>2. PICK m \in Locals : m = handler[h]
  BY <1>1 DEF PageTypes
<1>3. m.pc = "page" /\ m.page # <<>>
  BY <1>2 DEF SendWindow, At
<1>4. PICK p \in Seq(ImageIds) : p = m.page
  BY DEF Locals
<1>5. PICK n : n = IF Len(p) < Window THEN Len(p) ELSE Window
  OBVIOUS
<1>6. n \in Nat /\ n <= Len(p) /\ Len(p) \in Nat
  BY <1>5 DEF PagingAssumption
<1>7. PICK s : s = SubSeq(p, 1, n)
  OBVIOUS
<1>8. PICK rest : rest = SubSeq(p, n + 1, Len(p))
  OBVIOUS
<1>9. s \in Seq(ImageIds) /\ Len(s) = n /\ \A k \in 1 .. n : s[k] = p[k]
  BY <1>6, <1>7
<1>10. rest \in Seq(ImageIds) /\ Len(rest) = Len(p) - n /\ \A k \in 1 .. Len(p) - n : rest[k] = p[n + k]
  BY <1>6, <1>8
<1>11. PICK l : l = [m EXCEPT !.page = rest]
  OBVIOUS
<1>12. l \in Locals /\ l.pc = "page" /\ l.end = m.end /\ l.total = m.total /\ l.page = rest
  BY <1>3, <1>10, <1>11 DEF Locals, PagePCs
<1>13. Sends(s) /\ handler' = [handler EXCEPT ![h] = l]
  BY <1>2, <1>4, <1>5, <1>7, <1>8, <1>11 DEF SendWindow, HandlerBecomes
<1>14. UNCHANGED <<live, cover, shifted, buttons, again, cut>>
  BY DEF SendWindow, album
<1>15. ASSUME ~shifted
       PROVE  LeftOver(l) /\ NextWords(m, s) /\ Reached(l) = Reached(m) + Len(s)
  <2>1. OnTrack(m)
    BY <1>2, <1>15 DEF PageInv, Walks
  <2>2. PICK e \in Nat : e = m.end
    BY DEF Locals
  <2>3. PICK L : L = Listed
    OBVIOUS
  <2>4. /\ e <= Len(L) /\ Len(p) <= e /\ Len(L) \in Nat /\ Covers \in {0, 1}
        /\ \A i \in 1 .. Len(p) : p[i] = L[e - Len(p) + i]
    <3>1. /\ m.end <= m.total /\ m.total <= Len(Listed) /\ Len(m.page) <= m.end
          /\ \A i \in 1 .. Len(m.page) : m.page[i] = Listed[m.end - Len(m.page) + i]
      BY <1>3, <2>1 DEF OnTrack
    <3>2. m.total \in Nat /\ Len(L) \in Nat /\ Covers \in {0, 1}
      BY <1>1, <2>3, ListSizes DEF Locals
    <3> QED BY <1>4, <2>2, <2>3, <3>1, <3>2
  <2>5. LeftOver(l)
    <3> SUFFICES ASSUME NEW i \in 1 .. Len(rest)
                 PROVE  rest[i] = L[e - Len(rest) + i]
      BY <1>12, <2>2, <2>3 DEF LeftOver
    <3>1. n + i \in 1 .. Len(p) /\ e - Len(p) + (n + i) = e - Len(rest) + i /\ i \in 1 .. Len(p) - n
      BY <1>6, <1>10, <2>4
    <3>2. PICK j \in 1 .. Len(p) : j = n + i
      BY <3>1
    <3>3. p[j] = L[e - Len(p) + j]
      BY <2>4
    <3> QED BY <1>10, <3>1, <3>2, <3>3
  <2>6. Reached(m) = Covers + (e - Len(p))
    BY <1>3, <1>4, <2>2 DEF Reached
  <2>7. Reached(l) = Covers + (e - Len(rest))
    BY <1>12, <2>2 DEF Reached
  <2>8. NextWords(m, s)
    <3> SUFFICES ASSUME NEW k \in 1 .. n
                 PROVE  Reached(m) + k \in 1 .. Long /\ s[k] = Nth(Reached(m) + k)
      BY <1>9 DEF NextWords
    <3>1. PICK i : i = Reached(m) + k
      OBVIOUS
    <3>2. i - Covers = e - Len(p) + k /\ i \in Int /\ i > Covers /\ k \in 1 .. Len(p)
      BY <1>6, <2>4, <2>6, <3>1
    <3>3. i \in 1 .. Long
      BY <1>6, <2>3, <2>4, <2>6, <3>1, <3>2 DEF Long
    <3>4. Nth(i) = L[e - Len(p) + k]
      <4>1. ~(i <= Covers)
        BY <2>4, <3>2
      <4> QED BY <2>3, <3>2, <4>1 DEF Nth
    <3> QED BY <1>9, <2>4, <3>1, <3>2, <3>3, <3>4
  <2>9. Reached(l) = Reached(m) + Len(s)
    BY <1>6, <1>9, <1>10, <2>4, <2>6, <2>7
  <2> QED BY <2>5, <2>8, <2>9
<1>16. m.pc \in {"lead", "page"} /\ Len(l.page) <= Len(m.page) /\ handler[h] = m
  BY <1>2, <1>3, <1>4, <1>6, <1>10, <1>12
<1> QED BY <1>9, <1>12, <1>13, <1>14, <1>15, <1>16, SpeakKeeps

\* A page is done, and leaves a button or none.
LEMMA CloseKeeps ==
  ASSUME PageInv, NEW h \in Handlers, Close(h)
  PROVE  PageInv'
<1>1. PageTypes /\ LocalsInPlace /\ Arrivals
  BY DEF PageInv
<1>2. PICK m \in Locals : m = handler[h]
  BY <1>1 DEF PageTypes
<1>3. m.pc = "page" /\ m.page = <<>> /\ Posts(handler[h]) /\ thread.open
  BY <1>1, <1>2 DEF LocalsInPlace, Posts, Close, At
<1>4. PICK e \in Nat : e = m.end
  BY DEF Locals
<1>5. PICK t \in Nat : t = m.total
  BY DEF Locals
<1>6. PICK seen \in Nat : seen = thread.seen
  BY <1>1 DEF PageTypes
<1>7. PICK later \in Nat : later = IF t > seen THEN t ELSE seen
  BY <1>5, <1>6
<1>8. PICK l \in Locals : l = IdleHandler
  BY IdleTyped
<1>9. handler' = [handler EXCEPT ![h] = l] /\ thread' = [thread EXCEPT !.seen = later]
  BY <1>2, <1>5, <1>6, <1>7, <1>8 DEF Close, HandlerBecomes
<1>10. /\ handler' \in [Handlers -> Locals] /\ handler'[h] = l
       /\ \A g \in Handlers : g # h => handler'[g] = handler[g]
       /\ l.pc = "idle" /\ ~Posts(l)
  BY <1>1, <1>8, <1>9, IdleTyped DEF PageTypes, Posts
<1>11. /\ thread' \in [open : BOOLEAN, walked : Seq(ImageIds),
                       arrived : SUBSET ImageIds, seen : Nat]
       /\ thread'.open = thread.open /\ thread'.walked = thread.walked
       /\ thread'.arrived = thread.arrived /\ thread'.seen = later
  BY <1>1, <1>7, <1>9 DEF PageTypes
<1>12. UNCHANGED <<live, cover, shifted, again>>
  BY DEF Close, album
<1>13. PICK e1 \in Presses : e1 = [offset |-> e, pressed |-> FALSE, shown |-> TRUE]
  BY <1>4 DEF Presses
<1>14. e1.offset = e /\ ~e1.pressed /\ e1.shown
  BY <1>13
<1>15. PICK left \in BOOLEAN : left <=> Paged(t) /\ t > e
  OBVIOUS
<1>16. \/ left /\ buttons' = Append(buttons, e1) /\ UNCHANGED <<count, cut>>
       \/ left /\ CountUp("faults", MaxFaults) /\ cut' = TRUE /\ UNCHANGED buttons
       \/ ~left /\ UNCHANGED <<buttons, count, cut>>
  BY <1>2, <1>4, <1>5, <1>13, <1>15 DEF Close, NextOffset
<1>17. count' \in Counts /\ count'.edits = count.edits /\ (count'.faults = 0 => count.faults = 0)
       /\ cut' \in BOOLEAN /\ (cut => cut')
  <2>1. CASE CountUp("faults", MaxFaults) /\ cut' = TRUE
    BY <1>1, <2>1, BumpIs
  <2>2. CASE UNCHANGED <<count, cut>>
    BY <1>1, <2>2 DEF PageTypes, Counts
  <2> QED BY <1>16, <2>1, <2>2
<1>18. PICK s \in Seq(Presses) : s = buttons
  BY <1>1 DEF PageTypes
<1>19. /\ buttons' \in Seq(Presses) /\ Len(buttons') \in Nat /\ Len(s) \in Nat
       /\ DOMAIN buttons' = 1 .. Len(buttons') /\ DOMAIN buttons = 1 .. Len(s)
       /\ Len(s) <= Len(buttons') /\ \A b \in 1 .. Len(s) : buttons'[b] = buttons[b]
       /\ \A b \in 1 .. Len(buttons') : b \in 1 .. Len(s) \/ (b = Len(s) + 1 /\ buttons'[b] = e1 /\ left)
       /\ left /\ ~cut' => Len(s) + 1 \in 1 .. Len(buttons') /\ buttons'[Len(s) + 1] = e1
  <2>1. CASE left /\ buttons' = Append(buttons, e1) /\ UNCHANGED <<count, cut>>
    <3>1. PICK r : r = Append(s, e1)
      OBVIOUS
    <3>2. /\ r \in Seq(Presses) /\ Len(r) = Len(s) + 1 /\ r[Len(s) + 1] = e1
          /\ Len(s) \in Nat /\ \A b \in 1 .. Len(s) : r[b] = s[b]
      BY <3>1
    <3>3. DOMAIN r = 1 .. Len(r) /\ DOMAIN s = 1 .. Len(s) /\ Len(r) \in Nat
      BY <3>2
    <3>4. \A b \in 1 .. Len(r) : b \in 1 .. Len(s) \/ b = Len(s) + 1
      BY <3>2
    <3>5. Len(s) <= Len(r) /\ Len(s) + 1 \in 1 .. Len(r)
      BY <3>2
    <3>6. buttons' = r
      BY <1>18, <2>1, <3>1
    <3> QED BY <1>18, <2>1, <3>2, <3>3, <3>4, <3>5, <3>6
  <2>2. CASE UNCHANGED buttons /\ (cut' \/ ~left)
    <3>1. DOMAIN s = 1 .. Len(s) /\ Len(s) \in Nat
      OBVIOUS
    <3> QED BY <1>15, <1>18, <2>2, <3>1
  <2> QED BY <1>16, <2>1, <2>2
<1>20. PageTypes'
  BY <1>1, <1>10, <1>11, <1>12, <1>17, <1>19 DEF PageTypes, Counts
<1>21. LocalsInPlace'
  <2>1. \A g \in Handlers :
          /\ handler'[g].pc = "idle" => handler'[g] = IdleHandler
          /\ handler'[g].pc \in {"cover", "list", "thread", "lead"} => handler'[g].offset = 0
    BY <1>1, <1>8, <1>10 DEF LocalsInPlace
  <2>2. \A g \in Handlers : handler'[g].pc = "clear" =>
          handler'[g].offset \in DOMAIN buttons' /\ buttons'[handler'[g].offset].pressed
    <3> SUFFICES ASSUME NEW g \in Handlers, handler'[g].pc = "clear"
                 PROVE  handler'[g].offset \in DOMAIN buttons' /\ buttons'[handler'[g].offset].pressed
      OBVIOUS
    <3>1. handler'[g] = handler[g]
      BY <1>10
    <3>2. PICK b : b = handler[g].offset
      OBVIOUS
    <3>3. b \in 1 .. Len(s) /\ buttons[b].pressed
      BY <1>1, <1>19, <3>1, <3>2 DEF LocalsInPlace
    <3>4. b \in 1 .. Len(buttons') /\ buttons'[b] = buttons[b]
      BY <1>19, <3>3
    <3> QED BY <1>19, <3>1, <3>2, <3>3, <3>4
  <2>3. \A a \in DOMAIN buttons' : ~buttons'[a].pressed => buttons'[a].shown
    BY <1>1, <1>14, <1>19 DEF LocalsInPlace
  <2> QED BY <1>3, <1>11, <2>1, <2>2, <2>3 DEF LocalsInPlace
<1>22. Arrivals'
  BY <1>1, <1>11, <1>17 DEF Arrivals
<1>23. ASSUME ~shifted
       PROVE  Walks' /\ WayOn' /\ (~again => OneWay')
  <2>1. Walks /\ WayOn /\ (~again => OneWay)
    BY <1>23 DEF PageInv
  <2>2. /\ Listed' = Listed /\ Covers' = Covers /\ Long' = Long
        /\ \A i : Nth(i)' = Nth(i)
        /\ \A k : Said(k)' <=> Said(k)
    BY <1>11, <1>12 DEF Listed, Covers, Long, Nth, Said
  <2>3. \A k : OnTrack(k)' <=> OnTrack(k)
    BY <1>12, <2>2 DEF OnTrack
  <2>4. Len(Listed) \in Nat /\ Covers \in {0, 1}
    BY <1>1, ListSizes
  <2>5. Said(e) /\ e <= t /\ t <= Len(Listed) /\ (Paged(t) \/ e = t)
    <3>1. OnTrack(m) /\ Len(m.page) = 0
      BY <1>2, <1>3, <2>1 DEF Walks
    <3>2. Said(m.end - Len(m.page)) /\ m.end <= m.total /\ m.total <= Len(Listed)
          /\ (Paged(m.total) \/ m.end = m.total)
      BY <1>3, <3>1 DEF OnTrack
    <3>3. m.end - Len(m.page) = e
      BY <1>4, <3>1
    <3> QED BY <1>4, <1>5, <3>2, <3>3
  <2>6. Walks'
    <3>1. OnTrack(l)
      BY <1>10 DEF OnTrack
    <3>2. \A g \in Handlers, k \in Locals : handler'[g] = k => OnTrack(k)'
      BY <1>10, <2>1, <2>3, <3>1 DEF Walks
    <3>3. \A b \in DOMAIN buttons', k \in Nat : buttons'[b].offset = k => Said(k) /\ k <= Len(Listed)
      <4> SUFFICES ASSUME NEW b \in 1 .. Len(buttons'), NEW k \in Nat, buttons'[b].offset = k
                   PROVE  Said(k) /\ k <= Len(Listed)
        BY <1>19
      <4>1. CASE b \in 1 .. Len(s)
        BY <1>19, <2>1, <4>1 DEF Walks
      <4>2. CASE buttons'[b] = e1
        <5>1. k = e
          BY <1>14, <4>2
        <5> QED BY <2>4, <2>5, <5>1
      <4> QED BY <1>19, <4>1, <4>2
    <3>4. later <= Len(Listed)
      BY <1>6, <1>7, <2>1, <2>5 DEF Walks
    <3> QED BY <1>11, <2>1, <2>2, <3>2, <3>3, <3>4 DEF Walks
  <2>7. WayOn'
    <3> SUFFICES ASSUME ~cut'
                 PROVE  \/ \E g \in Handlers : (Leads(handler[g]))'
                        \/ \E b \in DOMAIN buttons' : buttons'[b].shown /\ (again \/ ~buttons'[b].pressed)
                        \/ Said(later)
      BY <1>11, <1>12, <2>2 DEF WayOn
    <3>1. CASE left
      BY <1>14, <1>19, <3>1
    <3>2. CASE ~left /\ t >= seen
      <4>1. e = t /\ later = t
        BY <1>7, <1>15, <2>5, <3>2
      <4> QED BY <2>5, <4>1
    <3>3. CASE t < seen
      <4>1. later = seen /\ ~Leads(handler[h])
        BY <1>2, <1>3, <1>5, <1>6, <1>7, <3>3 DEF Leads
      <4>2. \A g \in Handlers : Leads(handler[g]) => (Leads(handler[g]))'
        BY <1>6, <1>10, <1>11, <4>1 DEF Leads
      <4>3. \A b \in DOMAIN buttons : b \in DOMAIN buttons' /\ buttons'[b] = buttons[b]
        BY <1>19
      <4> QED BY <1>3, <1>6, <1>17, <2>1, <4>1, <4>2, <4>3 DEF WayOn
    <3> QED BY <1>5, <1>6, <3>1, <3>2, <3>3
  <2>8. ASSUME ~again
        PROVE  OneWay'
    <3>1. OneWay
      BY <2>1, <2>8
    <3>2. \A g \in Handlers : ~(Posts(handler[g]))'
      BY <1>3, <1>10, <3>1 DEF Posts, OneWay
    <3>3. \A b \in 1 .. Len(s) : buttons'[b].pressed
      BY <1>3, <1>19, <3>1 DEF OneWay
    <3>4. \A a, b \in DOMAIN buttons' : ~buttons'[a].pressed /\ ~buttons'[b].pressed => a = b
      BY <1>19, <3>3
    <3>5. Len(thread.walked) = Covers + e
      <4>1. Reached(m) = Covers + (e - 0)
        BY <1>3, <1>4 DEF Reached
      <4> QED BY <1>2, <1>3, <1>4, <3>1, <4>1 DEF OneWay
    <3>6. \A b \in DOMAIN buttons' : ~buttons'[b].pressed => Len(thread'.walked) = Covers' + buttons'[b].offset
      BY <1>11, <1>14, <1>19, <2>2, <3>3, <3>5
    <3>7. Len(thread'.walked) <= Long' /\ \A i \in 1 .. Len(thread'.walked) : thread'.walked[i] = Nth(i)'
      BY <1>11, <2>2, <3>1 DEF OneWay
    <3> QED BY <3>2, <3>4, <3>6, <3>7 DEF OneWay
  <2> QED BY <2>6, <2>7, <2>8
<1> QED BY <1>12, <1>20, <1>21, <1>22, <1>23 DEF PageInv

\* Nothing happens.
LEMMA StillKeeps ==
  ASSUME PageInv, UNCHANGED paging
  PROVE  PageInv'
<1>1. UNCHANGED <<live, cover, thread, buttons, handler, count, shifted, again, cut>>
  BY DEF paging
<1>2. PageTypes' /\ LocalsInPlace' /\ Arrivals'
  BY <1>1 DEF PageInv, PageTypes, LocalsInPlace, Arrivals, Posts
<1>3. /\ Listed' = Listed /\ Covers' = Covers /\ Long' = Long
      /\ \A i : Nth(i)' = Nth(i)
      /\ \A k : Said(k)' <=> Said(k)
  BY <1>1 DEF Listed, Covers, Long, Nth, Said
<1>4. \A k : OnTrack(k)' <=> OnTrack(k)
  BY <1>1, <1>3 DEF OnTrack
<1>5. ~shifted => Walks' /\ WayOn' /\ (~again => OneWay')
  <2> SUFFICES ASSUME ~shifted
               PROVE  Walks' /\ WayOn' /\ (~again => OneWay')
    OBVIOUS
  <2>1. Walks /\ WayOn /\ (~again => OneWay)
    BY DEF PageInv
  <2>2. Walks'
    BY <1>1, <1>3, <1>4, <2>1 DEF Walks
  <2>3. WayOn'
    BY <1>1, <1>3, <2>1 DEF WayOn, Leads
  <2>4. \A h \in Handlers : /\ (Posts(handler[h]))' <=> Posts(handler[h])
                            /\ (Reached(handler[h]))' = Reached(handler[h])
    BY <1>1, <1>3 DEF Posts, Reached
  <2>5. ~again => OneWay'
    BY <1>1, <1>3, <2>1, <2>4 DEF OneWay
  <2> QED BY <2>2, <2>3, <2>5
<1> QED BY <1>1, <1>2, <1>5 DEF PageInv

\* Nobody posts at first.
LEMMA PagesStart ==
  ASSUME PagingAssumption, PagingInit
  PROVE  PageInv
<1>1. PICK n \in Starts : live = 1 .. n
  BY DEF PagingInit
<1>2. n \in Nat /\ n \in Int /\ 1 \in Int /\ n >= 0
  BY DEF PagingAssumption
<1>3. IsFiniteSet(1 .. n) /\ Cardinality(1 .. n) = n
  <2>1. IsFiniteSet(1 .. n) /\ Cardinality(1 .. n) = IF 1 > n THEN 0 ELSE n - 1 + 1
    BY <1>2, FS_Interval
  <2> QED BY <1>2, <2>1
<1>4. /\ live \subseteq ImageIds /\ cover \in live \cup {0}
      /\ IsFiniteSet(live) /\ live \subseteq 1 .. Cardinality(live) + 0
  BY <1>1, <1>2, <1>3 DEF PagingInit, ImageIds
<1>5. /\ thread = [open |-> FALSE, walked |-> <<>>, arrived |-> {}, seen |-> 0]
      /\ buttons = <<>> /\ handler = [h \in Handlers |-> IdleHandler]
      /\ count = [asks |-> 0, presses |-> 0, edits |-> 0, faults |-> 0]
      /\ shifted = FALSE /\ again = FALSE /\ cut = FALSE
  BY DEF PagingInit
<1>6. \A h \in Handlers : handler[h] = IdleHandler /\ handler[h].pc = "idle"
  BY <1>5, IdleTyped
<1>7. \A h \in Handlers : ~Posts(handler[h])
  BY <1>6 DEF Posts
<1>8. <<>> \in Seq(ImageIds) /\ <<>> \in Seq(Presses) /\ DOMAIN <<>> = {} /\ Len(<<>>) = 0
  OBVIOUS
<1>9. ToSet(<<>>) = {}
  BY DEF ToSet
<1>10. PageTypes
  <2>1. thread \in [open : BOOLEAN, walked : Seq(ImageIds), arrived : SUBSET ImageIds, seen : Nat]
    BY <1>5, <1>8
  <2>2. handler \in [Handlers -> Locals]
    BY <1>5, IdleTyped
  <2>3. count \in [asks : Nat, presses : Nat, edits : Nat, faults : Nat] /\ count.edits = 0
    BY <1>5
  <2> QED BY <1>4, <1>5, <1>8, <2>1, <2>2, <2>3 DEF PageTypes
<1>11. LocalsInPlace
  BY <1>5, <1>6, <1>7, <1>8 DEF LocalsInPlace
<1>12. Arrivals
  BY <1>5, <1>9 DEF Arrivals
<1>13. Len(Listed) \in Nat /\ Long \in Nat
  BY <1>10, ListSizes DEF Long
<1>14. Walks
  <2>1. \A h \in Handlers, l \in Locals : handler[h] = l => OnTrack(l)
    BY <1>6 DEF OnTrack
  <2> QED BY <1>5, <1>8, <1>9, <1>13, <2>1 DEF Walks
<1>15. WayOn
  BY <1>5 DEF WayOn
<1>16. OneWay
  BY <1>5, <1>7, <1>8, <1>13 DEF OneWay
<1> QED BY <1>10, <1>11, <1>12, <1>14, <1>15, <1>16 DEF PageInv

\* Every step.
LEMMA PagesStep ==
  ASSUME PagingAssumption, PageInv, [PagingNext]_(paging)
  PROVE  PageInv'
<1>1. CASE UNCHANGED paging
  BY <1>1, StillKeeps
<1>2. ASSUME NEW h \in Handlers, PressFull(h) \/ Command(h)
      PROVE  PageInv'
  BY <1>2, AskKeeps
<1>3. ASSUME NEW h \in Handlers, NEW b, PressMore(h, b)
      PROVE  PageInv'
  BY <1>3, PressMoreKeeps
<1>4. ASSUME NEW h \in Handlers, Proceed(h)
      PROVE  PageInv'
  <2>1. CASE LoadCover(h)
    BY <2>1, LoadCoverKeeps
  <2>2. CASE LoadList(h)
    BY <2>2, LoadListKeeps
  <2>3. CASE OpenThread(h)
    BY <2>3, OpenThreadKeeps
  <2>4. CASE SendCover(h)
    BY <2>4, SendCoverKeeps
  <2>5. CASE SendWindow(h)
    BY <2>5, SendWindowKeeps
  <2>6. CASE Close(h)
    BY <2>6, CloseKeeps
  <2>7. CASE Clear(h)
    BY <2>7, ClearKeeps
  <2>8. CASE Read(h)
    BY <2>8, ReadKeeps
  <2> QED BY <1>4, <2>1, <2>2, <2>3, <2>4, <2>5, <2>6, <2>7, <2>8 DEF Proceed
<1>5. CASE AppendImage
  BY <1>5, AppendKeeps
<1>6. CASE Shift
  BY <1>6, ShiftKeeps
<1>7. CASE Crash
  BY <1>7, CrashKeeps
<1> QED BY <1>1, <1>2, <1>3, <1>4, <1>5, <1>6, <1>7 DEF PagingNext

(***************************************************************************)
(* While the album only grows and nobody presses a button twice, the pages *)
(* of a thread tile it (sendFullAlbumPage of bot.go), for every album,     *)
(* threshold, page size and window, and any number of goroutines, presses, *)
(* edits and faults.                                                       *)
(***************************************************************************)
THEOREM PagesTileTheAlbum ==
  ASSUME PagingAssumption
  PROVE  PagingSpec => []PagesTile
<1>1. PagingInit => PageInv
  BY PagesStart
<1>2. PageInv /\ [PagingNext]_(paging) => PageInv'
  BY PagesStep
<1>3. PageInv => PagesTile
  <2> SUFFICES ASSUME PageInv, ~shifted, ~again
               PROVE  /\ IsPrefix(thread.walked, (IF cover = 0 THEN <<>> ELSE <<cover>>) \o Listed)
                      /\ count.faults = 0 => thread.arrived = ToSet(thread.walked)
    BY DEF PagesTile
  <2>1. PageTypes /\ Arrivals /\ OneWay
    BY DEF PageInv
  <2>2. PICK w \in Seq(ImageIds) : w = thread.walked
    BY <2>1 DEF PageTypes
  <2>3. PICK L \in Seq(ImageIds) : L = Listed
    BY <2>1, ListSizes
  <2>4. PICK c : c = IF cover = 0 THEN <<>> ELSE <<cover>>
    OBVIOUS
  <2>5. c \in Seq(ImageIds) /\ Len(c) = Covers /\ Covers \in {0, 1} /\ (Covers = 1 => c[1] = cover)
    <3>1. CASE cover = 0
      BY <2>4, <3>1 DEF Covers
    <3>2. CASE cover # 0
      <4>1. cover \in ImageIds
        BY <2>1, <3>2 DEF PageTypes
      <4>2. c = <<cover>> /\ Covers = 1
        BY <2>4, <3>2 DEF Covers
      <4> QED BY <4>1, <4>2
    <3> QED BY <3>1, <3>2
  <2>6. PICK t : t = c \o L
    OBVIOUS
  <2>7. t \in Seq(ImageIds) /\ Len(t) = Covers + Len(L) /\ Len(L) \in Nat
        /\ (\A i \in 1 .. Covers : t[i] = c[i]) /\ \A i \in 1 .. Len(L) : t[Covers + i] = L[i]
    <3>1. Len(c \o L) = Len(c) + Len(L) /\ (\A i \in 1 .. Len(c) : (c \o L)[i] = c[i])
          /\ \A i \in 1 .. Len(L) : (c \o L)[Len(c) + i] = L[i]
      BY <2>5
    <3>2. c \o L \in Seq(ImageIds) /\ Len(L) \in Nat
      BY <2>5
    <3> QED BY <2>5, <2>6, <3>1, <3>2
  <2>8. Len(w) \in Nat /\ Len(w) <= Len(t)
    BY <2>1, <2>2, <2>3, <2>7 DEF OneWay, Long
  <2>9. \A i \in 1 .. Len(w) : w[i] = t[i]
    <3> SUFFICES ASSUME NEW i \in 1 .. Len(w)
                 PROVE  w[i] = t[i]
      OBVIOUS
    <3>1. w[i] = Nth(i)
      BY <2>1, <2>2 DEF OneWay
    <3>2. CASE i <= Covers
      <4>1. i = 1 /\ Covers = 1 /\ Nth(i) = cover
        BY <2>5, <3>2 DEF Nth
      <4> QED BY <2>5, <2>7, <3>1, <4>1
    <3>3. CASE ~(i <= Covers)
      <4>1. i - Covers \in 1 .. Len(L) /\ Covers + (i - Covers) = i
        BY <2>5, <2>7, <2>8, <3>3
      <4>2. Nth(i) = L[i - Covers]
        BY <2>3, <3>3 DEF Nth
      <4>3. PICK j \in 1 .. Len(L) : j = i - Covers
        BY <4>1
      <4> QED BY <2>7, <3>1, <4>1, <4>2, <4>3
    <3> QED BY <3>2, <3>3
  <2>10. SubSeq(w, 1, Len(w)) = SubSeq(t, 1, Len(w))
    <3>1. SubSeq(t, 1, Len(w)) \in Seq(ImageIds) /\ Len(SubSeq(t, 1, Len(w))) = Len(w)
          /\ \A i \in 1 .. Len(w) : SubSeq(t, 1, Len(w))[i] = t[i]
      BY <2>7, <2>8
    <3>2. SubSeq(w, 1, Len(w)) \in Seq(ImageIds) /\ Len(SubSeq(w, 1, Len(w))) = Len(w)
          /\ \A i \in 1 .. Len(w) : SubSeq(w, 1, Len(w))[i] = w[i]
      BY <2>8
    <3>3. PICK a \in Seq(ImageIds) : a = SubSeq(t, 1, Len(w))
      BY <3>1
    <3>4. PICK b \in Seq(ImageIds) : b = SubSeq(w, 1, Len(w))
      BY <3>2
    <3>5. Len(a) = Len(b) /\ \A i \in 1 .. Len(a) : a[i] = b[i]
      BY <2>9, <3>1, <3>2, <3>3, <3>4
    <3>6. a = b
      BY <3>5
    <3> QED BY <3>3, <3>4, <3>6
  <2>11. IsPrefix(w, t)
    BY <2>8, <2>10 DEF IsPrefix
  <2> QED BY <2>1, <2>2, <2>3, <2>4, <2>6, <2>11 DEF Arrivals
<1> QED BY <1>1, <1>2, <1>3, PTL DEF PagingSpec

\* A sequence holds at most as many values as it is long.
LEMMA SeqSetFinite ==
  ASSUME NEW w \in Seq(ImageIds)
  PROVE  /\ IsFiniteSet(ToSet(w)) /\ Cardinality(ToSet(w)) \in Nat
         /\ Cardinality(ToSet(w)) <= Len(w) /\ Len(w) \in Nat
<1> DEFINE T == ToSet(w)
<1>1. Len(w) \in Nat /\ DOMAIN w = 1 .. Len(w) /\ Len(w) \in Int /\ 1 \in Int
  OBVIOUS
<1>2. IsFiniteSet(1 .. Len(w)) /\ Cardinality(1 .. Len(w)) = Len(w)
  <2>1. IsFiniteSet(1 .. Len(w)) /\ Cardinality(1 .. Len(w)) = IF 1 > Len(w) THEN 0 ELSE Len(w) - 1 + 1
    BY <1>1, FS_Interval
  <2> QED BY <1>1, <2>1
<1>3. w \in Surjection(1 .. Len(w), T)
  BY <1>1 DEF Surjection, ToSet
<1> HIDE DEF T
<1>4. IsFiniteSet(T) /\ Cardinality(T) <= Cardinality(1 .. Len(w))
  BY <1>2, <1>3, FS_Surjection
<1>5. Cardinality(T) \in Nat
  BY <1>4, FS_CardinalityType
<1> QED BY <1>1, <1>2, <1>4, <1>5 DEF T

\* The images walked over are no fewer than what has been said.
LEMMA SaidCounts ==
  ASSUME PageTypes, NEW k \in Nat, k <= Len(Listed), Said(k)
  PROVE  Covers + k <= Cardinality(ToSet(thread.walked))
<1>1. PICK w \in Seq(ImageIds) : w = thread.walked
  BY DEF PageTypes
<1> DEFINE T == ToSet(w)
           n == Covers + k
           f == [i \in 1 .. n |-> Nth(i)]
<1>2. Covers \in {0, 1} /\ Len(Listed) \in Nat /\ n \in Nat
  BY ListSizes
<1>3. IsFiniteSet(1 .. n) /\ Cardinality(1 .. n) = n
  <2>1. 1 \in Int /\ n \in Int
    BY <1>2
  <2>2. IsFiniteSet(1 .. n) /\ Cardinality(1 .. n) = IF 1 > n THEN 0 ELSE n - 1 + 1
    BY <2>1, FS_Interval
  <2> QED BY <1>2, <2>2
<1>4. IsFiniteSet(T)
  BY <1>1, SeqSetFinite
<1>5. f \in Injection(1 .. n, T)
  <2>1. \A i \in 1 .. n : Nth(i) \in T
    BY <1>1 DEF Said
  <2>2. \A i \in 1 .. n : i \in 1 .. Long
    BY <1>2 DEF Long
  <2>3. \A i, j \in 1 .. n : Nth(i) = Nth(j) => i = j
    BY <2>2, ListedIs
  <2> QED BY <2>1, <2>3 DEF Injection, IsInjective
<1> HIDE DEF T, f, n
<1>6. Cardinality(1 .. n) <= Cardinality(T)
  BY <1>4, <1>5, FS_Injection
<1> QED BY <1>1, <1>3, <1>6 DEF T, n

(***************************************************************************)
(* While the album only grows, the last page of a quiet thread shows a     *)
(* button that leaves nothing out, or the pages cover all the album held   *)
(* when it was last read, unless a fault took the way on (cmdFullAlbumMore *)
(* of commands_slash.go), for the same range.                              *)
(***************************************************************************)
THEOREM PagesAlwaysLeadOn ==
  ASSUME PagingAssumption
  PROVE  PagingSpec => []PagesLeadOn
<1>1. PagingInit => PageInv
  BY PagesStart
<1>2. PageInv /\ [PagingNext]_(paging) => PageInv'
  BY PagesStep
<1>3. PageInv => PagesLeadOn
  <2> DEFINE ends == Cardinality(ToSet(thread.walked)) - (IF cover = 0 THEN 0 ELSE 1)
  <2> SUFFICES ASSUME PageInv, thread.open, ~shifted, ~cut, \A h \in Handlers : handler[h] = IdleHandler
               PROVE  \/ \E b \in DOMAIN buttons :
                           /\ buttons[b].shown /\ buttons[b].offset <= ends
                           /\ ~again => buttons[b].offset = ends
                      \/ ends >= thread.seen
    BY DEF PagesLeadOn
  <2>1. PageTypes /\ LocalsInPlace /\ Walks /\ WayOn /\ (~again => OneWay)
    BY DEF PageInv
  <2>2. PICK w \in Seq(ImageIds) : w = thread.walked
    BY <2>1 DEF PageTypes
  <2>3. PICK c : c = Cardinality(ToSet(w))
    OBVIOUS
  <2>4. c \in Nat /\ c <= Len(w) /\ Len(w) \in Nat /\ Covers \in {0, 1}
    BY <2>1, <2>3, SeqSetFinite, ListSizes
  <2>5. ends = c - Covers
    BY <2>2, <2>3, SameCount DEF Covers
  <2>6. \A k \in Nat : k <= Len(Listed) /\ Said(k) => k <= ends
    <3> SUFFICES ASSUME NEW k \in Nat, k <= Len(Listed), Said(k)
                 PROVE  k <= ends
      OBVIOUS
    <3>1. Covers + k <= c
      BY <2>1, <2>2, <2>3, SaidCounts
    <3> QED BY <2>4, <2>5, <3>1
  <2> HIDE DEF ends
  <2>7. thread.seen \in Nat /\ thread.seen <= Len(Listed)
    BY <2>1 DEF PageTypes, Walks
  <2>8. CASE Said(thread.seen)
    <3>1. PICK k \in Nat : k = thread.seen
      BY <2>7
    <3>2. k <= ends
      BY <2>6, <2>7, <2>8, <3>1
    <3> QED BY <2>4, <2>5, <3>1, <3>2
  <2>9. CASE \E b \in DOMAIN buttons : buttons[b].shown /\ (again \/ ~buttons[b].pressed)
    <3>1. PICK b \in DOMAIN buttons : buttons[b].shown /\ (again \/ ~buttons[b].pressed)
      BY <2>9
    <3>2. PICK o \in Nat : o = buttons[b].offset
      <4>1. buttons[b] \in Presses
        BY <2>1, <3>1 DEF PageTypes
      <4> QED BY <4>1 DEF Presses
    <3>3. o <= ends
      BY <2>1, <2>6, <3>1, <3>2 DEF Walks
    <3>4. ~again => o = ends
      <4>1. ~again => Len(w) = Covers + o
        BY <2>1, <2>2, <3>1, <3>2 DEF OneWay
      <4> QED BY <2>4, <2>5, <3>3, <4>1
    <3> QED BY <3>1, <3>2, <3>3, <3>4
  <2>10. \A h \in Handlers : ~Leads(handler[h])
    BY IdleTyped DEF Leads
  <2> QED BY <2>1, <2>8, <2>9, <2>10 DEF WayOn
<1> QED BY <1>1, <1>2, <1>3, PTL DEF PagingSpec


-----------------------------------------------------------------------------
(* The backoff                                                             *)

\* No file weighs nothing.
LEMMA BytesOfNone == Bytes(<<>>) = 0
<1> DEFINE Eq(it) == it = [s \in SUBSET {} |->
                             IF s = {} THEN 0
                             ELSE LET x == CHOOSE x \in s : TRUE IN <<>>[x] + it[s \ {x}]]
           It == CHOOSE it : Eq(it)
<1>1. Eq([s \in SUBSET {} |-> 0])
  BY Zenon
<1>2. Eq(It)
  BY <1>1
<1>3. It[{}] = 0
  BY <1>2
<1>4. Bytes(<<>>) = It[DOMAIN <<>>]
  BY DOMAIN <<>> = {} DEF Bytes, FoldSeq, FoldFunction, FoldFunctionOnSet, MapThenFoldSet
<1>5. DOMAIN <<>> = {}
  OBVIOUS
<1> QED BY <1>3, <1>4, <1>5

\* S goes on to the half of every number above one.
Closed(S) == \A j \in S : j > 1 => j \div 2 \in S

\* The halves of a number are the least set that does so from that number.
LEMMA HalvesAre ==
  \A n \in Nat : Halves[n] = IF n <= 1 THEN {n} ELSE {n} \cup Halves[n \div 2]
<1> DEFINE Eq(f) == f = [n \in Nat |-> IF n <= 1 THEN {n} ELSE {n} \cup f[n \div 2]]
           H(n)  == {k \in 0 .. n : \A S \in SUBSET (0 .. n) : n \in S /\ Closed(S) => k \in S}
           F     == [n \in Nat |-> H(n)]
<1>1. Halves = CHOOSE f : Eq(f)
  BY DEF Halves
<1>2. ASSUME NEW n \in Nat
      PROVE  H(n) = IF n <= 1 THEN {n} ELSE {n} \cup H(n \div 2)
  <2>1. n \in H(n)
    OBVIOUS
  <2>2. CASE n <= 1
    <3>1. {n} \in SUBSET (0 .. n) /\ Closed({n})
      BY <2>2 DEF Closed
    <3>2. H(n) \subseteq {n}
      BY <3>1
    <3> QED BY <2>1, <2>2, <3>2
  <2>3. CASE n > 1
    <3>1. PICK m \in Nat : m = n \div 2
      BY <2>3
    <3>2. m < n
      BY <2>3, <3>1
    <3>3. H(m) \subseteq 0 .. m /\ m \in H(m) /\ Closed(H(m))
      <4>1. H(m) \subseteq 0 .. m /\ m \in H(m)
        OBVIOUS
      <4>2. ASSUME NEW j \in H(m), j > 1
            PROVE  j \div 2 \in H(m)
        <5>1. j \div 2 \in 0 .. m
          BY <4>2
        <5>2. ASSUME NEW S \in SUBSET (0 .. m), m \in S, Closed(S)
              PROVE  j \div 2 \in S
          BY <4>2, <5>2 DEF Closed
        <5> QED BY <5>1, <5>2
      <4> QED BY <4>1, <4>2 DEF Closed
    <3>4. ASSUME NEW k \in H(m)
          PROVE  k \in H(n)
      <4>1. k \in 0 .. n
        BY <3>2
      <4>2. ASSUME NEW S \in SUBSET (0 .. n), n \in S, Closed(S)
            PROVE  k \in S
        <5>1. PICK T \in SUBSET (0 .. m) : T = S \cap (0 .. m)
          OBVIOUS
        <5>2. m \in T
          BY <2>3, <3>1, <4>2, <5>1 DEF Closed
        <5>3. Closed(T)
          <6> SUFFICES ASSUME NEW j \in T, j > 1
                       PROVE  j \div 2 \in T
            BY DEF Closed
          <6>1. j \div 2 \in S
            BY <4>2, <5>1 DEF Closed
          <6>2. j \div 2 \in 0 .. m
            BY <5>1
          <6> QED BY <5>1, <6>1, <6>2
        <5> QED BY <5>1, <5>2, <5>3
      <4> QED BY <4>1, <4>2
    <3> DEFINE S == {n} \cup H(m)
    <3>5. S \in SUBSET (0 .. n) /\ n \in S
      BY <3>2, <3>3
    <3>6. Closed(S)
      <4>1. n \div 2 \in S
        BY <3>1, <3>3
      <4> HIDE DEF H
      <4> QED BY <3>3, <4>1 DEF Closed
    <3>7. H(n) \subseteq S
      <4> HIDE DEF S
      <4> QED BY <3>5, <3>6
    <3> HIDE DEF H
    <3> QED BY <2>1, <2>3, <3>1, <3>4, <3>7
  <2> QED BY <2>2, <2>3
<1> HIDE DEF H
<1>3. Eq(F)
  <2>1. \A n \in Nat : n \div 2 \in Nat
    OBVIOUS
  <2>2. \A n \in Nat : F[n] = IF n <= 1 THEN {n} ELSE {n} \cup F[n \div 2]
    BY <1>2, <2>1
  <2> QED BY <2>2
<1> HIDE DEF F
<1>4. Eq(Halves)
  <2> HIDE DEF Eq
  <2> QED BY <1>1, <1>3
<1> QED BY <1>4

\* What it is for the halves of n to be a chain of numbers down from n.
Chain(n) ==
  /\ n \in Halves[n] /\ Halves[n] \subseteq 0 .. n /\ Closed(Halves[n])
  /\ \A k, m \in Halves[n] : m > k \div 2 => m >= k

\* The halves of every number are such a chain.
LEMMA HalvesChain == \A n \in Nat : Chain(n)
<1> DEFINE T == {n \in Nat : ~Chain(n)}
<1> SUFFICES ASSUME T # {}
             PROVE  FALSE
  OBVIOUS
<1>1. PICK n \in T : \A y \in T : n <= y
  <2> T \in SUBSET Nat
    OBVIOUS
  <2> HIDE DEF T
  <2> QED BY NatLeast
<1>2. n \in Nat /\ ~Chain(n)
  OBVIOUS
<1>3. CASE n <= 1
  <2>1. Halves[n] = {n}
    BY <1>2, <1>3, HalvesAre
  <2> QED BY <1>2, <1>3, <2>1 DEF Chain, Closed
<1>4. CASE n > 1
  <2>1. PICK h \in Nat : h = n \div 2
    BY <1>2
  <2>2. h < n /\ Halves[n] = {n} \cup Halves[h]
    <3>1. h < n
      BY <1>2, <1>4, <2>1
    <3>2. Halves[n] = IF n <= 1 THEN {n} ELSE {n} \cup Halves[n \div 2]
      BY <1>2, HalvesAre
    <3> QED BY <1>2, <1>4, <2>1, <3>1, <3>2
  <2>3. Chain(h)
    <3>1. h \notin T
      BY <1>1, <1>2, <2>2
    <3> QED BY <3>1
  <2>4. n \in Halves[n] /\ Halves[n] \subseteq 0 .. n
    BY <1>2, <2>2, <2>3 DEF Chain
  <2>5. Closed(Halves[n])
    BY <2>1, <2>2, <2>3 DEF Chain, Closed
  <2>6. ASSUME NEW k \in Halves[n], NEW m \in Halves[n], m > k \div 2
        PROVE  m >= k
    <3>1. CASE k = n
      <4>1. m \notin Halves[h]
        BY <1>2, <2>1, <2>3, <2>6, <3>1 DEF Chain
      <4> QED BY <1>2, <2>2, <3>1, <4>1
    <3>2. CASE k \in Halves[h] /\ m = n
      BY <1>2, <2>2, <2>3, <3>2 DEF Chain
    <3>3. CASE k \in Halves[h] /\ m \in Halves[h]
      BY <2>3, <2>6, <3>3 DEF Chain
    <3> QED BY <2>2, <3>1, <3>2, <3>3
  <2> QED BY <1>2, <2>4, <2>5, <2>6 DEF Chain
<1> QED BY <1>2, <1>3, <1>4

\* Whether the first n files of the delivery l are too many for Discord, accepting a bytes.
TooMany(l, a, n) == Bytes(SubSeq(l.files, 1, n)) > a

(***************************************************************************)
(* What sendWithBackoff knows of a delivery from its first attempt on,     *)
(* which is more than BackoffSalvages says of the outcome: the prefixes    *)
(* longer than the one it is about to try have all been turned down.       *)
(***************************************************************************)
Salvaged(l, a) ==
  /\ l.pc \in {"send", "posted"} /\ l.files # <<>> => l.kept > 0
  /\ l.pc \in {"send", "posted"} /\ l.steady =>
       /\ l.kept \in Halves[Len(l.files)]
       /\ \A n \in Halves[Len(l.files)] : n > l.kept => TooMany(l, a, n)
  /\ l.pc \in {"refused", "notice", "failed"} /\ l.steady => TooMany(l, a, 1)

SalvageInv == \A d \in Deliveries : Salvaged(delivery[d], accepts[delivery[d].channel])

\* One step of sendWithBackoff on what it knows.
LEMMA AttemptSalvages ==
  ASSUME DeliveryAssumption, PostingTypeOK, SalvageInv, NEW d \in Deliveries, Attempt(d)
  PROVE  Salvaged(delivery'[d], accepts[delivery'[d].channel])
<1> DEFINE l == delivery[d]
           a == accepts[l.channel]
<1>1. /\ l \in DeliveryState /\ l.pc = "send" /\ l.kept \in Nat /\ l.kept <= Len(l.files)
      /\ l.files \in Seq(Sizes) /\ Len(l.files) \in Nat /\ l.channel \in Channels /\ Salvaged(l, a)
  BY DEF PostingTypeOK, DeliveryState, SalvageInv, Attempt
<1>2. a \in Nat
  BY <1>1 DEF PostingTypeOK, DeliveryAssumption
<1>3. IsTooLarge(d) <=> Bytes(SubSeq(l.files, 1, l.kept)) > a
  BY DEF IsTooLarge, Payload
<1>4. CASE delivery' = [delivery EXCEPT ![d] = [delivery[d] EXCEPT !.pc = "posted"]]
  <2>1. /\ delivery'[d].pc = "posted" /\ delivery'[d].files = l.files /\ delivery'[d].kept = l.kept
        /\ delivery'[d].steady = l.steady /\ delivery'[d].channel = l.channel
    BY <1>1, <1>4 DEF PostingTypeOK, DeliveryState
  <2> QED BY <1>1, <2>1 DEF Salvaged, TooMany
<1>5. CASE /\ IsTooLarge(d) /\ ~LastTry(d)
           /\ delivery' = [delivery EXCEPT ![d] = [delivery[d] EXCEPT !.kept = Halved(@)]]
  <2>1. PICK k \in Nat : k = l.kept
    BY <1>1
  <2>2. PICK h \in Nat : h = k \div 2
    BY <2>1
  <2>3. k > 1 /\ h > 0
    BY <1>5, <2>1, <2>2 DEF LastTry
  <2>4. /\ delivery'[d].pc = "send" /\ delivery'[d].files = l.files /\ delivery'[d].kept = h
        /\ delivery'[d].steady = l.steady /\ delivery'[d].channel = l.channel
    BY <1>1, <1>5, <2>1, <2>2 DEF PostingTypeOK, DeliveryState, Halved
  <2>5. ASSUME l.steady
        PROVE  /\ h \in Halves[Len(l.files)]
               /\ \A n \in Halves[Len(l.files)] : n > h => Bytes(SubSeq(l.files, 1, n)) > a
    <3>1. Chain(Len(l.files))
      BY <1>1, HalvesChain
    <3>2. k \in Halves[Len(l.files)]
      BY <1>1, <2>1, <2>5 DEF Salvaged
    <3>3. h \in Halves[Len(l.files)]
      BY <2>2, <2>3, <3>1, <3>2 DEF Chain, Closed
    <3>4. ASSUME NEW n \in Halves[Len(l.files)], n > h
          PROVE  Bytes(SubSeq(l.files, 1, n)) > a
      <4>1. n \in Nat /\ n >= k
        BY <1>1, <2>2, <3>1, <3>2, <3>4 DEF Chain
      <4>2. CASE n = k
        BY <1>3, <1>5, <2>1, <4>2
      <4>3. CASE n > k
        BY <1>1, <2>1, <2>5, <4>3 DEF Salvaged, TooMany
      <4> QED BY <4>1, <4>2, <4>3
    <3> QED BY <3>3, <3>4
  <2>6. \A n \in Halves[Len(l.files)] : l.steady /\ n > h => TooMany(l, a, n)
    BY <2>5 DEF TooMany
  <2>7. \A n : TooMany(delivery'[d], accepts[delivery'[d].channel], n) <=> TooMany(l, a, n)
    BY <2>4 DEF TooMany
  <2> QED BY <2>3, <2>4, <2>5, <2>6, <2>7 DEF Salvaged
<1>6. CASE /\ IsTooLarge(d) /\ LastTry(d)
           /\ delivery' = [delivery EXCEPT ![d] = [delivery[d] EXCEPT !.pc = "refused"]]
  <2>1. /\ delivery'[d].pc = "refused" /\ delivery'[d].files = l.files
        /\ delivery'[d].steady = l.steady /\ delivery'[d].channel = l.channel
    BY <1>1, <1>6 DEF PostingTypeOK, DeliveryState
  <2>2. l.kept # 0
    <3> SUFFICES ASSUME l.kept = 0
                 PROVE  FALSE
      OBVIOUS
    <3>1. SubSeq(l.files, 1, 0) = <<>>
      BY <1>1
    <3>2. Bytes(SubSeq(l.files, 1, l.kept)) = 0
      BY <3>1, BytesOfNone
    <3>3. 0 > a
      BY <1>3, <1>6, <3>2
    <3> QED BY <1>2, <3>3
  <2>3. l.kept = 1
    BY <1>1, <1>6, <2>2 DEF LastTry
  <2> QED BY <1>1, <1>3, <1>6, <2>1, <2>3 DEF Salvaged, TooMany
<1> QED BY <1>4, <1>5, <1>6 DEF Attempt, DeliveryBecomes

\* Preparing the files, telling of a failure and another error say nothing of the limit.
LEMMA OtherStepsSalvage ==
  ASSUME DeliveryAssumption, NoticeInv, NoticeInv', SalvageInv, NEW d \in Deliveries,
         \/ \E c \in Channels : DeliverAlbum(d, c)
         \/ Claim(d) \/ Notice(d) \/ AttemptError(d)
  PROVE  Salvaged(delivery'[d], accepts[delivery'[d].channel])
<1> DEFINE l == delivery[d]
<1>1. /\ l \in DeliveryState /\ delivery'[d] \in DeliveryState
      /\ delivery \in [Deliveries -> DeliveryState] /\ Salvaged(l, accepts[l.channel])
  BY DEF NoticeInv, NoticeTypes, PostingTypeOK, SalvageInv
<1>2. ASSUME NEW c \in Channels, DeliverAlbum(d, c)
      PROVE  Salvaged(delivery'[d], accepts[delivery'[d].channel])
  <2>1. PICK mode \in Modes : \E o \in Prepared(mode) :
          DeliveryBecomes(d, [pc |-> o.pc, channel |-> c, files |-> o.files, kept |-> Len(o.files),
                      steady |-> TRUE, at |-> 0])
    BY <1>2 DEF DeliverAlbum
  <2>2. PICK o \in Prepared(mode) :
          DeliveryBecomes(d, [pc |-> o.pc, channel |-> c, files |-> o.files, kept |-> Len(o.files),
                      steady |-> TRUE, at |-> 0])
    BY <2>1
  <2>3. o.pc \in {"send", "told", "quiet"}
    BY DEF Prepared, deliverRandom, deliverSingle, deliverComic, deliverVideo, deliverCustom,
           ToSend, GivesUp, Modes
  <2>4. delivery'[d] = [pc |-> o.pc, channel |-> c, files |-> o.files, kept |-> Len(o.files),
                        steady |-> TRUE, at |-> 0]
    BY <1>1, <2>2 DEF DeliveryBecomes
  <2>5. PICK files \in Seq(Sizes) : files = o.files
    BY <1>1, <2>4 DEF DeliveryState
  <2>6. PICK n \in Nat : n = Len(files)
    OBVIOUS
  <2>7. /\ delivery'[d].files = files /\ delivery'[d].kept = n
        /\ delivery'[d].pc \notin {"refused", "notice", "failed"}
    BY <2>3, <2>4, <2>5, <2>6
  <2>8. n \in Halves[n] /\ \A m \in Halves[n] : ~(m > n)
    BY HalvesChain DEF Chain
  <2>9. files # <<>> => n > 0
    BY <2>6
  <2> QED BY <2>6, <2>7, <2>8, <2>9 DEF Salvaged
<1>3. CASE Claim(d) \/ Notice(d)
  <2>1. PICK q \in {"notice", "failed"} :
          /\ delivery'[d].pc = q /\ delivery'[d].files = l.files
          /\ delivery'[d].steady = l.steady /\ delivery'[d].channel = l.channel
    <3>1. PICK q \in {"notice", "failed"} :
            \/ DeliveryBecomes(d, [l EXCEPT !.pc = q, !.at = now])
            \/ DeliveryBecomes(d, [l EXCEPT !.pc = q])
      <4>1. CASE Claim(d)
        BY <4>1 DEF Claim
      <4>2. CASE Notice(d)
        BY <4>2 DEF Notice
      <4> QED BY <1>3, <4>1, <4>2
    <3>2. delivery'[d] = [l EXCEPT !.pc = q, !.at = now] \/ delivery'[d] = [l EXCEPT !.pc = q]
      BY <1>1, <3>1 DEF DeliveryBecomes
    <3> QED BY <1>1, <3>2 DEF DeliveryState
  <2>2. l.pc \in {"refused", "notice"}
    BY <1>3 DEF Claim, Notice
  <2> QED BY <1>1, <2>1, <2>2 DEF Salvaged, TooMany
<1>4. CASE AttemptError(d)
  <2>1. delivery'[d].pc = "refused" /\ delivery'[d].steady = FALSE
    BY <1>1, <1>4 DEF AttemptError, DeliveryBecomes, DeliveryState
  <2> QED BY <2>1 DEF Salvaged
<1> QED BY <1>2, <1>3, <1>4

\* When what Discord accepts moves, the deliveries it may concern are no longer steady.
LEMMA MoveSalvages ==
  ASSUME NoticeInv, SalvageInv, NEW c \in Channels, LimitMoves(c)
  PROVE  SalvageInv'
<1> SUFFICES ASSUME NEW d \in Deliveries
             PROVE  Salvaged(delivery'[d], accepts'[delivery'[d].channel])
  BY DEF SalvageInv
<1>1. /\ delivery[d] \in DeliveryState /\ accepts \in [Channels -> Accepted]
      /\ Salvaged(delivery[d], accepts[delivery[d].channel])
  BY DEF NoticeInv, NoticeTypes, PostingTypeOK, SalvageInv
<1>2. CASE delivery[d].channel = c
  <2>1. /\ delivery'[d].steady = FALSE /\ delivery'[d].pc = delivery[d].pc
        /\ delivery'[d].files = delivery[d].files /\ delivery'[d].kept = delivery[d].kept
    BY <1>1, <1>2 DEF LimitMoves, DeliveryState
  <2> QED BY <1>1, <2>1 DEF Salvaged
<1>3. CASE delivery[d].channel # c
  <2>1. delivery'[d] = delivery[d]
    BY <1>3 DEF LimitMoves
  <2>2. accepts'[delivery[d].channel] = accepts[delivery[d].channel]
    BY <1>1, <1>3 DEF LimitMoves, DeliveryState
  <2> QED BY <1>1, <2>1, <2>2
<1> QED BY <1>2, <1>3

(***************************************************************************)
(* However many files a message has, however large, and whatever Discord   *)
(* accepts: the backoff (sendWithBackoff of                                *)
(* internal/controller/discord/bot.go) posts the longest of the prefixes   *)
(* that halving comes to and Discord takes, never an empty one of files    *)
(* there are, and gives up only on a first file that is too large alone.   *)
(***************************************************************************)
THEOREM OverBudgetPostsAreSalvaged ==
  ASSUME DeliveryAssumption
  PROVE  PostingSpec => []BackoffSalvages
<1>1. PostingInit => NoticeInv
  BY NoticeInvInit
<1>2. PostingInit => SalvageInv
  BY DEF PostingInit, SalvageInv, Salvaged
<1>3. ASSUME NoticeInv, [PostingNext]_posting
      PROVE  NoticeInv'
  BY <1>3, NoticeInvStep
<1>4. ASSUME NoticeInv, NoticeInv', SalvageInv, [PostingNext]_posting
      PROVE  SalvageInv'
  <2>1. CASE UNCHANGED posting
    BY <1>4, <2>1 DEF posting, SalvageInv
  <2>2. ASSUME NEW d \in Deliveries,
               (\E c \in Channels : DeliverAlbum(d, c)) \/ Continue(d) \/ AttemptError(d)
        PROVE  SalvageInv'
    <3>1. /\ UNCHANGED accepts /\ \E l : DeliveryBecomes(d, l)
          /\ delivery \in [Deliveries -> DeliveryState] /\ PostingTypeOK
      BY <1>4, <2>2 DEF DeliverAlbum, Continue, Attempt, Claim, Notice, AttemptError, NoticeInv,
                        NoticeTypes, PostingTypeOK
    <3>2. \A e \in Deliveries : e # d => delivery'[e] = delivery[e]
      BY <3>1 DEF DeliveryBecomes
    <3>3. Salvaged(delivery'[d], accepts[delivery'[d].channel])
      BY <1>4, <2>2, <3>1, AttemptSalvages, OtherStepsSalvage DEF Continue
    <3> QED BY <1>4, <3>1, <3>2, <3>3 DEF SalvageInv
  <2>3. CASE PostingTick
    BY <1>4, <2>3 DEF PostingTick, SalvageInv
  <2> QED BY <1>4, <2>1, <2>2, <2>3, MoveSalvages DEF PostingNext
<1>5. SalvageInv => BackoffSalvages
  BY DEF SalvageInv, Salvaged, BackoffSalvages, TooMany
<1> QED BY <1>1, <1>2, <1>3, <1>4, <1>5, PTL DEF PostingSpec

-----------------------------------------------------------------------------
(* Samples                                                                 *)

\* One file weighs what it does.
LEMMA BytesOfOne ==
  ASSUME NEW f \in PoolFiles, pool \in Seq(Nat \ {0})
  PROVE  Weight(<<f>>) = pool[f]
<1> DEFINE Eq(it) == it = [s \in SUBSET {1} |->
                             IF s = {} THEN 0
                             ELSE LET x == CHOOSE x \in s : TRUE IN pool[<<f>>[x]] + it[s \ {x}]]
           It == CHOOSE it : Eq(it)
           One == [s \in SUBSET {1} |-> IF s = {} THEN 0 ELSE pool[f]]
<1>1. pool[f] \in Nat
  BY DEF PoolFiles
<1>2. Eq(One)
  <2>1. ASSUME NEW s \in SUBSET {1}, s # {}
        PROVE  /\ (CHOOSE x \in s : TRUE) = 1 /\ s \ {1} = {}
    BY <2>1
  <2>2. One[{}] = 0 /\ <<f>>[1] = f
    OBVIOUS
  <2>3. ASSUME NEW s \in SUBSET {1}
        PROVE  One[s] = IF s = {} THEN 0
                        ELSE LET x == CHOOSE x \in s : TRUE IN pool[<<f>>[x]] + One[s \ {x}]
    <3>1. CASE s = {}
      BY <3>1
    <3>2. CASE s # {}
      <4>1. PICK x : x = CHOOSE y \in s : TRUE
        OBVIOUS
      <4>2. x = 1
        BY <2>1, <3>2, <4>1
      <4>3. One[s] = pool[f] /\ One[s \ {x}] = 0 /\ <<f>>[x] = f
        BY <2>1, <2>2, <3>2, <4>2
      <4>4. pool[<<f>>[x]] + One[s \ {x}] = pool[f]
        BY <1>1, <4>3
      <4> HIDE DEF One
      <4> QED BY <3>2, <4>1, <4>3, <4>4
    <3> QED BY <3>1, <3>2
  <2>4. One = [s \in SUBSET {1} |-> One[s]]
    OBVIOUS
  <2> HIDE DEF One
  <2> QED BY <2>3, <2>4
<1> HIDE DEF One
<1>3. Eq(It)
  BY <1>2
<1> HIDE DEF It
<1>4. It[{1}] = pool[f]
  <2>1. It[{}] = 0
    BY <1>3
  <2>2. PICK x : x = CHOOSE y \in {1} : TRUE
    OBVIOUS
  <2>3. x = 1 /\ {1} \ {x} = {} /\ <<f>>[x] = f
    BY <2>2
  <2>4. It[{1}] = pool[<<f>>[x]] + It[{1} \ {x}]
    BY <1>3, <2>2
  <2>5. It[{1} \ {x}] = 0 /\ pool[<<f>>[x]] = pool[f]
    BY <2>1, <2>3
  <2>6. pool[<<f>>[x]] + It[{1} \ {x}] = pool[f]
    BY <1>1, <2>5
  <2> QED BY <2>4, <2>6
<1>5. DOMAIN <<f>> = {1}
  OBVIOUS
<1>6. Weight(<<f>>) = It[DOMAIN <<f>>]
  BY <1>5 DEF It, Weight, FoldSeq, FoldFunction, FoldFunctionOnSet,
              MapThenFoldSet
<1> QED BY <1>4, <1>5, <1>6

\* The files a sample is drawn from, in some order, are all of them but the cover.
LEMMA OrderIsWhole ==
  ASSUME NEW S, IsFiniteSet(S), NEW order \in SetToSeqs(S)
  PROVE  order \in Seq(S) /\ \A f \in S : \E i \in 1 .. Len(order) : order[i] = f
<1>1. Cardinality(S) \in Nat
  BY FS_CardinalityType
<1>2. PICK n \in Nat : n = Cardinality(S)
  BY <1>1
<1>3. order \in [1 .. n -> S] /\ \A i, j \in 1 .. n : i # j => order[i] # order[j]
  BY <1>2 DEF SetToSeqs, Cardinality, Cardinality
<1>4. order \in Injection(1 .. n, S)
  BY <1>3 DEF Injection, IsInjective
<1>5. Cardinality(1 .. n) = n
  BY FS_Interval
<1>6. order \in Surjection(1 .. n, S)
  BY <1>2, <1>4, <1>5, FS_Injection
<1>7. order \in Seq(S) /\ Len(order) = n
  BY <1>3
<1> QED BY <1>6, <1>7 DEF Surjection

\* A sequence without its element i.
LEMMA RemovedAt ==
  ASSUME NEW T, NEW s \in Seq(T), NEW i \in 1 .. Len(s)
  PROVE  /\ RemoveAt(s, i) \in Seq(T) /\ Len(RemoveAt(s, i)) = Len(s) - 1
         /\ \A k \in 1 .. Len(s) - 1 :
              RemoveAt(s, i)[k] = IF k < i THEN s[k] ELSE s[k + 1]
<1> DEFINE a == SubSeq(s, 1, i - 1)
           b == SubSeq(s, i + 1, Len(s))
<1>1. /\ a \in Seq(T) /\ Len(a) = i - 1 /\ \A k \in 1 .. i - 1 : a[k] = s[k]
  OBVIOUS
<1>2. /\ b \in Seq(T) /\ Len(b) = Len(s) - i /\ \A k \in 1 .. Len(s) - i : b[k] = s[k + i]
  OBVIOUS
<1>3. RemoveAt(s, i) = a \o b
  BY DEF RemoveAt
<1> HIDE DEF a, b
<1>4. a \o b \in Seq(T) /\ Len(a \o b) = Len(s) - 1
  <2>1. a \in Seq(T) /\ b \in Seq(T)
    BY <1>1, <1>2
  <2>2. a \o b \in Seq(T) /\ Len(a \o b) = Len(a) + Len(b)
    BY <2>1
  <2> QED BY <1>1, <1>2, <2>2
<1>5. ASSUME NEW k \in 1 .. Len(s) - 1
      PROVE  (a \o b)[k] = IF k < i THEN s[k] ELSE s[k + 1]
  <2>1. CASE k < i
    BY <1>1, <1>2, <2>1
  <2>2. CASE k >= i
    <3>1. (a \o b)[k] = b[k - (i - 1)]
      BY <1>1, <1>2, <2>2
    <3>2. PICK m \in 1 .. Len(s) - i : m = k - (i - 1)
      BY <2>2
    <3>3. m + i = k + 1 /\ b[m] = s[m + i]
      BY <1>2, <3>2
    <3>4. (a \o b)[k] = s[k + 1]
      BY <3>1, <3>2, <3>3
    <3> QED BY <2>2, <3>4
  <2>3. k < i \/ k >= i
    OBVIOUS
  <2> QED BY <2>1, <2>2, <2>3
<1> QED BY <1>3, <1>4, <1>5

\* A file that fits is in the selection or still to come.
AtHand(s, w) ==
  \/ \E i \in 1 .. Len(s) : Fits(s[i])
  \/ \E i \in 1 .. Len(w) : Fits(w[i])

(***************************************************************************)
(* What fitToLimit knows of its selection s and the candidates w at the    *)
(* top of its loop: the cover is at the front, where it was put because it *)
(* fits, and whatever has been evicted, a file that fits, if there is one, *)
(* has not been lost.                                                      *)
(***************************************************************************)
Serving(s, w) ==
  /\ s \in Seq(PoolFiles) /\ w \in Seq(PoolFiles) /\ Len(s) <= limit
  /\ \A i \in 1 .. Len(w) : ~IsCover(w[i])
  /\ \A i \in 1 .. Len(s) : IsCover(s[i]) => i = 1 /\ Fits(s[i])
  /\ covered /\ Fits(1) => Len(s) > 0 /\ s[1] = 1
  /\ (\E f \in PoolFiles : Fits(f)) => AtHand(s, w)

SampleInv ==
  /\ pool \in Seq(Nat \ {0}) /\ covered \in BOOLEAN /\ (covered => pool # <<>>) /\ limit \in Nat \ {0}
  /\ step \in {"sample", "sampled"} => Serving(selected, waiting)
  /\ step = "sampled" =>
       Weight(selected) <= Budget /\ (Len(selected) = limit \/ waiting = <<>>)

\* The next candidate joins the selection.
LEMMA RefillServes ==
  ASSUME limit \in Nat, NEW s, Serving(s, waiting), Len(s) < limit
  PROVE  Serving(Refilled(s), Drawn)
<1>1. /\ s \in Seq(PoolFiles) /\ waiting \in Seq(PoolFiles)
      /\ Len(s) \in Nat /\ Len(waiting) \in Nat
  BY DEF Serving
<1>2. CASE waiting = <<>>
  <2>1. Refilled(s) = s /\ Drawn = waiting
    BY <1>2 DEF Refilled, Drawn
  <2> QED BY <2>1
<1>3. CASE waiting # <<>>
  <2>1. PICK h \in PoolFiles : h = Head(waiting)
    BY <1>1, <1>3
  <2>2. PICK t \in Seq(PoolFiles) : t = Tail(waiting)
    <3>1. Tail(waiting) \in Seq(PoolFiles)
      BY <1>1, <1>3
    <3> QED BY <3>1
  <2>3. PICK r \in Seq(PoolFiles) : r = Append(s, h)
    <3>1. Append(s, h) \in Seq(PoolFiles)
      BY <1>1, <2>1
    <3> QED BY <3>1
  <2>4. Refilled(s) = r /\ Drawn = t
    BY <1>3, <2>1, <2>2, <2>3 DEF Refilled, Drawn
  <2>5. /\ h = waiting[1] /\ Len(waiting) = Len(t) + 1 /\ Len(t) \in Nat
        /\ \A i \in 1 .. Len(t) : t[i] = waiting[i + 1]
    BY <1>1, <1>3, <2>1, <2>2
  <2>6. /\ Len(r) = Len(s) + 1 /\ r[Len(s) + 1] = h
        /\ \A i \in 1 .. Len(s) : r[i] = s[i]
    BY <1>1, <2>3
  <2>7. Len(r) <= limit
    BY <1>1, <2>6
  <2>8. ~IsCover(h) /\ \A i \in 1 .. Len(t) : ~IsCover(t[i])
    BY <1>1, <2>5 DEF Serving
  <2>9. ASSUME NEW i \in 1 .. Len(r), IsCover(r[i])
        PROVE  i = 1 /\ Fits(r[i])
    <3>1. i \in 1 .. Len(s)
      BY <1>1, <2>6, <2>8, <2>9
    <3> QED BY <2>6, <2>9, <3>1 DEF Serving
  <2>10. covered /\ Fits(1) => Len(r) > 0 /\ r[1] = 1
    <3> SUFFICES ASSUME covered /\ Fits(1)
                 PROVE  Len(r) > 0 /\ r[1] = 1
      OBVIOUS
    <3>1. Len(s) > 0 /\ s[1] = 1
      BY DEF Serving
    <3>2. 1 \in 1 .. Len(s)
      BY <1>1, <3>1
    <3> QED BY <1>1, <2>6, <3>1, <3>2
  <2>11. ASSUME NEW f \in PoolFiles, Fits(f)
         PROVE  AtHand(r, t)
    <3>1. AtHand(s, waiting)
      BY <2>11 DEF Serving
    <3>2. CASE \E i \in 1 .. Len(s) : Fits(s[i])
      <4>1. PICK i \in 1 .. Len(s) : Fits(s[i])
        BY <3>2
      <4>2. i \in 1 .. Len(r) /\ r[i] = s[i]
        BY <1>1, <2>6
      <4> QED BY <4>1, <4>2 DEF AtHand
    <3>3. CASE \E i \in 1 .. Len(waiting) : Fits(waiting[i])
      <4>1. PICK i \in 1 .. Len(waiting) : Fits(waiting[i])
        BY <3>3
      <4>2. CASE i = 1
        <5>1. Len(s) + 1 \in 1 .. Len(r) /\ Fits(r[Len(s) + 1])
          BY <1>1, <2>5, <2>6, <4>1, <4>2
        <5> QED BY <5>1 DEF AtHand
      <4>3. CASE i # 1
        <5>1. i - 1 \in 1 .. Len(t) /\ t[i - 1] = waiting[(i - 1) + 1] /\ (i - 1) + 1 = i
          BY <1>1, <2>5, <4>3
        <5> QED BY <4>1, <5>1 DEF AtHand
      <4> QED BY <4>2, <4>3
    <3> QED BY <3>1, <3>2, <3>3 DEF AtHand
  <2>12. Serving(r, t)
    BY <2>7, <2>8, <2>9, <2>10, <2>11 DEF Serving
  <2> QED BY <2>4, <2>12
<1> QED BY <1>2, <1>3

\* A largest file that is no cover is evicted: when it fits, it was not alone, and the others
\* are smaller.
LEMMA EvictServes ==
  ASSUME Budget \in Nat, pool \in Seq(Nat \ {0}), limit \in Nat, Serving(selected, waiting),
         NEW h \in 1 .. Len(selected), ~IsCover(selected[h]),
         \A j \in 1 .. Len(selected) :
           ~IsCover(selected[j]) => pool[selected[j]] <= pool[selected[h]],
         Weight(selected) > Budget
  PROVE  /\ Serving(RemoveAt(selected, h), waiting)
         /\ Len(RemoveAt(selected, h)) < limit
<1> DEFINE s == selected
<1>1. PICK r \in Seq(PoolFiles) :
        /\ r = RemoveAt(selected, h) /\ Len(r) = Len(s) - 1
        /\ \A k \in 1 .. Len(s) - 1 : r[k] = IF k < h THEN s[k] ELSE s[k + 1]
  BY RemovedAt DEF Serving
<1>2. /\ s \in Seq(PoolFiles) /\ Len(s) \in Nat /\ Len(s) <= limit
      /\ waiting \in Seq(PoolFiles) /\ Len(waiting) \in Nat
  BY DEF Serving
<1>3. s[h] \in PoolFiles
  BY <1>2
<1>4. Len(r) < limit /\ Len(r) <= limit
  BY <1>1, <1>2
<1>5. ASSUME NEW j \in 1 .. Len(s), j # h
      PROVE  \E k \in 1 .. Len(r) : r[k] = s[j]
  <2>1. CASE j < h
    <3>1. j \in 1 .. Len(r) /\ r[j] = s[j]
      BY <1>1, <1>2, <2>1
    <3> QED BY <3>1
  <2>2. CASE j > h
    <3>1. j - 1 \in 1 .. Len(r) /\ ~(j - 1 < h) /\ (j - 1) + 1 = j
      BY <1>1, <1>2, <2>2
    <3>2. r[j - 1] = s[(j - 1) + 1]
      BY <1>1, <3>1
    <3> QED BY <3>1, <3>2
  <2> QED BY <1>5, <2>1, <2>2
<1>6. ASSUME NEW k \in 1 .. Len(r)
      PROVE  \E j \in 1 .. Len(s) : r[k] = s[j] /\ j >= k /\ (j = 1 => k = 1)
  <2>1. k \in 1 .. Len(s) /\ k + 1 \in 1 .. Len(s) /\ k \in 1 .. Len(s) - 1
    BY <1>1, <1>2
  <2>2. CASE k < h
    BY <1>1, <2>1, <2>2
  <2>3. CASE k >= h
    <3>1. r[k] = s[k + 1]
      BY <1>1, <2>1, <2>3
    <3> QED BY <2>1, <3>1
  <2> QED BY <2>1, <2>2, <2>3
<1>7. ASSUME NEW k \in 1 .. Len(r), IsCover(r[k])
      PROVE  k = 1 /\ Fits(r[k])
  BY <1>6, <1>7 DEF Serving
<1>8. ASSUME covered, Fits(1)
      PROVE  Len(r) > 0 /\ r[1] = 1
  <2>1. Len(s) > 0 /\ s[1] = 1
    BY <1>8 DEF Serving
  <2>2. h # 1
    BY <1>8, <2>1 DEF IsCover
  <2>3. 1 \in 1 .. Len(s) - 1 /\ 1 < h
    BY <1>2, <2>1, <2>2
  <2> QED BY <1>1, <1>2, <2>1, <2>3
<1>9. ASSUME NEW f \in PoolFiles, Fits(f)
      PROVE  AtHand(r, waiting)
  <2>1. AtHand(s, waiting)
    BY <1>9 DEF Serving
  <2>2. ASSUME NEW i \in 1 .. Len(s), Fits(s[i])
        PROVE  \E j \in 1 .. Len(s) : j # h /\ Fits(s[j])
    <3>1. CASE i # h
      BY <2>2, <3>1
    <3>2. CASE i = h
      <4>1. Len(s) # 1
        <5> SUFFICES ASSUME Len(s) = 1
                     PROVE  FALSE
          OBVIOUS
        <5>1. PICK g \in PoolFiles : g = s[1]
          <6>1. h = 1
            BY <1>2
          <6> QED BY <1>3, <6>1
        <5>2. h = 1 /\ s = <<g>>
          BY <1>2, <5>1
        <5>3. Weight(s) = pool[g]
          BY <5>2, BytesOfOne
        <5>4. pool[g] <= Budget /\ pool[g] \in Nat
          BY <2>2, <3>2, <5>1, <5>2 DEF Fits, PoolFiles
        <5> QED BY <5>3, <5>4
      <4>2. PICK j \in 1 .. Len(s) : j # h
        <5>1. PICK n \in Nat : n = Len(s)
          BY <1>2
        <5>2. n > 1
          BY <4>1, <5>1
        <5>3. 1 \in 1 .. n /\ 2 \in 1 .. n
          BY <5>2
        <5> QED BY <5>1, <5>3
      <4>3. CASE IsCover(s[j])
        <5>1. Fits(s[j])
          BY <4>3 DEF Serving
        <5> QED BY <4>2, <5>1
      <4>4. CASE ~IsCover(s[j])
        <5>1. s[j] \in 1 .. Len(pool) /\ s[h] \in 1 .. Len(pool)
          <6>1. s[j] \in PoolFiles /\ s[h] \in PoolFiles
            BY <1>2
          <6> QED BY <6>1 DEF PoolFiles
        <5>2. pool[s[j]] \in Nat /\ pool[s[h]] \in Nat /\ pool[s[j]] <= pool[s[h]]
          BY <4>4, <5>1
        <5>3. pool[s[h]] <= Budget
          BY <2>2, <3>2 DEF Fits
        <5>4. Fits(s[j])
          BY <5>2, <5>3 DEF Fits
        <5> QED BY <4>2, <5>4
      <4> QED BY <4>3, <4>4
    <3> QED BY <3>1, <3>2
  <2>3. CASE \E i \in 1 .. Len(s) : Fits(s[i])
    <3>1. PICK j \in 1 .. Len(s) : j # h /\ Fits(s[j])
      BY <2>2, <2>3
    <3>2. PICK k \in 1 .. Len(r) : r[k] = s[j]
      BY <1>5, <3>1
    <3>3. Fits(r[k])
      BY <3>1, <3>2
    <3> QED BY <3>3 DEF AtHand
  <2> QED BY <2>1, <2>3 DEF AtHand
<1>10. Serving(r, waiting)
  BY <1>2, <1>4, <1>7, <1>8, <1>9 DEF Serving
<1> QED BY <1>1, <1>4, <1>10

\* Of the numbers in a sequence at some places, there is a first largest.
LEMMA FirstLargest ==
  ASSUME NEW w \in Seq(Nat), NEW N \in SUBSET (1 .. Len(w)), N # {}
  PROVE  \E i \in N : \A j \in N : w[j] < w[i] \/ (w[j] = w[i] /\ i <= j)
<1> DEFINE Beats(i, j) == w[j] < w[i] \/ (w[j] = w[i] /\ i <= j)
           Upto(n) == N \cap (1 .. n)
           T == {n \in 1 .. Len(w) : Upto(n) # {} /\ ~\E i \in Upto(n) : \A j \in Upto(n) : Beats(i, j)}
<1>1. PICK l \in Nat : l = Len(w)
  OBVIOUS
<1>2. \A i \in 1 .. l : w[i] \in Nat
  BY <1>1
<1>3. ASSUME T # {}
      PROVE  FALSE
  <2>1. PICK n \in T : \A y \in T : n <= y
    <3>1. T \subseteq Nat
      OBVIOUS
    <3> HIDE DEF T
    <3> QED BY <1>3, <3>1, NatLeast
  <2>2. /\ n \in 1 .. l /\ Upto(n) # {}
        /\ ~\E i \in Upto(n) : \A j \in Upto(n) : Beats(i, j)
    BY <1>1
  <2>3. PICK m \in 0 .. l : m = n - 1
    BY <2>2
  <2>4. Upto(n) \subseteq Upto(m) \cup {n}
    BY <2>2, <2>3
  <2>5. CASE Upto(m) = {}
    <3>1. Upto(n) = {n}
      BY <2>2, <2>4, <2>5
    <3>2. Beats(n, n)
      BY <1>2, <2>2
    <3> HIDE DEF Upto, Beats
    <3> QED BY <2>2, <3>1, <3>2
  <2>6. CASE Upto(m) # {}
    <3>1. m \in 1 .. l /\ m \notin T
      <4>1. PICK x \in N : x \in 1 .. m
        BY <2>6
      <4>2. m \in 1 .. l
        BY <2>3, <4>1
      <4>3. ~(n <= m)
        BY <2>2, <2>3
      <4> HIDE DEF T
      <4> QED BY <2>1, <4>2, <4>3
    <3>2. PICK h \in Upto(m) : \A j \in Upto(m) : Beats(h, j)
      BY <1>1, <2>6, <3>1
    <3>3. h \in Upto(n) /\ h \in 1 .. l /\ h < n
      BY <2>2, <2>3, <3>2
    <3>4. PICK a \in Nat, b \in Nat : w[n] = a /\ w[h] = b
      BY <1>2, <2>2, <3>3
    <3>5. CASE n \notin N
      <4>1. Upto(n) \subseteq Upto(m)
        <5>1. n \notin Upto(n)
          BY <3>5
        <5> HIDE DEF Upto
        <5> QED BY <2>4, <5>1
      <4> HIDE DEF Upto, Beats
      <4> QED BY <2>2, <3>2, <3>3, <4>1
    <3>6. CASE a <= b
      <4>1. Beats(h, n)
        <5>1. h <= n
          BY <2>2, <3>3
        <5>2. a < b \/ a = b
          BY <3>6
        <5> QED BY <3>4, <5>1, <5>2
      <4> HIDE DEF Upto, Beats
      <4> QED BY <2>2, <2>4, <3>2, <3>3, <4>1
    <3>7. CASE n \in N /\ b < a
      <4>1. ASSUME NEW j \in Upto(m)
            PROVE  Beats(n, j)
        <5>1. j \in 1 .. l
          BY <2>3
        <5>2. PICK c \in Nat : w[j] = c
          BY <1>2, <5>1
        <5>3. c < b \/ c = b
          BY <3>2, <3>4, <5>2
        <5>4. c < a
          BY <3>7, <5>3
        <5> QED BY <3>4, <5>2, <5>4
      <4>2. Beats(n, n) /\ n \in Upto(n)
        BY <1>2, <2>2, <3>7
      <4> HIDE DEF Upto, Beats
      <4> QED BY <2>2, <2>4, <4>1, <4>2
    <3>8. a <= b \/ b < a
      OBVIOUS
    <3> QED BY <3>5, <3>6, <3>7, <3>8
  <2> QED BY <2>5, <2>6
<1>4. Upto(l) = N /\ l \in 1 .. l
  <2>1. Upto(l) = N
    BY <1>1
  <2>2. PICK x \in N : x \in 1 .. l
    BY <1>1
  <2> QED BY <2>1, <2>2
<1> QED BY <1>1, <1>3, <1>4

\* The file to evict is a largest one that is no cover, if there is one.
LEMMA HeaviestIs ==
  ASSUME pool \in Seq(Nat \ {0}), selected \in Seq(PoolFiles),
         \E i \in DOMAIN selected : ~IsCover(selected[i])
  PROVE  /\ Heaviest \in 1 .. Len(selected)
         /\ ~IsCover(selected[Heaviest])
         /\ \A j \in 1 .. Len(selected) : ~IsCover(selected[j]) =>
              pool[selected[j]] <= pool[selected[Heaviest]]
<1> DEFINE N == {i \in 1 .. Len(selected) : ~IsCover(selected[i])}
           w == [i \in 1 .. Len(selected) |-> pool[selected[i]]]
           Foremost(i) == \A j \in N : w[j] < w[i] \/ (w[j] = w[i] /\ i <= j)
<1>1. DOMAIN selected = 1 .. Len(selected) /\ Len(selected) \in Nat
  OBVIOUS
<1>2. \A i \in 1 .. Len(selected) : pool[selected[i]] \in Nat
  <2> TAKE i \in 1 .. Len(selected)
  <2>1. selected[i] \in PoolFiles
    OBVIOUS
  <2>2. selected[i] \in 1 .. Len(pool)
    BY <2>1 DEF PoolFiles
  <2> QED BY <2>2
<1>3. w \in Seq(Nat) /\ Len(w) = Len(selected)
  BY <1>1, <1>2
<1>4. N # {} /\ N \in SUBSET (1 .. Len(w))
  BY <1>1, <1>3
<1>5. \E i \in N : Foremost(i)
  <2> HIDE DEF N, w
  <2> QED BY <1>3, <1>4, FirstLargest
<1>6. \A i, j \in N : w[i] = pool[selected[i]] /\ w[i] \in Nat
  BY <1>2
<1>7. Heaviest = CHOOSE i \in DOMAIN selected :
        /\ ~IsCover(selected[i])
        /\ \A j \in DOMAIN selected : ~IsCover(selected[j]) =>
             \/ pool[selected[j]] < pool[selected[i]]
             \/ pool[selected[j]] = pool[selected[i]] /\ i <= j
  BY DEF Heaviest
<1>8. \E i \in DOMAIN selected :
        /\ ~IsCover(selected[i])
        /\ \A j \in DOMAIN selected : ~IsCover(selected[j]) =>
             \/ pool[selected[j]] < pool[selected[i]]
             \/ pool[selected[j]] = pool[selected[i]] /\ i <= j
  <2>1. PICK i \in N : Foremost(i)
    BY <1>5
  <2>2. ASSUME NEW j \in N
        PROVE  \/ pool[selected[j]] < pool[selected[i]]
               \/ pool[selected[j]] = pool[selected[i]] /\ i <= j
    <3>1. w[j] = pool[selected[j]] /\ w[i] = pool[selected[i]]
      BY <1>6
    <3> HIDE DEF w
    <3> QED BY <2>1, <3>1
  <2> QED BY <1>1, <2>1, <2>2
<1>9. /\ Heaviest \in 1 .. Len(selected)
      /\ ~IsCover(selected[Heaviest])
      /\ \A j \in 1 .. Len(selected) : ~IsCover(selected[j]) =>
           \/ pool[selected[j]] < pool[selected[Heaviest]]
           \/ pool[selected[j]] = pool[selected[Heaviest]]
  BY <1>1, <1>7, <1>8
<1> QED BY <1>2, <1>9

\* Selection and candidates serve after a step, when they do with the pool as it is.
LEMMA ServingThen ==
  ASSUME NEW s, NEW w, Serving(s, w), selected' = s, waiting' = w, UNCHANGED <<pool, covered, limit>>
  PROVE  Serving(selected, waiting)'
BY DEF Serving, AtHand, Fits, IsCover, PoolFiles

\* The first selection: the cover, if it fits, and then the first of the others.
LEMMA ShuffleServes ==
  ASSUME SampleInv, Shuffle
  PROVE  Serving(selected, waiting)'
<1> DEFINE S == {f \in PoolFiles : ~IsCover(f)}
           lead == Lead
<1>1. /\ pool \in Seq(Nat \ {0}) /\ covered \in BOOLEAN /\ (covered => pool # <<>>)
      /\ limit \in Nat \ {0} /\ UNCHANGED <<pool, covered, limit>>
  BY DEF SampleInv, Shuffle
<1>2. IsFiniteSet(S)
  <2>1. IsFiniteSet(PoolFiles)
    BY <1>1, FS_Interval DEF PoolFiles
  <2>2. S \in SUBSET PoolFiles
    OBVIOUS
  <2> HIDE DEF S
  <2> QED BY <2>1, <2>2, FS_Subset
<1>3. PICK order \in SetToSeqs(S) :
        LET first == IF Len(order) <= limit - Len(lead) THEN Len(order) ELSE limit - Len(lead)
        IN  /\ selected' = lead \o SubSeq(order, 1, first)
            /\ waiting' = SubSeq(order, first + 1, Len(order))
  BY DEF Shuffle
<1>4. order \in Seq(S) /\ \A f \in S : \E i \in 1 .. Len(order) : order[i] = f
  <2> HIDE DEF S
  <2> QED BY <1>2, OrderIsWhole
<1>5. PICK l \in {0, 1} :
        /\ lead \in Seq(PoolFiles) /\ Len(lead) = l
        /\ l = 1 <=> covered /\ Fits(1)
        /\ l = 1 => lead[1] = 1
  <2>1. CASE covered /\ Fits(1)
    <3>1. lead = <<1>>
      BY <2>1 DEF Lead
    <3>2. 1 \in PoolFiles
      BY <1>1, <2>1 DEF PoolFiles
    <3>3. <<1>> \in Seq(PoolFiles) /\ Len(<<1>>) = 1
      BY <3>2
    <3> QED BY <2>1, <3>1, <3>3
  <2>2. CASE ~(covered /\ Fits(1))
    <3>1. lead = <<>>
      BY <2>2 DEF Lead
    <3> QED BY <2>2, <3>1
  <2> QED BY <2>1, <2>2
<1>6. PICK n \in Nat : n = Len(order)
  BY <1>4
<1>7. PICK m \in 0 .. n :
        /\ l + m <= limit
        /\ selected' = lead \o SubSeq(order, 1, m) /\ waiting' = SubSeq(order, m + 1, n)
  <2>1. PICK k \in Nat : k = limit - Len(lead) /\ l + k = limit
    BY <1>1, <1>5
  <2>2. PICK first : /\ first = IF n <= k THEN n ELSE k
                     /\ selected' = lead \o SubSeq(order, 1, first)
                     /\ waiting' = SubSeq(order, first + 1, n)
    <3> HIDE DEF lead
    <3> QED BY <1>3, <1>6, <2>1
  <2>3. PICK t \in Nat : t = limit
    BY <1>1
  <2>4. l + k = t
    BY <2>1, <2>3
  <2>5. first \in 0 .. n /\ l + first <= t
    <3>1. CASE n <= k
      BY <2>2, <2>4, <3>1
    <3>2. CASE k < n
      BY <2>2, <2>4, <3>2
    <3> QED BY <3>1, <3>2
  <2> QED BY <2>2, <2>3, <2>5
<1> DEFINE a == SubSeq(order, 1, m)
           w == SubSeq(order, m + 1, n)
           s == lead \o a
<1>8. /\ a \in Seq(S) /\ Len(a) = m /\ \A i \in 1 .. m : a[i] = order[i]
  BY <1>4, <1>6
<1>9. /\ w \in Seq(S) /\ Len(w) = n - m /\ \A i \in 1 .. n - m : w[i] = order[i + m]
  BY <1>4, <1>6
<1>10. \A x \in Seq(S) : x \in Seq(PoolFiles) /\ \A i \in 1 .. Len(x) : ~IsCover(x[i])
  <2> TAKE x \in Seq(S)
  <2>1. \A i \in 1 .. Len(x) : x[i] \in S
    OBVIOUS
  <2>2. S \subseteq PoolFiles
    OBVIOUS
  <2>3. \A i \in 1 .. Len(x) : ~IsCover(x[i])
    BY <2>1
  <2>4. x \in Seq(PoolFiles)
    <3> HIDE DEF S
    <3> QED BY <2>2
  <2> QED BY <2>3, <2>4
<1> HIDE DEF a, w, lead
<1>11. /\ s \in Seq(PoolFiles) /\ Len(s) = l + m
       /\ \A i \in 1 .. l : s[i] = lead[i]
       /\ \A i \in 1 .. m : s[l + i] = a[i]
  <2>1. a \in Seq(PoolFiles)
    BY <1>8, <1>10
  <2>2. s \in Seq(PoolFiles) /\ Len(s) = Len(lead) + Len(a)
    BY <1>5, <2>1
  <2>3. \A i \in 1 .. Len(lead) : s[i] = lead[i]
    BY <1>5, <2>1
  <2>4. \A i \in 1 .. Len(a) : s[Len(lead) + i] = a[i]
    BY <1>5, <2>1
  <2> QED BY <1>5, <1>8, <2>2, <2>3, <2>4
<1> HIDE DEF s
<1>12. ASSUME NEW i \in 1 .. Len(s), IsCover(s[i])
       PROVE  i = 1 /\ Fits(s[i])
  <2>1. ~(i > l)
    <3> SUFFICES ASSUME i > l
                 PROVE  FALSE
      OBVIOUS
    <3>1. PICK k \in 1 .. m : i = l + k
      <4>1. i - l \in 1 .. m /\ i = l + (i - l)
        BY <1>11
      <4> QED BY <4>1
    <3>2. s[i] = a[k]
      BY <1>11, <3>1
    <3> QED BY <1>8, <1>10, <1>12, <3>2
  <2>2. l = 1 /\ i = 1
    BY <2>1
  <2> QED BY <1>5, <1>11, <2>2
<1>13. covered /\ Fits(1) => Len(s) > 0 /\ s[1] = 1
  BY <1>5, <1>11
<1>14. ASSUME NEW f \in PoolFiles, Fits(f)
       PROVE  AtHand(s, w)
  <2>1. CASE IsCover(f)
    <3>1. covered /\ f = 1
      BY <2>1 DEF IsCover
    <3>2. 1 \in 1 .. Len(s) /\ s[1] = f
      BY <1>11, <1>13, <1>14, <3>1
    <3> QED BY <1>14, <3>2 DEF AtHand
  <2>2. CASE ~IsCover(f)
    <3>1. PICK i \in 1 .. n : order[i] = f
      BY <1>4, <1>6, <2>2
    <3>2. CASE i <= m
      <4>1. i \in 1 .. m
        BY <3>2
      <4>2. l + i \in 1 .. Len(s) /\ s[l + i] = f
        BY <1>8, <1>11, <3>1, <4>1
      <4> QED BY <1>14, <4>2 DEF AtHand
    <3>3. CASE i > m
      <4>1. PICK k \in 1 .. n - m : k + m = i
        <5>1. i - m \in 1 .. n - m /\ (i - m) + m = i
          BY <3>3
        <5> QED BY <5>1
      <4>2. k \in 1 .. Len(w) /\ w[k] = f
        BY <1>9, <3>1, <4>1
      <4> QED BY <1>14, <4>2 DEF AtHand
    <3> QED BY <3>2, <3>3
  <2> QED BY <2>1, <2>2
<1>15. Serving(s, w)
  <2>1. w \in Seq(PoolFiles) /\ \A i \in 1 .. Len(w) : ~IsCover(w[i])
    BY <1>9, <1>10
  <2>2. Len(s) <= limit
    BY <1>7, <1>11
  <2> QED BY <1>11, <1>12, <1>13, <1>14, <2>1, <2>2 DEF Serving
<1>16. selected' = s /\ waiting' = w
  BY <1>7 DEF s, a, w
<1> QED BY <1>1, <1>15, <1>16, ServingThen

\* Every step of fitToLimit, and any of chunkOrdered, which is no business of its.
LEMMA SampleInvStep ==
  ASSUME PackingAssumption, SampleInv, [PackingNext]_packing
  PROVE  SampleInv'
<1>1. /\ pool \in Seq(Nat \ {0}) /\ covered \in BOOLEAN /\ (covered => pool # <<>>)
      /\ limit \in Nat \ {0} /\ Budget \in Nat
      /\ step \in {"sample", "sampled"} => Serving(selected, waiting)
  BY DEF SampleInv, PackingAssumption
<1>2. CASE UNCHANGED packing
  <2>1. UNCHANGED <<pool, covered, limit, step, waiting, selected>>
    BY <1>2 DEF packing
  <2>2. step \in {"sample", "sampled"} => Serving(selected, waiting)'
    BY <1>1, <2>1, ServingThen
  <2>3. Weight(selected)' = Weight(selected)
    BY <2>1 DEF Weight, FoldSeq, FoldFunction, FoldFunctionOnSet,
                 MapThenFoldSet
  <2> QED BY <1>1, <2>1, <2>2, <2>3 DEF SampleInv
<1>3. CASE Shuffle
  <2>1. step' = "sample" /\ UNCHANGED <<pool, covered, limit>>
    BY <1>3 DEF Shuffle
  <2>2. Serving(selected, waiting)'
    BY <1>3, ShuffleServes
  <2> QED BY <1>1, <2>1, <2>2 DEF SampleInv
<1>4. CASE Evict
  <2>1. /\ step = "sample" /\ step' = "sample" /\ UNCHANGED <<pool, covered, limit>>
        /\ Weight(selected) > Budget
        /\ \E i \in DOMAIN selected : ~IsCover(selected[i])
    BY <1>4 DEF Evict
  <2>2. Serving(selected, waiting) /\ selected \in Seq(PoolFiles)
    BY <1>1, <2>1 DEF Serving
  <2>3. PICK h \in 1 .. Len(selected) :
          /\ h = Heaviest /\ ~IsCover(selected[h])
          /\ \A j \in 1 .. Len(selected) :
               ~IsCover(selected[j]) => pool[selected[j]] <= pool[selected[h]]
    BY <1>1, <2>1, <2>2, HeaviestIs
  <2>4. PICK r : r = RemoveAt(selected, h) /\ Serving(r, waiting) /\ Len(r) < limit
    BY <1>1, <2>1, <2>2, <2>3, EvictServes
  <2>5. PICK s, w : s = Refilled(r) /\ w = Drawn /\ Serving(s, w)
    BY <1>1, <2>4, RefillServes
  <2>6. selected' = s /\ waiting' = w
    BY <1>4, <2>3, <2>4, <2>5 DEF Evict
  <2>7. Serving(selected, waiting)'
    BY <2>1, <2>5, <2>6, ServingThen
  <2> QED BY <1>1, <2>1, <2>7 DEF SampleInv
<1>5. CASE Sampled
  <2>1. /\ step = "sample" /\ UNCHANGED <<pool, covered, limit>>
        /\ Weight(selected) <= Budget
    BY <1>5 DEF Sampled
  <2>2. Serving(selected, waiting) /\ Len(selected) \in Nat /\ Len(selected) <= limit
    BY <1>1, <2>1 DEF Serving
  <2>3. CASE Len(selected) = limit \/ waiting = <<>>
    <3>1. step' = "sampled" /\ UNCHANGED <<selected, waiting>>
      BY <1>5, <2>3 DEF Sampled
    <3>2. Serving(selected, waiting)'
      BY <2>1, <2>2, <3>1, ServingThen
    <3>3. Weight(selected)' = Weight(selected)
      BY <2>1, <3>1 DEF Weight, FoldSeq, FoldFunction,
                        FoldFunctionOnSet, MapThenFoldSet
    <3> QED BY <1>1, <2>1, <2>3, <3>1, <3>2, <3>3 DEF SampleInv
  <2>4. CASE ~(Len(selected) = limit \/ waiting = <<>>)
    <3>1. PICK s, w : s = Refilled(selected) /\ w = Drawn /\ Serving(s, w)
      <4>1. Len(selected) < limit
        BY <1>1, <2>2, <2>4
      <4> QED BY <1>1, <2>2, <4>1, RefillServes
    <3>2. step' = "sample" /\ selected' = s /\ waiting' = w
      BY <1>5, <2>1, <2>4, <3>1 DEF Sampled
    <3>3. Serving(selected, waiting)'
      BY <2>1, <3>1, <3>2, ServingThen
    <3> QED BY <1>1, <2>1, <3>2, <3>3 DEF SampleInv
  <2> QED BY <2>3, <2>4
<1>6. CASE Pack \/ Packed
  <2>1. step' \in {"pack", "packed"} /\ UNCHANGED <<pool, covered, limit>>
    BY <1>6 DEF Pack, Packed
  <2> QED BY <1>1, <2>1 DEF SampleInv
<1> QED BY <1>2, <1>3, <1>4, <1>5, <1>6 DEF PackingNext

(***************************************************************************)
(* Whatever an album's files weigh and in whatever order they are drawn, a *)
(* sample of them (fitToLimit of internal/controller/discord/bot.go) is    *)
(* within what Discord takes, has the cover in front when that fits, and   *)
(* is empty only when no file fits on its own.                             *)
(***************************************************************************)
THEOREM SamplesServe ==
  ASSUME PackingAssumption
  PROVE  PackingSpec => []SampleServes
<1>1. PackingInit => SampleInv
  <2> SUFFICES ASSUME PackingInit
               PROVE  SampleInv
    OBVIOUS
  <2>1. pool \in Seq(Nat \ {0}) /\ limit \in Nat \ {0}
    BY DEF PackingInit, PackingAssumption
  <2> QED BY <2>1 DEF PackingInit, SampleInv
<1>2. ASSUME SampleInv, [PackingNext]_packing
      PROVE  SampleInv'
  BY <1>2, SampleInvStep
<1>3. SampleInv => SampleServes
  <2> SUFFICES ASSUME SampleInv, step = "sampled"
               PROVE  /\ Weight(selected) <= Budget /\ Len(selected) <= limit
                      /\ (\E f \in PoolFiles : Fits(f)) => selected # <<>>
                      /\ Len(selected) = limit \/ waiting = <<>>
                      /\ (covered /\ Fits(1)) => selected[1] = 1
    BY DEF SampleServes
  <2>1. /\ Serving(selected, waiting) /\ Weight(selected) <= Budget
        /\ Len(selected) = limit \/ waiting = <<>>
        /\ limit \in Nat \ {0}
    BY DEF SampleInv
  <2>2. ASSUME NEW f \in PoolFiles, Fits(f)
        PROVE  selected # <<>>
    <3>1. CASE waiting = <<>>
      <4>1. AtHand(selected, waiting) /\ Len(waiting) = 0
        BY <2>1, <2>2, <3>1 DEF Serving
      <4> QED BY <4>1 DEF AtHand
    <3>2. CASE Len(selected) = limit
      BY <2>1, <3>2
    <3> QED BY <2>1, <3>1, <3>2
  <2> QED BY <2>1, <2>2 DEF Serving
<1> QED BY <1>1, <1>2, <1>3, PTL DEF PackingSpec

-----------------------------------------------------------------------------
(* What files weigh together                                               *)

\* Sets of positions are finite, and smaller by one without one of theirs.
LEMMA PositionsCount ==
  ASSUME NEW n \in Nat, NEW T \in SUBSET (1 .. n)
  PROVE  /\ IsFiniteSet(T) /\ Cardinality(T) \in Nat /\ Cardinality(T) <= n
         /\ \A x \in T : Cardinality(T \ {x}) = Cardinality(T) - 1
<1>1. IsFiniteSet(1 .. n) /\ Cardinality(1 .. n) = n
  BY FS_Interval
<1>2. IsFiniteSet(T) /\ Cardinality(T) <= n
  BY <1>1, FS_Subset
<1>3. Cardinality(T) \in Nat
  BY <1>2, FS_CardinalityType
<1>4. \A x \in T : Cardinality(T \ {x}) = Cardinality(T) - 1
  BY <1>2, FS_RemoveElement
<1> QED BY <1>2, <1>3, <1>4

\* Of sets of positions, if there are any, there is one with none smaller.
LEMMA SmallestSet ==
  ASSUME NEW n \in Nat, NEW F \in SUBSET (SUBSET (1 .. n)), F # {}
  PROVE  \E T \in F : \A U \in F : ~(Cardinality(U) < Cardinality(T))
<1>1. \A T \in SUBSET (1 .. n) : Cardinality(T) \in Nat
  BY PositionsCount
<1> DEFINE C == {Cardinality(T) : T \in F}
<1>2. C \subseteq Nat /\ C # {}
  BY <1>1
<1>3. PICK c \in C : \A x \in C : c <= x
  <2> HIDE DEF C
  <2> QED BY <1>2, NatLeast
<1>4. PICK T \in F : Cardinality(T) = c
  OBVIOUS
<1>5. \A U \in F : c <= Cardinality(U) /\ Cardinality(U) \in Nat
  BY <1>1, <1>3
<1> QED BY <1>4, <1>5

\* What the fold over the files of s, a position at a time, is a solution of.
Adds(it, s) ==
  it = [T \in SUBSET (DOMAIN s) |->
          IF T = {} THEN 0 ELSE LET x == CHOOSE z \in T : TRUE IN pool[s[x]] + it[T \ {x}]]

\* Such a solution for the sets of at most n positions.
AddsTo(it, s, n) ==
  LET D == {T \in SUBSET (DOMAIN s) : Cardinality(T) <= n}
  IN  it = [T \in D |->
              IF T = {} THEN 0 ELSE LET x == CHOOSE z \in T : TRUE IN pool[s[x]] + it[T \ {x}]]

\* There is one.
LEMMA SumsExist ==
  ASSUME NEW s \in Seq(PoolFiles)
  PROVE  \E it : Adds(it, s)
<1> DEFINE D(n) == {T \in SUBSET (DOMAIN s) : Cardinality(T) <= n}
           bad  == {n \in Nat : ~\E it : AddsTo(it, s, n)}
<1>1. \A T \in SUBSET (DOMAIN s) : IsFiniteSet(T) /\ Cardinality(T) \in Nat
  <2>1. DOMAIN s = 1 .. Len(s) /\ Len(s) \in Nat
    OBVIOUS
  <2> QED BY <2>1, PositionsCount
<1>2. bad = {}
  <2> SUFFICES ASSUME bad # {} PROVE FALSE
    OBVIOUS
  <2>1. PICK n \in bad : \A m \in bad : n <= m
    <3>1. bad \subseteq Nat
      OBVIOUS
    <3> HIDE DEF bad
    <3> QED BY <3>1, NatLeast
  <2>2. n \in Nat /\ ~\E it : AddsTo(it, s, n)
    OBVIOUS
  <2>3. CASE n = 0
    <3>1. D(0) = {{}}
      <4>1. \A T \in D(0) : T = {}
        BY <1>1, FS_EmptySet
      <4>2. {} \in D(0)
        BY FS_EmptySet
      <4> QED BY <4>1, <4>2
    <3>2. AddsTo([T \in D(0) |-> 0], s, 0)
      <4>1. [T \in D(0) |-> 0] =
              [T \in D(0) |-> IF T = {} THEN 0
                              ELSE LET x == CHOOSE z \in T : TRUE
                                   IN pool[s[x]] + [U \in D(0) |-> 0][T \ {x}]]
        <5>1. \A T \in D(0) : T = {}
          BY <3>1
        <5> HIDE DEF D
        <5> QED BY <5>1, Zenon
      <4> QED BY <4>1, Zenon DEF AddsTo
    <3> QED BY <2>2, <2>3, <3>2
  <2>4. CASE n # 0
    <3>1. n - 1 \in Nat /\ n - 1 \notin bad
      BY <2>1, <2>2, <2>4
    <3>2. PICK it : AddsTo(it, s, n - 1)
      BY <3>1
    <3> DEFINE drawn(T) == LET x == CHOOSE z \in T : TRUE IN pool[s[x]] + it[T \ {x}]
               new == [T \in D(n) |-> IF T = {} THEN 0 ELSE drawn(T)]
    <3>3. ASSUME NEW U \in D(n - 1)
          PROVE  new[U] = it[U]
      <4>1. U \in D(n)
        BY <1>1, <2>2
      <4>2. it[U] = IF U = {} THEN 0 ELSE drawn(U)
        BY <3>2 DEF AddsTo
      <4> QED BY <4>1, <4>2
    <3>4. ASSUME NEW T \in D(n), T # {}
          PROVE  new[T] = LET x == CHOOSE z \in T : TRUE IN pool[s[x]] + new[T \ {x}]
      <4>1. PICK x : x = CHOOSE z \in T : TRUE
        OBVIOUS
      <4>2. x \in T
        BY <3>4, <4>1
      <4>3. T \ {x} \in D(n - 1)
        <5>1. Cardinality(T \ {x}) = Cardinality(T) - 1
          BY <1>1, <4>2, FS_RemoveElement
        <5> QED BY <1>1, <2>2, <5>1
      <4>4. new[T \ {x}] = it[T \ {x}]
        BY <3>3, <4>3
      <4>5. new[T] = pool[s[x]] + it[T \ {x}]
        BY <3>4, <4>1
      <4> QED BY <4>1, <4>4, <4>5
    <3>5. new[{}] = 0
      BY <2>2, FS_EmptySet
    <3>6. new = [T \in D(n) |-> new[T]]
      OBVIOUS
    <3>7. AddsTo(new, s, n)
      <4> HIDE DEF new, drawn
      <4> QED BY <3>4, <3>5, <3>6 DEF AddsTo
    <3> QED BY <2>2, <3>7
  <2> QED BY <2>3, <2>4
<1>3. D(Len(s)) = SUBSET (DOMAIN s)
  <2>1. DOMAIN s = 1 .. Len(s) /\ Len(s) \in Nat
    OBVIOUS
  <2>2. Cardinality(1 .. Len(s)) = Len(s) /\ IsFiniteSet(1 .. Len(s))
    BY <2>1, FS_Interval
  <2>3. \A T \in SUBSET (DOMAIN s) : Cardinality(T) <= Len(s)
    BY <2>1, <2>2, FS_Subset
  <2> QED BY <2>3
<1>4. PICK it : AddsTo(it, s, Len(s))
  BY <1>2
<1>5. Adds(it, s)
  BY <1>3, <1>4, Zenon DEF Adds, AddsTo
<1> QED BY <1>5

\* Whichever of its positions is taken off a set, the rest weighs that much less.
AnyOrder(it, s, T) == it[T] \in Nat /\ \A y \in T : it[T] = pool[s[y]] + it[T \ {y}]

\* A solution does not depend on the order.
LEMMA SumInAnyOrder ==
  ASSUME NEW s \in Seq(PoolFiles), pool \in Seq(Nat \ {0}), NEW it, Adds(it, s)
  PROVE  \A T \in SUBSET (DOMAIN s) : AnyOrder(it, s, T)
<1> DEFINE bad == {T \in SUBSET (1 .. Len(s)) : ~AnyOrder(it, s, T)}
<1> USE DEF AnyOrder
<1>1. Len(s) \in Nat /\ DOMAIN s = 1 .. Len(s)
  OBVIOUS
<1> SUFFICES ASSUME bad # {}
             PROVE  FALSE
  BY <1>1
<1>2. PICK T \in bad : \A U \in bad : ~(Cardinality(U) < Cardinality(T))
  <2>1. bad \in SUBSET (SUBSET (1 .. Len(s)))
    OBVIOUS
  <2> HIDE DEF bad
  <2> QED BY <1>1, <2>1, SmallestSet
<1>3. T \in SUBSET (DOMAIN s) /\ ~AnyOrder(it, s, T)
  OBVIOUS
<1>4. \A U \in SUBSET (DOMAIN s) :
        Cardinality(U) \in Nat /\ \A x \in U : Cardinality(U \ {x}) = Cardinality(U) - 1
  BY <1>1, PositionsCount
<1>5. \A x \in DOMAIN s : pool[s[x]] \in Nat
  BY DEF PoolFiles
<1>6. \A y \in T : AnyOrder(it, s, T \ {y})
  <2> TAKE y \in T
  <2>1. Cardinality(T \ {y}) < Cardinality(T)
    BY <1>3, <1>4
  <2>2. T \ {y} \in SUBSET (1 .. Len(s))
    OBVIOUS
  <2> QED BY <1>2, <2>1, <2>2
<1>7. it[T] = IF T = {} THEN 0 ELSE LET x == CHOOSE x \in T : TRUE IN pool[s[x]] + it[T \ {x}]
  <2>1. \A U \in SUBSET (DOMAIN s) :
          it[U] = IF U = {} THEN 0 ELSE LET x == CHOOSE x \in U : TRUE IN pool[s[x]] + it[U \ {x}]
    BY Zenon DEF Adds
  <2> QED BY <1>3, <2>1, Zenon
<1>8. CASE T = {}
  BY <1>3, <1>7, <1>8
<1>9. CASE T # {}
  <2>1. PICK x \in T : it[T] = pool[s[x]] + it[T \ {x}]
    BY <1>7, <1>9
  <2>2. it[T] \in Nat
    <3>1. it[T \ {x}] \in Nat /\ pool[s[x]] \in Nat
      BY <1>3, <1>5, <1>6
    <3> HIDE DEF bad
    <3> QED BY <2>1, <3>1
  <2>3. ASSUME NEW y \in T
        PROVE  it[T] = pool[s[y]] + it[T \ {y}]
    <3>1. CASE y = x
      BY <2>1, <3>1
    <3>2. CASE y # x
      <4>1. it[T \ {x}] = pool[s[y]] + it[(T \ {x}) \ {y}]
        BY <1>6, <3>2
      <4>2. it[T \ {y}] = pool[s[x]] + it[(T \ {y}) \ {x}]
        BY <1>6, <3>2
      <4>3. (T \ {x}) \ {y} = (T \ {y}) \ {x}
        OBVIOUS
      <4>4. PICK r \in Nat : r = it[(T \ {y}) \ {x}]
        <5>1. (T \ {y}) \ {x} \in SUBSET (1 .. Len(s))
          OBVIOUS
        <5>2. T \ {y} \in SUBSET (DOMAIN s) /\ x \in T \ {y}
          BY <1>3, <3>2
        <5>3. Cardinality((T \ {y}) \ {x}) < Cardinality(T)
          <6>1. Cardinality((T \ {y}) \ {x}) = Cardinality(T \ {y}) - 1
            BY <1>4, <5>2
          <6>2. Cardinality(T \ {y}) = Cardinality(T) - 1 /\ Cardinality(T) \in Nat
            BY <1>3, <1>4
          <6> QED BY <6>1, <6>2
        <5>4. AnyOrder(it, s, (T \ {y}) \ {x})
          BY <1>2, <5>1, <5>3
        <5> QED BY <5>4
      <4>5. PICK a \in Nat, b \in Nat : a = pool[s[x]] /\ b = pool[s[y]]
        BY <1>3, <1>5
      <4>6. it[T] = a + (b + r) /\ it[T \ {y}] = a + r
        BY <2>1, <4>1, <4>2, <4>3, <4>4, <4>5
      <4>7. a + (b + r) = b + (a + r)
        OBVIOUS
      <4> QED BY <4>5, <4>6, <4>7
    <3> QED BY <3>1, <3>2
  <2> QED BY <1>3, <2>2, <2>3
<1> QED BY <1>8, <1>9

\* What the files of a sequence weigh, by any solution.
LEMMA WeightIs ==
  ASSUME NEW s \in Seq(PoolFiles), pool \in Seq(Nat \ {0})
  PROVE  \E it : Adds(it, s) /\ Weight(s) = it[DOMAIN s] /\ Weight(s) \in Nat
<1> DEFINE It == CHOOSE it : Adds(it, s)
<1>1. Adds(It, s)
  BY SumsExist
<1>2. Weight(s) = It[DOMAIN s]
  BY DEF It, Adds, Weight, FoldSeq, FoldFunction, FoldFunctionOnSet, MapThenFoldSet
<1> HIDE DEF It
<1>3. It[DOMAIN s] \in Nat
  <2>1. DOMAIN s \in SUBSET (DOMAIN s)
    OBVIOUS
  <2> QED BY <1>1, <2>1, SumInAnyOrder DEF AnyOrder
<1> QED BY <1>1, <1>2, <1>3

\* One file more weighs what it does more.
LEMMA WeightOfOneMore ==
  ASSUME NEW s \in Seq(PoolFiles), NEW f \in PoolFiles, pool \in Seq(Nat \ {0})
  PROVE  Weight(s) \in Nat /\ Weight(Append(s, f)) = Weight(s) + pool[f]
<1> DEFINE w == Append(s, f)
           n == Len(s)
<1>1. /\ w \in Seq(PoolFiles) /\ n \in Nat /\ DOMAIN s = 1 .. n /\ DOMAIN w = 1 .. n + 1
      /\ w[n + 1] = f /\ \A x \in 1 .. n : w[x] = s[x]
  OBVIOUS
<1> HIDE DEF w
<1>2. PICK is : Adds(is, s) /\ Weight(s) = is[1 .. n] /\ Weight(s) \in Nat
  BY <1>1, WeightIs
<1>3. PICK iw : Adds(iw, w) /\ Weight(w) = iw[1 .. n + 1] /\ Weight(w) \in Nat
  BY <1>1, WeightIs
<1>4. \A T \in SUBSET (DOMAIN s) : AnyOrder(is, s, T)
  BY <1>2, SumInAnyOrder
<1>5. \A T \in SUBSET (DOMAIN w) : AnyOrder(iw, w, T)
  <2>1. w \in Seq(PoolFiles)
    BY <1>1
  <2>2. Adds(iw, w)
    BY <1>3
  <2> QED BY <2>1, <2>2, SumInAnyOrder
<1>6. is[{}] = 0 /\ iw[{}] = 0
  BY <1>2, <1>3 DEF Adds
<1> DEFINE bad == {T \in SUBSET (1 .. n) : is[T] # iw[T]}
<1>7. bad = {}
  <2> SUFFICES ASSUME bad # {}
               PROVE  FALSE
    OBVIOUS
  <2>1. PICK T \in bad : \A U \in bad : ~(Cardinality(U) < Cardinality(T))
    <3>1. bad \in SUBSET (SUBSET (1 .. n))
      OBVIOUS
    <3> HIDE DEF bad
    <3> QED BY <1>1, <3>1, SmallestSet
  <2>2. PICK y : y \in T
    BY <1>6
  <2>3. T \ {y} \notin bad
    <3>1. Cardinality(T) \in Nat /\ Cardinality(T \ {y}) = Cardinality(T) - 1
      BY <1>1, <2>2, PositionsCount
    <3>2. Cardinality(T \ {y}) < Cardinality(T)
      BY <3>1
    <3> QED BY <2>1, <3>2
  <2>4. is[T \ {y}] = iw[T \ {y}]
    BY <2>3
  <2>5. is[T] = pool[s[y]] + is[T \ {y}]
    BY <1>1, <1>4, <2>2 DEF AnyOrder
  <2>6. iw[T] = pool[w[y]] + iw[T \ {y}]
    <3>1. T \in SUBSET (DOMAIN w)
      BY <1>1
    <3> QED BY <1>5, <2>2, <3>1 DEF AnyOrder
  <2>7. w[y] = s[y]
    BY <1>1, <2>2
  <2> QED BY <2>4, <2>5, <2>6, <2>7
<1>8. is[1 .. n] = iw[1 .. n]
  BY <1>7
<1>9. (1 .. n + 1) \ {n + 1} = 1 .. n /\ n + 1 \in 1 .. n + 1
  BY <1>1
<1>10. iw[1 .. n + 1] = pool[f] + iw[1 .. n]
  BY <1>1, <1>5, <1>9 DEF AnyOrder
<1>11. pool[f] \in Nat
  BY DEF PoolFiles
<1>12. Weight(w) = Weight(s) + pool[f]
  BY <1>2, <1>3, <1>8, <1>10, <1>11
<1> QED BY <1>2, <1>12 DEF w

-----------------------------------------------------------------------------
(* Chunks                                                                  *)

ChunkServes(c) ==
  /\ c \in Seq(PoolFiles) /\ c # <<>> /\ Len(c) <= limit /\ Weight(c) <= Budget /\ Ascending(c)

\* The files in the chunks q.
InChunks(q) == UNION {ToSet(q[i]) : i \in 1 .. Len(q)}

\* Chunks that could be sent one after the other, none of which could take the next file.
InTurn(q) ==
  /\ q \in Seq(Seq(PoolFiles))
  /\ \A i \in 1 .. Len(q) : ChunkServes(q[i])
  /\ \A i, j \in 1 .. Len(q) : i < j => \A f \in ToSet(q[i]), g \in ToSet(q[j]) : f < g
  /\ \A i \in 1 .. Len(q) - 1 : NoRoom(q[i], q[i + 1][1])

\* A chunk that could be the next after those of q.
Follows(c, q) ==
  /\ ChunkServes(c) /\ \A f \in InChunks(q), g \in ToSet(c) : f < g
  /\ q # <<>> => NoRoom(q[Len(q)], c[1])

\* What is right of the chunks q and the oversized files big once n files have been seen.
Keeps(q, big, n) ==
  /\ InTurn(q) /\ big \in Seq(PoolFiles)
  /\ InChunks(q) = {f \in 1 .. n : Fits(f)}
  /\ ToSet(big) = {f \in 1 .. n : ~Fits(f)} /\ Ascending(big)

\* The files of a sequence with one more.
LEMMA FilesOfOneMore ==
  ASSUME NEW T, NEW s \in Seq(T), NEW f \in T
  PROVE  ToSet(Append(s, f)) = ToSet(s) \cup {f}
<1>1. /\ Len(s) \in Nat /\ DOMAIN s = 1 .. Len(s) /\ DOMAIN Append(s, f) = 1 .. Len(s) + 1
      /\ Append(s, f)[Len(s) + 1] = f /\ \A k \in 1 .. Len(s) : Append(s, f)[k] = s[k]
  OBVIOUS
<1> DEFINE w == Append(s, f)
<1> HIDE DEF w
<1>2. DOMAIN w = 1 .. Len(s) + 1 /\ w[Len(s) + 1] = f /\ \A k \in 1 .. Len(s) : w[k] = s[k]
  BY <1>1 DEF w
<1>3. ToSet(w) \subseteq ToSet(s) \cup {f}
  <2> SUFFICES ASSUME NEW k \in DOMAIN w
               PROVE  w[k] \in ToSet(s) \cup {f}
    BY DEF ToSet
  <2>1. k = Len(s) + 1 \/ k \in 1 .. Len(s)
    BY <1>1, <1>2
  <2> QED BY <1>1, <1>2, <2>1 DEF ToSet
<1>4. ToSet(s) \subseteq ToSet(w)
  <2> SUFFICES ASSUME NEW k \in DOMAIN s
               PROVE  s[k] \in ToSet(w)
    BY DEF ToSet
  <2>1. k \in DOMAIN w /\ w[k] = s[k]
    BY <1>1, <1>2
  <2> QED BY <2>1 DEF ToSet
<1>5. f \in ToSet(w)
  <2>1. Len(s) + 1 \in DOMAIN w
    BY <1>1, <1>2
  <2> QED BY <1>2, <2>1 DEF ToSet
<1> QED BY <1>3, <1>4, <1>5 DEF w

\* The files of chunks with one more.
LEMMA InChunksOneMore ==
  ASSUME NEW T, NEW q \in Seq(T), NEW c \in T
  PROVE  InChunks(Append(q, c)) = InChunks(q) \cup ToSet(c)
<1> DEFINE r == Append(q, c)
           m == Len(q)
<1>1. /\ m \in Nat /\ Len(r) = m + 1 /\ r[m + 1] = c /\ \A i \in 1 .. m : r[i] = q[i]
  OBVIOUS
<1> HIDE DEF r
<1>2. 1 .. Len(r) = (1 .. m) \cup {m + 1}
  BY <1>1
<1> HIDE DEF m
<1>3. \A f : f \in InChunks(r) <=> \E i \in 1 .. Len(r) : f \in ToSet(r[i])
  BY DEF InChunks
<1>4. \A f : f \in InChunks(q) <=> \E i \in 1 .. m : f \in ToSet(q[i])
  BY DEF InChunks, m
<1>5. \A f : f \in InChunks(r) <=> f \in InChunks(q) \/ f \in ToSet(c)
  BY <1>1, <1>2, <1>3, <1>4
<1> QED BY <1>5 DEF r

\* It stays in order, if the one comes after them.
LEMMA AscendingOneMore ==
  ASSUME NEW s \in Seq(Nat), NEW f \in Nat, Ascending(s), \A g \in ToSet(s) : g < f
  PROVE  Ascending(Append(s, f))
<1> DEFINE w == Append(s, f)
<1>1. /\ Len(s) \in Nat /\ DOMAIN s = 1 .. Len(s) /\ DOMAIN w = 1 .. Len(s) + 1
      /\ w[Len(s) + 1] = f /\ \A k \in 1 .. Len(s) : w[k] = s[k]
  OBVIOUS
<1> HIDE DEF w
<1>2. \A k \in 1 .. Len(s) : s[k] < f
  BY <1>1 DEF ToSet
<1>3. ASSUME NEW k \in DOMAIN w, NEW l \in DOMAIN w, k < l
      PROVE  w[k] < w[l]
  <2>1. k \in 1 .. Len(s)
    BY <1>1, <1>3
  <2>2. CASE l = Len(s) + 1
    BY <1>1, <1>2, <2>1, <2>2
  <2>3. CASE l \in 1 .. Len(s)
    BY <1>1, <1>3, <2>1, <2>3 DEF Ascending
  <2> QED BY <1>1, <2>2, <2>3
<1> QED BY <1>3 DEF Ascending, w

\* A file too large for any message.
LEMMA KeepsLarge ==
  ASSUME NEW q, NEW big, NEW n \in Nat, Keeps(q, big, n), n + 1 \in PoolFiles, ~Fits(n + 1)
  PROVE  Keeps(q, Append(big, n + 1), n + 1)
<1>1. /\ big \in Seq(PoolFiles) /\ ToSet(big) = {f \in 1 .. n : ~Fits(f)} /\ Ascending(big)
      /\ InChunks(q) = {f \in 1 .. n : Fits(f)}
  BY DEF Keeps
<1>2. 1 .. n + 1 = (1 .. n) \cup {n + 1}
  OBVIOUS
<1>3. Append(big, n + 1) \in Seq(PoolFiles)
  BY <1>1
<1>4. ToSet(Append(big, n + 1)) = {f \in 1 .. n + 1 : ~Fits(f)}
  <2>1. ToSet(Append(big, n + 1)) = ToSet(big) \cup {n + 1}
    BY <1>1, FilesOfOneMore
  <2> QED BY <1>1, <1>2, <2>1
<1>5. Ascending(Append(big, n + 1))
  <2>1. big \in Seq(Nat)
    BY <1>1 DEF PoolFiles
  <2>2. \A g \in ToSet(big) : g < n + 1
    BY <1>1
  <2> QED BY <1>1, <2>1, <2>2, AscendingOneMore
<1>6. InChunks(q) = {f \in 1 .. n + 1 : Fits(f)}
  BY <1>1, <1>2
<1> QED BY <1>3, <1>4, <1>5, <1>6 DEF Keeps

\* A chunk more.
LEMMA OneMoreInTurn ==
  ASSUME NEW q, InTurn(q), NEW c, Follows(c, q)
  PROVE  InTurn(Append(q, c))
<1> DEFINE r == Append(q, c)
           m == Len(q)
<1>1. /\ r \in Seq(Seq(PoolFiles)) /\ m \in Nat /\ Len(r) = m + 1
      /\ r[m + 1] = c /\ \A i \in 1 .. m : r[i] = q[i]
  BY DEF InTurn, Follows, ChunkServes
<1> HIDE DEF r
<1>2. \A i \in 1 .. m + 1 : i = m + 1 \/ i \in 1 .. m
  BY <1>1
<1>3. \A i \in 1 .. Len(r) : ChunkServes(r[i])
  BY <1>1, <1>2 DEF InTurn, Follows
<1>4. ASSUME NEW i \in 1 .. Len(r), NEW j \in 1 .. Len(r), i < j,
             NEW f \in ToSet(r[i]), NEW g \in ToSet(r[j])
      PROVE  f < g
  <2>1. i \in 1 .. m /\ r[i] = q[i]
    BY <1>1, <1>4
  <2>2. CASE j = m + 1
    <3>1. f \in InChunks(q) /\ g \in ToSet(c)
      BY <1>1, <1>4, <2>1, <2>2 DEF InChunks
    <3> QED BY <3>1 DEF Follows
  <2>3. CASE j \in 1 .. m
    <3>1. r[j] = q[j]
      BY <1>1, <2>3
    <3> QED BY <1>4, <2>1, <2>3, <3>1 DEF InTurn
  <2> QED BY <1>1, <1>2, <2>2, <2>3
<1>5. ASSUME NEW i \in 1 .. Len(r) - 1
      PROVE  NoRoom(r[i], r[i + 1][1])
  <2>1. i \in 1 .. m /\ r[i] = q[i]
    BY <1>1
  <2>2. CASE i = m
    <3>1. q # <<>>
      BY <2>1, <2>2
    <3> QED BY <1>1, <2>1, <2>2, <3>1 DEF Follows
  <2>3. CASE i # m
    <3>1. i + 1 \in 1 .. m /\ i \in 1 .. m - 1
      BY <1>1, <2>1, <2>3
    <3>2. r[i + 1] = q[i + 1]
      BY <1>1, <3>1
    <3> QED BY <2>1, <3>1, <3>2 DEF InTurn
  <2> QED BY <2>2, <2>3
<1> QED BY <1>1, <1>3, <1>4, <1>5 DEF InTurn, r

\* A chunk less.
LEMMA OneLessInTurn ==
  ASSUME NEW q \in Seq(Seq(PoolFiles)), NEW c \in Seq(PoolFiles), InTurn(Append(q, c))
  PROVE  InTurn(q) /\ Follows(c, q)
<1> DEFINE r == Append(q, c)
           m == Len(q)
<1>1. /\ m \in Nat /\ Len(r) = m + 1 /\ r[m + 1] = c /\ \A i \in 1 .. m : r[i] = q[i]
  OBVIOUS
<1>2. InTurn(r)
  OBVIOUS
<1> HIDE DEF r
<1>3. ChunkServes(c) /\ m + 1 \in 1 .. Len(r) /\ \A i \in 1 .. m : i \in 1 .. Len(r) /\ i < m + 1
  BY <1>1, <1>2 DEF InTurn
<1>4. \A i \in 1 .. m : ChunkServes(q[i])
  BY <1>1, <1>2, <1>3 DEF InTurn
<1>5. \A i, j \in 1 .. m : i < j => \A f \in ToSet(q[i]), g \in ToSet(q[j]) : f < g
  BY <1>1, <1>2, <1>3 DEF InTurn
<1>6. \A i \in 1 .. m - 1 : NoRoom(q[i], q[i + 1][1])
  <2> TAKE i \in 1 .. m - 1
  <2>1. i \in 1 .. Len(r) - 1 /\ i \in 1 .. m /\ i + 1 \in 1 .. m
    BY <1>1
  <2>2. NoRoom(r[i], r[i + 1][1])
    BY <1>2, <2>1 DEF InTurn
  <2> QED BY <1>1, <2>1, <2>2
<1>7. q # <<>> => NoRoom(q[m], c[1])
  <2> SUFFICES ASSUME q # <<>>
               PROVE  NoRoom(q[m], c[1])
    OBVIOUS
  <2>1. m \in 1 .. Len(r) - 1 /\ r[m] = q[m] /\ r[m + 1] = c
    BY <1>1
  <2>2. NoRoom(r[m], r[m + 1][1])
    BY <1>2, <2>1 DEF InTurn
  <2> QED BY <2>1, <2>2
<1>8. ASSUME NEW f \in InChunks(q), NEW g \in ToSet(c)
      PROVE  f < g
  <2>1. PICK i \in 1 .. m : f \in ToSet(q[i])
    BY DEF InChunks
  <2>2. r[i] = q[i] /\ r[m + 1] = c
    BY <1>1
  <2> QED BY <1>2, <1>3, <2>1, <2>2 DEF InTurn
<1> QED BY <1>3, <1>4, <1>5, <1>6, <1>7, <1>8 DEF InTurn, Follows

\* A file that starts a chunk.
LEMMA KeepsFirst ==
  ASSUME NEW q, NEW big, NEW n \in Nat, Keeps(q, big, n), n + 1 \in PoolFiles, Fits(n + 1),
         pool \in Seq(Nat \ {0}), limit \in Nat \ {0},
         q # <<>> => NoRoom(q[Len(q)], n + 1)
  PROVE  Keeps(Append(q, <<n + 1>>), big, n + 1)
<1> DEFINE c == <<n + 1>>
<1>1. /\ InTurn(q) /\ q \in Seq(Seq(PoolFiles)) /\ InChunks(q) = {f \in 1 .. n : Fits(f)}
      /\ big \in Seq(PoolFiles) /\ ToSet(big) = {f \in 1 .. n : ~Fits(f)} /\ Ascending(big)
  BY DEF Keeps, InTurn
<1>2. 1 .. n + 1 = (1 .. n) \cup {n + 1}
  OBVIOUS
<1>3. c \in Seq(PoolFiles) /\ c # <<>> /\ Len(c) = 1 /\ c[1] = n + 1 /\ DOMAIN c = {1}
  OBVIOUS
<1>4. ToSet(c) = {n + 1}
  BY <1>3 DEF ToSet
<1>5. ChunkServes(c)
  <2>1. Weight(c) = pool[n + 1]
    BY BytesOfOne
  <2>2. Ascending(c)
    BY <1>3 DEF Ascending
  <2> QED BY <1>3, <2>1, <2>2 DEF ChunkServes, Fits
<1> HIDE DEF c
<1>6. Follows(c, q)
  BY <1>1, <1>3, <1>4, <1>5 DEF Follows
<1>7. InTurn(Append(q, c))
  BY <1>1, <1>6, OneMoreInTurn
<1>8. InChunks(Append(q, c)) = {f \in 1 .. n + 1 : Fits(f)}
  <2>1. InChunks(Append(q, c)) = InChunks(q) \cup ToSet(c)
    BY <1>1, <1>3, InChunksOneMore
  <2> QED BY <1>1, <1>2, <1>4, <2>1
<1>9. ToSet(big) = {f \in 1 .. n + 1 : ~Fits(f)}
  BY <1>1, <1>2
<1> QED BY <1>1, <1>7, <1>8, <1>9 DEF Keeps, c

\* A file that joins the last chunk.
LEMMA KeepsNext ==
  ASSUME NEW q \in Seq(Seq(PoolFiles)), NEW c \in Seq(PoolFiles), NEW big, NEW n \in Nat,
         Keeps(Append(q, c), big, n), n + 1 \in PoolFiles, Fits(n + 1),
         pool \in Seq(Nat \ {0}), limit \in Nat \ {0}, Budget \in Nat,
         Len(c) < limit, Weight(c) + pool[n + 1] <= Budget
  PROVE  Keeps(Append(q, Append(c, n + 1)), big, n + 1)
<1> DEFINE d == Append(c, n + 1)
<1>1. /\ InTurn(q) /\ Follows(c, q) /\ ChunkServes(c)
      /\ InChunks(q) \cup ToSet(c) = {f \in 1 .. n : Fits(f)}
      /\ big \in Seq(PoolFiles) /\ ToSet(big) = {f \in 1 .. n : ~Fits(f)} /\ Ascending(big)
  <2>1. InTurn(q) /\ Follows(c, q)
    BY OneLessInTurn DEF Keeps
  <2>2. InChunks(Append(q, c)) = InChunks(q) \cup ToSet(c)
    BY InChunksOneMore
  <2> QED BY <2>1, <2>2 DEF Keeps, Follows
<1>2. 1 .. n + 1 = (1 .. n) \cup {n + 1}
  OBVIOUS
<1>3. /\ d \in Seq(PoolFiles) /\ d # <<>> /\ Len(d) = Len(c) + 1 /\ Len(c) \in Nat /\ d[1] = c[1]
      /\ ToSet(d) = ToSet(c) \cup {n + 1}
  <2>1. c # <<>>
    BY <1>1 DEF ChunkServes
  <2>2. /\ Len(c) \in Nat \ {0} /\ d \in Seq(PoolFiles) /\ Len(d) = Len(c) + 1 /\ d[1] = c[1]
    BY <2>1
  <2>3. ToSet(d) = ToSet(c) \cup {n + 1}
    BY FilesOfOneMore
  <2> HIDE DEF d
  <2>4. d # <<>>
    BY <2>2
  <2> QED BY <2>2, <2>3, <2>4
<1>4. ChunkServes(d)
  <2>1. Weight(d) <= Budget
    BY WeightOfOneMore
  <2>2. Ascending(d)
    <3>1. c \in Seq(Nat) /\ Ascending(c) /\ \A g \in ToSet(c) : g < n + 1
      BY <1>1 DEF ChunkServes, PoolFiles
    <3> QED BY <3>1, AscendingOneMore
  <2>3. Len(d) <= limit
    BY <1>3
  <2> HIDE DEF d
  <2> QED BY <1>3, <2>1, <2>2, <2>3 DEF ChunkServes
<1> HIDE DEF d
<1>5. Follows(d, q)
  <2>1. \A f \in InChunks(q), g \in ToSet(d) : f < g
    BY <1>1, <1>3 DEF Follows
  <2> QED BY <1>1, <1>3, <1>4, <2>1 DEF Follows
<1>6. InTurn(Append(q, d))
  BY <1>1, <1>5, OneMoreInTurn
<1>7. InChunks(Append(q, d)) = {f \in 1 .. n + 1 : Fits(f)}
  <2>1. InChunks(Append(q, d)) = InChunks(q) \cup ToSet(d)
    BY <1>3, InChunksOneMore
  <2> QED BY <1>1, <1>2, <1>3, <2>1
<1>8. ToSet(big) = {f \in 1 .. n + 1 : ~Fits(f)}
  BY <1>1, <1>2
<1> QED BY <1>1, <1>6, <1>7, <1>8 DEF Keeps, d

\* The chunks chunkOrdered would return now, and the files it has looked at.
Filled == IF step = "pack" /\ selected # <<>> THEN Append(chunks, selected) ELSE chunks
Seen   == Len(pool) - Len(waiting)

PackInv ==
  /\ pool \in Seq(Nat \ {0}) /\ limit \in Nat \ {0}
  /\ step \in {"pack", "packed"} =>
       /\ waiting \in Seq(PoolFiles) /\ Len(waiting) <= Len(pool)
       /\ \A k \in 1 .. Len(waiting) : waiting[k] = Seen + k
       /\ selected \in Seq(PoolFiles) /\ chunks \in Seq(Seq(PoolFiles))
       /\ Keeps(Filled, oversized, Seen)
  /\ step = "pack" /\ selected = <<>> => chunks = <<>>
  /\ step = "packed" => waiting = <<>>

\* What files weigh, and what is right of chunks, once a step has left the pool and the
\* limit alone.
LEMMA WeightThen ==
  ASSUME UNCHANGED pool, NEW s
  PROVE  Weight(s)' = Weight(s)
BY DEF Weight, FoldSeq, FoldFunction, FoldFunctionOnSet, MapThenFoldSet

LEMMA KeepsThen ==
  ASSUME UNCHANGED <<pool, limit>>, NEW q, NEW big, NEW n, Keeps(q, big, n)
  PROVE  Keeps(q, big, n)'
<1>1. \A s : Weight(s)' = Weight(s)
  BY WeightThen
<1>2. PoolFiles' = PoolFiles /\ \A f : Fits(f)' <=> Fits(f)
  BY DEF PoolFiles, Fits
<1>3. \A c : ChunkServes(c)' <=> ChunkServes(c)
  BY <1>1, <1>2 DEF ChunkServes
<1>4. \A c, f : NoRoom(c, f)' <=> NoRoom(c, f)
  BY <1>1 DEF NoRoom
<1> QED BY <1>2, <1>3, <1>4 DEF Keeps, InTurn

\* What chunkOrdered keeps right of its state, once q, big and w are it.
LEMMA PackThen ==
  ASSUME PackInv, UNCHANGED <<pool, limit>>,
         NEW w \in Seq(PoolFiles), waiting' = w, Len(w) <= Len(pool),
         \A k \in 1 .. Len(w) : w[k] = Len(pool) - Len(w) + k,
         NEW s \in Seq(PoolFiles), selected' = s,
         NEW q \in Seq(Seq(PoolFiles)), chunks' = q,
         NEW p \in {"pack", "packed"}, step' = p,
         p = "pack" /\ s = <<>> => q = <<>>, p = "packed" => w = <<>>,
         Keeps(IF p = "pack" /\ s # <<>> THEN Append(q, s) ELSE q, oversized', Len(pool) - Len(w))
  PROVE  PackInv'
<1> DEFINE all == IF p = "pack" /\ s # <<>> THEN Append(q, s) ELSE q
<1>1. PICK big : big = oversized'
  OBVIOUS
<1>2. Keeps(all, big, Len(pool) - Len(w))'
  <2>1. PICK n : n = Len(pool) - Len(w)
    OBVIOUS
  <2>2. Keeps(all, big, n)
    BY <1>1, <2>1
  <2> HIDE DEF all
  <2>3. Keeps(all, big, n)'
    BY <2>2, KeepsThen
  <2> QED BY <2>1, <2>3
<1>3. Filled' = all /\ Seen' = Len(pool) - Len(w)
  BY DEF Filled, Seen
<1>4. Keeps(Filled, oversized, Seen)'
  <2> HIDE DEF all
  <2> QED BY <1>1, <1>2, <1>3
<1>5. PoolFiles' = PoolFiles
  BY DEF PoolFiles
<1> HIDE DEF all
<1> QED BY <1>3, <1>4, <1>5 DEF PackInv

\* One file is packed.
LEMMA PackKeeps ==
  ASSUME PackingAssumption, PackInv, Pack
  PROVE  PackInv'
<1>1. /\ pool \in Seq(Nat \ {0}) /\ limit \in Nat \ {0} /\ Budget \in Nat /\ step = "pack"
      /\ waiting # <<>> /\ waiting' = Tail(waiting) /\ UNCHANGED <<pool, limit>> /\ step' = "pack"
      /\ waiting \in Seq(PoolFiles) /\ Len(waiting) <= Len(pool)
      /\ \A k \in 1 .. Len(waiting) : waiting[k] = Seen + k
      /\ selected \in Seq(PoolFiles) /\ chunks \in Seq(Seq(PoolFiles))
      /\ Keeps(Filled, oversized, Seen) /\ (selected = <<>> => chunks = <<>>)
  BY DEF Pack, PackInv, PackingAssumption
<1>2. PICK n \in Nat : n = Seen /\ n = Len(pool) - Len(waiting)
  <2>1. Len(pool) \in Nat /\ Len(waiting) \in Nat
    BY <1>1
  <2>2. Len(pool) - Len(waiting) \in Nat
    BY <1>1, <2>1
  <2> QED BY <2>2 DEF Seen
<1>3. PICK w \in Seq(PoolFiles) :
        /\ w = Tail(waiting) /\ Len(w) = Len(waiting) - 1
        /\ \A k \in 1 .. Len(w) : w[k] = waiting[k + 1]
  <2>1. /\ Tail(waiting) \in Seq(PoolFiles) /\ Len(Tail(waiting)) = Len(waiting) - 1
        /\ \A k \in 1 .. Len(Tail(waiting)) : Tail(waiting)[k] = waiting[k + 1]
    BY <1>1
  <2> QED BY <2>1
<1>4. Head(waiting) = n + 1 /\ n + 1 \in PoolFiles
  BY <1>1, <1>2
<1>5. /\ Len(w) <= Len(pool) /\ Len(pool) - Len(w) = n + 1
      /\ \A k \in 1 .. Len(w) : w[k] = n + 1 + k
  <2>1. /\ Len(w) \in Nat /\ Len(waiting) = Len(w) + 1 /\ Len(pool) \in Nat
    BY <1>1, <1>3
  <2>2. ASSUME NEW k \in 1 .. Len(w)
        PROVE  w[k] = n + 1 + k
    <3>1. k + 1 \in 1 .. Len(waiting)
      BY <2>1
    <3>2. waiting[k + 1] = n + (k + 1)
      BY <1>1, <1>2, <3>1
    <3> QED BY <1>3, <3>2
  <2> QED BY <1>1, <1>2, <2>1, <2>2
<1> DEFINE f == n + 1
<1>6. CASE ~Fits(f)
  <2>1. oversized' = Append(oversized, f) /\ UNCHANGED <<selected, chunks>>
    BY <1>4, <1>6 DEF Pack
  <2>2. Keeps(Filled, Append(oversized, f), n + 1)
    BY <1>1, <1>2, <1>4, <1>6, KeepsLarge
  <2>3. Keeps(IF selected # <<>> THEN Append(chunks, selected) ELSE chunks,
              Append(oversized, f), n + 1)
    BY <1>1, <2>2 DEF Filled
  <2>4. PICK q \in Seq(Seq(PoolFiles)) : q = chunks
    BY <1>1
  <2>5. Keeps(IF "pack" = "pack" /\ selected # <<>> THEN Append(q, selected) ELSE q,
              oversized', Len(pool) - Len(w))
    BY <1>5, <2>1, <2>3, <2>4
  <2>6. waiting' = w /\ chunks' = q /\ selected' = selected /\ (selected = <<>> => q = <<>>)
    BY <1>1, <1>3, <2>1, <2>4
  <2>7. /\ selected \in Seq(PoolFiles) /\ UNCHANGED <<pool, limit>> /\ step' = "pack"
        /\ Len(w) <= Len(pool) /\ \A k \in 1 .. Len(w) : w[k] = Len(pool) - Len(w) + k
    BY <1>1, <1>5
  <2> QED BY <2>5, <2>6, <2>7, PackThen
<1>7. CASE Fits(f) /\ Full(f)
  <2>1. chunks' = Append(chunks, selected) /\ selected' = <<f>> /\ UNCHANGED oversized
    BY <1>4, <1>7 DEF Pack
  <2>2. PICK q \in Seq(Seq(PoolFiles)) : q = Append(chunks, selected)
    <3>1. Append(chunks, selected) \in Seq(Seq(PoolFiles))
      BY <1>1
    <3> QED BY <3>1
  <2>3. /\ Filled = q /\ Len(q) = Len(chunks) + 1 /\ q[Len(q)] = selected
        /\ InTurn(q) /\ selected # <<>> /\ Len(q) \in Nat \ {0}
    BY <1>1, <1>7, <2>2 DEF Filled, Full, Keeps
  <2>4. NoRoom(selected, f)
    <3>1. Weight(Append(selected, f)) = Weight(selected) + pool[f]
      BY <1>1, <1>4, WeightOfOneMore
    <3>2. Len(selected) <= limit
      <4>1. ChunkServes(selected)
        BY <2>3 DEF InTurn
      <4> QED BY <4>1 DEF ChunkServes
    <3> QED BY <1>1, <1>7, <3>1, <3>2 DEF NoRoom, Full
  <2>5. Keeps(Append(q, <<f>>), oversized, n + 1)
    <3>1. Keeps(q, oversized, n)
      BY <1>1, <1>2, <2>3
    <3> QED BY <1>1, <1>4, <1>7, <2>3, <2>4, <3>1, KeepsFirst
  <2>6. <<f>> \in Seq(PoolFiles) /\ <<f>> # <<>>
    BY <1>4
  <2> QED BY <1>1, <1>3, <1>5, <2>1, <2>2, <2>5, <2>6, PackThen
<1>8. CASE Fits(f) /\ ~Full(f)
  <2>1. selected' = Append(selected, f) /\ UNCHANGED <<chunks, oversized>>
    BY <1>4, <1>8 DEF Pack
  <2>2. PICK s \in Seq(PoolFiles) : s = Append(selected, f) /\ s # <<>>
    <3>1. Append(selected, f) \in Seq(PoolFiles) /\ Len(Append(selected, f)) = Len(selected) + 1
      BY <1>1, <1>4
    <3>2. Append(selected, f) # <<>>
      <4>1. Len(selected) + 1 # 0
        BY <1>1
      <4> QED BY <3>1, <4>1
    <3> QED BY <3>1, <3>2
  <2>3. Keeps(Append(chunks, s), oversized, n + 1)
    <3>1. CASE selected = <<>>
      <4>1. chunks = <<>> /\ Filled = chunks /\ s = <<f>>
        BY <1>1, <2>2, <3>1 DEF Filled
      <4>2. Keeps(chunks, oversized, n)
        BY <1>1, <1>2, <4>1
      <4>3. Keeps(Append(chunks, <<f>>), oversized, n + 1)
        BY <1>1, <1>4, <1>8, <4>1, <4>2, KeepsFirst
      <4> QED BY <4>1, <4>3
    <3>2. CASE selected # <<>>
      <4>1. Keeps(Append(chunks, selected), oversized, n)
        BY <1>1, <1>2, <3>2 DEF Filled
      <4>2. Len(selected) < limit /\ Weight(selected) + pool[f] <= Budget
        <5>1. Weight(selected) \in Nat
          BY <1>1, <1>4, WeightOfOneMore
        <5>2. pool[f] \in Nat
          BY <1>1, <1>4 DEF PoolFiles
        <5> QED BY <1>1, <1>8, <3>2, <5>1, <5>2 DEF Full
      <4> QED BY <1>1, <1>4, <1>8, <2>2, <4>1, <4>2, KeepsNext
    <3> QED BY <3>1, <3>2
  <2> QED BY <1>1, <1>3, <1>5, <2>1, <2>2, <2>3, PackThen
<1> QED BY <1>6, <1>7, <1>8

\* Every step of chunkOrdered, and any of fitToLimit, which is no business of its.
LEMMA PackInvStep ==
  ASSUME PackingAssumption, PackInv, [PackingNext]_packing
  PROVE  PackInv'
<1>1. CASE UNCHANGED packing
  <2>1. UNCHANGED <<pool, limit, step, waiting, selected, chunks, oversized>>
    BY <1>1 DEF packing
  <2>2. CASE step \in {"pack", "packed"}
    <3>1. PICK w \in Seq(PoolFiles) : w = waiting
      BY <2>2 DEF PackInv
    <3>2. PICK s \in Seq(PoolFiles) : s = selected
      BY <2>2 DEF PackInv
    <3>3. PICK q \in Seq(Seq(PoolFiles)) : q = chunks
      BY <2>2 DEF PackInv
    <3>4. PICK p \in {"pack", "packed"} : p = step
      BY <2>2
    <3> QED BY <2>1, <3>1, <3>2, <3>3, <3>4, PackThen DEF PackInv, Filled, Seen
  <2> QED BY <2>1, <2>2 DEF PackInv
<1>2. CASE Shuffle \/ Evict \/ Sampled
  <2>1. step' \in {"sample", "sampled"} /\ UNCHANGED <<pool, limit>>
    BY <1>2 DEF Shuffle, Evict, Sampled
  <2> QED BY <2>1 DEF PackInv
<1>3. CASE Packed
  <2>1. /\ step = "pack" /\ waiting = <<>> /\ step' = "packed"
        /\ UNCHANGED <<pool, limit, waiting, selected, oversized>>
        /\ chunks' = IF selected = <<>> THEN chunks ELSE Append(chunks, selected)
        /\ waiting \in Seq(PoolFiles) /\ selected \in Seq(PoolFiles)
        /\ chunks \in Seq(Seq(PoolFiles)) /\ Keeps(Filled, oversized, Seen)
        /\ pool \in Seq(Nat \ {0})
    BY <1>3 DEF Packed, PackInv
  <2>2. PICK q \in Seq(Seq(PoolFiles)) : q = Filled /\ chunks' = q
    <3>1. Append(chunks, selected) \in Seq(Seq(PoolFiles))
      BY <2>1
    <3>2. Filled = IF selected = <<>> THEN chunks ELSE Append(chunks, selected)
      BY <2>1 DEF Filled
    <3> QED BY <2>1, <3>1, <3>2
  <2>3. Keeps(q, oversized, Len(pool) - Len(waiting))
    BY <2>1, <2>2 DEF Seen
  <2>4. \A k \in 1 .. Len(waiting) : waiting[k] = Len(pool) - Len(waiting) + k
    BY <2>1
  <2>5. Len(waiting) <= Len(pool)
    BY <2>1
  <2> QED BY <2>1, <2>2, <2>3, <2>4, <2>5, PackThen
<1> QED BY <1>1, <1>2, <1>3, PackKeeps DEF PackingNext

(***************************************************************************)
(* Whatever an album's files weigh, and however many a message takes, the  *)
(* messages of a full album (chunkOrdered of internal/controller/discord/  *)
(* bot.go) hold every file that fits, once and in order, none over a limit *)
(* and none cut off early; the files that do not fit are those it names.   *)
(***************************************************************************)
THEOREM ChunksTileTheAlbum ==
  ASSUME PackingAssumption
  PROVE  PackingSpec => []ChunksKeepEveryFile
<1>1. PackingInit => PackInv
  <2> SUFFICES ASSUME PackingInit
               PROVE  PackInv
    OBVIOUS
  <2>1. /\ pool \in Seq(Nat \ {0}) /\ limit \in Nat \ {0} /\ Len(pool) \in Nat
        /\ step \in {"shuffle", "pack"} /\ selected = <<>> /\ chunks = <<>> /\ oversized = <<>>
        /\ waiting = [f \in PoolFiles |-> f]
    BY DEF PackingInit, PackingAssumption
  <2>2. /\ waiting \in Seq(PoolFiles) /\ Len(waiting) = Len(pool)
        /\ \A k \in 1 .. Len(waiting) : waiting[k] = k
    BY <2>1 DEF PoolFiles
  <2>3. Seen = 0 /\ Filled = <<>>
    BY <2>1, <2>2 DEF Seen, Filled
  <2>4. Keeps(<<>>, <<>>, 0)
    BY DEF Keeps, InTurn, InChunks, Ascending, ToSet
  <2> QED BY <2>1, <2>2, <2>3, <2>4 DEF PackInv
<1>2. ASSUME PackInv, [PackingNext]_packing
      PROVE  PackInv'
  BY <1>2, PackInvStep
<1>3. PackInv => ChunksKeepEveryFile
  <2> SUFFICES ASSUME PackInv, step = "packed"
               PROVE  ChunksKeepEveryFile
    BY DEF ChunksKeepEveryFile
  <2>1. /\ Filled = chunks /\ Len(waiting) = 0 /\ Len(pool) \in Nat
        /\ chunks \in Seq(Seq(PoolFiles)) /\ Keeps(chunks, oversized, Seen)
    BY DEF PackInv, Filled
  <2>2. 1 .. Seen = PoolFiles /\ DOMAIN chunks = 1 .. Len(chunks) /\ Len(chunks) \in Nat
    BY <2>1 DEF Seen, PoolFiles
  <2>3. /\ UNION {ToSet(chunks[i]) : i \in DOMAIN chunks} = {f \in PoolFiles : Fits(f)}
        /\ ToSet(oversized) = {f \in PoolFiles : ~Fits(f)} /\ Ascending(oversized)
    BY <2>1, <2>2 DEF Keeps, InChunks
  <2>4. \A i, j \in DOMAIN chunks :
          i < j => \A f \in ToSet(chunks[i]), g \in ToSet(chunks[j]) : f < g
    BY <2>1, <2>2 DEF Keeps, InTurn
  <2>5. ASSUME NEW i \in DOMAIN chunks
        PROVE  /\ chunks[i] # <<>> /\ Len(chunks[i]) <= limit /\ Weight(chunks[i]) <= Budget
               /\ Ascending(chunks[i])
               /\ i + 1 \in DOMAIN chunks => NoRoom(chunks[i], chunks[i + 1][1])
    <3>1. ChunkServes(chunks[i])
      BY <2>1, <2>2 DEF Keeps, InTurn
    <3>2. i + 1 \in DOMAIN chunks => i \in 1 .. Len(chunks) - 1
      BY <2>2
    <3> QED BY <2>1, <3>1, <3>2 DEF Keeps, InTurn, ChunkServes
  <2> QED BY <2>3, <2>4, <2>5 DEF ChunksKeepEveryFile
<1> QED BY <1>1, <1>2, <1>3, PTL DEF PackingSpec
================================================================================
