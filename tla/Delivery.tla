------------------------------- MODULE Delivery --------------------------------
(***************************************************************************)
(* Posting an album to a channel (internal/controller/discord/bot.go):     *)
(* deliverAlbum prepares the files the album's send mode calls for,        *)
(* sendWithBackoff posts them and sheds half whenever Discord finds the    *)
(* request too large, and a failure is explained in the channel at most    *)
(* once per interval.  Any number of deliveries overlap: rules, previews,  *)
(* commands and discoveries all post through these functions.              *)
(*                                                                         *)
(* Abstractions: a file is its size; what fits the configured budget is    *)
(* FilePacking's part, so a batch is any of Batches.  What Discord accepts *)
(* is another number, which the bot cannot read and which moves.  Styles,  *)
(* captions and buttons ride along and are left out.                       *)
(***************************************************************************)
EXTENDS Naturals, FiniteSets, SequencesExt

CONSTANTS Deliveries,      \* the deliveries of a run of the bot
          Channels,
          Batches,         \* sequences of file sizes within the configured budget
          Sizes,           \* sizes a single file may have
          Accepted,        \* what Discord may accept per request
          Interval,        \* sendFailureNoticeInterval
          MaxPostingTime,  \* bound: the clock
          MaxTrouble       \* bound: other errors, and moves of what Discord accepts

\* What is assumed of the constants.
ASSUME DeliveryAssumption ==
  /\ Channels # {} /\ Batches \subseteq Seq(Sizes) /\ Sizes \subseteq Nat \ {0} /\ Accepted \subseteq Nat
  /\ Interval \in Nat \ {0} /\ MaxPostingTime \in Nat /\ MaxTrouble \in Nat

VARIABLES
  delivery,    \* each one's locals
  accepts,     \* accepts[c]: the bytes Discord takes in one request to c, at present
  lastNotice,  \* b.lastNotice: when a channel was last due a notice
  notices,     \* history: notices[c], the times at which one was claimed, in order
  now, trouble

posting == <<delivery, accepts, lastNotice, notices, now, trouble>>

PCs   == {"idle", "send", "posted", "refused", "notice", "told", "quiet", "failed"}
Modes == {"random", "single", "order", "video", "custom"}

\* steady: Discord's limit has not moved and no other error came since it began.
DeliveryState ==
  [pc: PCs, channel: Channels, files: Seq(Sizes), kept: Nat, steady: BOOLEAN, at: 0 .. MaxPostingTime]

Bytes(s) == FoldSeq(+, 0, s)

-----------------------------------------------------------------------------
\* What each mode prepares: the files of one message, or the way it gives up, which
\* is to tell the channel (reportDeliveryFailure) or only the log.
ToSend(S) == {[pc |-> "send", files |-> s] : s \in S}
GivesUp(S) == {[pc |-> p, files |-> <<>>] : p \in S}
OneFile == {<<s>> : s \in Sizes}

deliverRandom == ToSend(Batches) \cup GivesUp({"told", "quiet"})
deliverSingle == ToSend(OneFile) \cup GivesUp({"told", "quiet"})       \* no look at the budget
deliverComic  == ToSend(Batches) \cup GivesUp({"quiet"})
deliverVideo  == ToSend(OneFile \cup {<<>>}) \cup GivesUp({"quiet"})   \* or a link
deliverCustom == deliverComic \cup deliverRandom                       \* Ordered, or not

Prepared(mode) ==
  CASE mode = "single" -> deliverSingle [] mode = "order"  -> deliverComic
    [] mode = "video"  -> deliverVideo  [] mode = "custom" -> deliverCustom
    [] OTHER -> deliverRandom

PostingInit ==
  /\ delivery = [d \in Deliveries |-> [pc |-> "idle", channel |-> CHOOSE c \in Channels : TRUE,
                   files |-> <<>>, kept |-> 0, steady |-> TRUE, at |-> 0]]
  /\ accepts \in [Channels -> Accepted]
  /\ lastNotice = [c \in {} |-> 0] /\ notices = [c \in Channels |-> <<>>]
  /\ now = 0 /\ trouble = 0

DeliveryBecomes(d, l) == delivery' = [delivery EXCEPT ![d] = l]

\* deliverAlbum, up to its send.
DeliverAlbum(d, c) ==
  /\ delivery[d].pc = "idle"
  /\ \E mode \in Modes : \E o \in Prepared(mode) :
       DeliveryBecomes(d, [pc |-> o.pc, channel |-> c, files |-> o.files, kept |-> Len(o.files),
                   steady |-> TRUE, at |-> 0])
  /\ UNCHANGED <<accepts, lastNotice, notices, now, trouble>>

Payload(d)    == SubSeq(delivery[d].files, 1, delivery[d].kept)
IsTooLarge(d) == Bytes(Payload(d)) > accepts[delivery[d].channel]

\* How many attachments the next attempt keeps (the faulty variant sheds one more), and
\* when there is no next attempt.
HalvedOnce(n) == (n - 1) \div 2
Halved(n)     == n \div 2
LastTry(d) == delivery[d].kept <= 1

\* sendWithBackoff, one attempt.
Attempt(d) ==
  /\ delivery[d].pc = "send"
  /\ \/ ~IsTooLarge(d) /\ DeliveryBecomes(d, [delivery[d] EXCEPT !.pc = "posted"])
     \/ /\ IsTooLarge(d) /\ ~LastTry(d)
        /\ DeliveryBecomes(d, [delivery[d] EXCEPT !.kept = Halved(@)])
     \/ /\ IsTooLarge(d) /\ LastTry(d)
        /\ DeliveryBecomes(d, [delivery[d] EXCEPT !.pc = "refused"])
  /\ UNCHANGED <<accepts, lastNotice, notices, now, trouble>>

Trouble == trouble < MaxTrouble /\ trouble' = trouble + 1

\* Any other error: no second attempt.
AttemptError(d) ==
  /\ delivery[d].pc = "send" /\ Trouble
  /\ DeliveryBecomes(d, [delivery[d] EXCEPT !.pc = "refused", !.steady = FALSE])
  /\ UNCHANGED <<accepts, lastNotice, notices, now>>

\* Whether the channel is due a notice, and what is remembered of that, at once and
\* not when the notice is sent.  The faulty variant remembers nothing.
Due(c) == c \in DOMAIN lastNotice => now - lastNotice[c] >= Interval

NotStamped(c) == lastNotice
Stamped(c) == [x \in DOMAIN lastNotice \cup {c} |-> IF x = c THEN now ELSE lastNotice[x]]

\* noteSendFailure: claimFailureNotice under noticeMu, the notice itself after it.
Claim(d) ==
  /\ delivery[d].pc = "refused"
  /\ LET c == delivery[d].channel
     IN  \/ /\ Due(c)
            /\ lastNotice' = Stamped(c) /\ notices' = [notices EXCEPT ![c] = Append(@, now)]
            /\ DeliveryBecomes(d, [delivery[d] EXCEPT !.pc = "notice", !.at = now])
         \/ /\ ~Due(c) /\ UNCHANGED <<lastNotice, notices>>
            /\ DeliveryBecomes(d, [delivery[d] EXCEPT !.pc = "failed", !.at = now])
  /\ UNCHANGED <<accepts, now, trouble>>

\* The notice is posted, or that fails too and only the log knows.
Notice(d) ==
  /\ delivery[d].pc = "notice"
  /\ DeliveryBecomes(d, [delivery[d] EXCEPT !.pc = "failed"])
  /\ UNCHANGED <<accepts, lastNotice, notices, now, trouble>>

PostingTick ==
  /\ now < MaxPostingTime /\ now' = now + 1
  /\ UNCHANGED <<delivery, accepts, lastNotice, notices, trouble>>

\* Account tier, boost level and policy move what Discord accepts.
LimitMoves(c) ==
  /\ Trouble /\ \E n \in Accepted \ {accepts[c]} : accepts' = [accepts EXCEPT ![c] = n]
  /\ delivery' = [d \in Deliveries |->
                    IF delivery[d].channel = c THEN [delivery[d] EXCEPT !.steady = FALSE]
                                               ELSE delivery[d]]
  /\ UNCHANGED <<lastNotice, notices, now>>

Continue(d) == Attempt(d) \/ Claim(d) \/ Notice(d)

PostingNext ==
  \/ \E d \in Deliveries : (\E c \in Channels : DeliverAlbum(d, c)) \/ Continue(d) \/ AttemptError(d)
  \/ PostingTick
  \/ \E c \in Channels : LimitMoves(c)

PostingSpec == PostingInit /\ [][PostingNext]_posting

-----------------------------------------------------------------------------
(* Properties                                                              *)

PostingTypeOK ==
  /\ delivery \in [Deliveries -> DeliveryState]
  /\ \A d \in Deliveries : delivery[d].kept <= Len(delivery[d].files)
  /\ accepts \in [Channels -> Accepted]
  /\ DOMAIN lastNotice \subseteq Channels /\ \A c \in DOMAIN lastNotice : lastNotice[c] <= now
  /\ notices \in [Channels -> Seq(0 .. MaxPostingTime)]
  /\ now \in 0 .. MaxPostingTime /\ trouble \in 0 .. MaxTrouble

\* The numbers of attachments that halving n comes to.
Halves[n \in Nat] == IF n <= 1 THEN {n} ELSE {n} \cup Halves[n \div 2]

(***************************************************************************)
(* An over-budget post is salvaged: while what Discord accepts holds       *)
(* still, the message that goes out holds the longest prefix, of those     *)
(* halving comes to, that Discord takes; its first file is always among    *)
(* them, and a post fails as too large only if that file does alone.       *)
(***************************************************************************)
BackoffSalvages ==
  \A d \in Deliveries :
    LET l == delivery[d]
        TooMany(n) == Bytes(SubSeq(l.files, 1, n)) > accepts[l.channel]
    IN  /\ (l.pc = "posted" /\ l.files # <<>>) => l.kept > 0
        /\ (l.pc = "posted" /\ l.steady) =>
              l.kept \in Halves[Len(l.files)] /\ \A n \in Halves[Len(l.files)] : n > l.kept => TooMany(n)
        /\ (l.pc \in {"refused", "notice", "failed"} /\ l.steady) => TooMany(1)

\* A channel hears of failed sends at most once per interval, however many of them
\* fail at once.
NoticesAreSpaced ==
  \A c \in Channels : \A i \in 2 .. Len(notices[c]) :
    notices[c][i] - notices[c][i - 1] >= Interval

\* Each send that Discord turned down has a notice of its own, or another delivery
\* claimed one for the channel less than an interval before.
NoSendFailsQuietly ==
  \A d \in Deliveries : delivery[d].pc \in {"notice", "failed"} =>
    \E t \in ToSet(notices[delivery[d].channel]) :
      t <= delivery[d].at /\ delivery[d].at - t < Interval

(***************************************************************************)
(* A channel hears of its failed sends, and is not flooded with notices,   *)
(* however many fail at the same moment.                                   *)
(***************************************************************************)
FailuresAreTold == NoticesAreSpaced /\ NoSendFailsQuietly
================================================================================
