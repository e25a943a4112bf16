------------------------------- MODULE FullAlbum -------------------------------
(***************************************************************************)
(* Posting an album in full (internal/controller/discord/bot.go and        *)
(* commands_slash.go): a thread is opened, the cover and the first page go *)
(* into it, and a large album continues page by page, each ending in a     *)
(* "more" button that carries the offset of the next.  Nothing is kept     *)
(* between presses: every page reads the album again, and a sync may have  *)
(* appended to it, or worse, meanwhile.                                    *)
(*                                                                         *)
(* Abstractions: one album and the thread of one post; an image is its id. *)
(* How a window becomes messages is FilePacking's and Delivery's part:     *)
(* here all of it arrives, or a fault loses some of it.                    *)
(***************************************************************************)
EXTENDS Naturals, FiniteSets, SequencesExt

CONSTANTS Handlers,    \* goroutines of button presses and commands
          Starts,      \* numbers of live images to start from
          Threshold,   \* FULL_ALBUM_PAGE_THRESHOLD; 0 never pages
          PageSize,    \* FULL_ALBUM_PAGE_SIZE
          Window,      \* albumPoolSize
          MaxAsks,     \* bound: presses of the "full album" button of the post
          MaxPresses, MaxAlbumEdits, MaxFaults   \* bounds: presses of "more", edits, faults

\* What is assumed of the constants.
ASSUME PagingAssumption ==
  /\ Starts \subseteq Nat /\ Threshold \in Nat
  /\ PageSize \in Nat \ {0} /\ Window \in Nat \ {0} /\ MaxAsks \in Nat

VARIABLES
  live,      \* the ids of the album's live images
  cover,     \* the one FindCoverByAlbum finds, or 0
  thread,    \* whether it is open, what the pages walked over, what arrived in it, and
             \* history: the longest list a page of it was cut from
  buttons,   \* the "more" buttons posted in it
  handler,   \* the goroutines' locals
  count,     \* bounds: asks, presses, edits, faults
  shifted,   \* history: an edit other than a new image at the end
  again,     \* history: a button was pressed a second time
  cut        \* history: a fault that takes the way on with it

paging == <<live, cover, thread, buttons, handler, count, shifted, again, cut>>

ImageIds == Nat \ {0}
\* GetFullAlbum: the images but the cover, by id; the i-th has i up to itself.
InOrder(S) == [i \in 1 .. Cardinality(S) |-> CHOOSE x \in S : Cardinality({y \in S : y <= x}) = i]
Listed     == InOrder(live \ {cover})

IdleHandler == [pc |-> "idle", offset |-> 0, cover |-> 0, page |-> <<>>, end |-> 0, total |-> 0]

PagingInit ==
  /\ \E n \in Starts : live = 1 .. n
  /\ cover \in {0} \cup (live \cap {1})
  /\ thread = [open |-> FALSE, walked |-> <<>>, arrived |-> {}, seen |-> 0]
  /\ buttons = <<>> /\ handler = [h \in Handlers |-> IdleHandler]
  /\ count = [asks |-> 0, presses |-> 0, edits |-> 0, faults |-> 0]
  /\ shifted = FALSE /\ again = FALSE /\ cut = FALSE

CountUp(what, bound) == count[what] < bound /\ count' = [count EXCEPT ![what] = @ + 1]
HandlerBecomes(h, l) == handler' = [handler EXCEPT ![h] = l]
At(h, pc)            == handler[h].pc = pc
GoesTo(h, pc)        == HandlerBecomes(h, [handler[h] EXCEPT !.pc = pc])
album                == <<live, cover, shifted>>

-----------------------------------------------------------------------------
\* The button under a delivered album; anyone may press it again.
PressFull(h) ==
  /\ At(h, "idle") /\ CountUp("asks", MaxAsks) /\ GoesTo(h, "cover")
  /\ UNCHANGED <<album, thread, buttons, again, cut>>

\* /full_album answers with a message of its own: nobody else asks there.
Command(h) ==
  /\ At(h, "idle") /\ count.asks = 0
  /\ count' = [count EXCEPT !.asks = MaxAsks] /\ GoesTo(h, "cover")
  /\ UNCHANGED <<album, thread, buttons, again, cut>>

\* loadFullAlbum: the cover, then, in a read of its own, the list.
LoadCover(h) ==
  /\ At(h, "cover")
  /\ HandlerBecomes(h, [handler[h] EXCEPT !.pc = "list", !.cover = cover])
  /\ UNCHANGED <<album, thread, buttons, count, again, cut>>

\* paged, and how many images a page holds.
Paged(total)     == Threshold > 0 /\ total > Threshold
SizeOf(total)    == IF Paged(total) THEN PageSize ELSE total

\* The end of the page at offset o.
PageEnd(o, total)  == IF o + SizeOf(total) > total THEN total ELSE o + SizeOf(total)

\* sendFullAlbumPage, up to its posts: a page of the list just read.
Page(h, pc) ==
  LET l == handler[h]
      end == PageEnd(l.offset, Len(Listed))
  IN  HandlerBecomes(h, [l EXCEPT !.pc = pc, !.end = end, !.total = Len(Listed),
                     !.page = SubSeq(Listed, l.offset + 1, end)])

\* An empty album opens no thread.
LoadList(h) ==
  /\ At(h, "list")
  /\ IF Listed = <<>> /\ handler[h].cover = 0 THEN HandlerBecomes(h, IdleHandler) ELSE Page(h, "thread")
  /\ UNCHANGED <<album, thread, buttons, count, again, cut>>

\* startAlbumThread: a message has one thread at most.
OpenThread(h) ==
  /\ At(h, "thread")
  /\ \/ ~thread.open /\ thread' = [thread EXCEPT !.open = TRUE] /\ GoesTo(h, "lead")
     \/ thread.open /\ HandlerBecomes(h, IdleHandler) /\ UNCHANGED thread
  /\ UNCHANGED <<album, buttons, count, again, cut>>

\* What arrives of the files a page sends: all, or, in a fault, less.
Sends(s) ==
  \/ /\ thread' = [thread EXCEPT !.walked = @ \o s, !.arrived = @ \cup ToSet(s)]
     /\ UNCHANGED count
  \/ /\ s # <<>> /\ CountUp("faults", MaxFaults)
     /\ \E got \in {<<>>, Front(s)} :
          thread' = [thread EXCEPT !.walked = @ \o s, !.arrived = @ \cup ToSet(got)]

\* The cover leads the first page.
SendCover(h) ==
  /\ At(h, "lead") /\ GoesTo(h, "page")
  /\ Sends(IF handler[h].cover = 0 THEN <<>> ELSE <<handler[h].cover>>)
  /\ UNCHANGED <<album, buttons, again, cut>>

\* A window of the page; one that cannot be downloaded or posted is passed over.
SendWindow(h) ==
  /\ At(h, "page") /\ handler[h].page # <<>>
  /\ LET page == handler[h].page
         n    == IF Len(page) < Window THEN Len(page) ELSE Window
     IN  /\ Sends(SubSeq(page, 1, n))
         /\ HandlerBecomes(h, [handler[h] EXCEPT !.page = SubSeq(page, n + 1, Len(page))])
  /\ UNCHANGED <<album, buttons, again, cut>>

\* Where the next page starts; the faulty variants repeat this one, and skip an image.
SameOffset(l) == l.offset
OnePast(l)    == l.end + 1
NextOffset(l) == l.end

\* The continue button closes a page that leaves images waiting.
Close(h) ==
  LET l == handler[h]
  IN  /\ At(h, "page") /\ l.page = <<>> /\ HandlerBecomes(h, IdleHandler)
      /\ thread' = [thread EXCEPT !.seen = IF l.total > @ THEN l.total ELSE @]
      /\ IF Paged(l.total) /\ l.total > l.end
         THEN \/ /\ buttons' = Append(buttons, [offset |-> NextOffset(l), pressed |-> FALSE, shown |-> TRUE])
                 /\ UNCHANGED <<count, cut>>
              \/ CountUp("faults", MaxFaults) /\ cut' = TRUE /\ UNCHANGED buttons
         ELSE UNCHANGED <<buttons, count, cut>>
      /\ UNCHANGED <<album, again>>

\* cmdFullAlbumMore: acknowledge, then retire the button, which may fail.
PressMore(h, b) ==
  /\ At(h, "idle") /\ b \in DOMAIN buttons /\ buttons[b].shown
  /\ CountUp("presses", MaxPresses)
  /\ again' = (again \/ buttons[b].pressed)
  /\ buttons' = [buttons EXCEPT ![b].pressed = TRUE]
  /\ HandlerBecomes(h, [IdleHandler EXCEPT !.pc = "clear", !.offset = b])
  /\ UNCHANGED <<album, thread, cut>>

Clear(h) ==
  /\ At(h, "clear")
  /\ LET b == handler[h].offset
     IN  /\ \/ buttons' = [buttons EXCEPT ![b].shown = FALSE] /\ UNCHANGED count
            \/ UNCHANGED buttons /\ CountUp("faults", MaxFaults)
         /\ HandlerBecomes(h, [handler[h] EXCEPT !.pc = "read", !.offset = buttons[b].offset])
  /\ UNCHANGED <<album, thread, again, cut>>

\* The album is read again, or cannot be, with the button gone already.
Read(h) ==
  /\ At(h, "read")
  /\ \/ /\ handler[h].offset < Len(Listed) /\ Page(h, "page") /\ UNCHANGED <<count, cut>>
     \/ /\ handler[h].offset >= Len(Listed)         \* nothing left to post
        /\ HandlerBecomes(h, IdleHandler) /\ UNCHANGED <<count, cut>>
     \/ /\ CountUp("faults", MaxFaults) /\ cut' = TRUE /\ HandlerBecomes(h, IdleHandler)
  /\ UNCHANGED <<album, thread, buttons, again>>

-----------------------------------------------------------------------------
\* A sync finds a new image, under an id no image has had.
AppendImage ==
  /\ CountUp("edits", MaxAlbumEdits)
  /\ live' = live \cup {1 + Cardinality(live) + count.edits}
  /\ UNCHANGED <<cover, shifted, thread, buttons, handler, again, cut>>

\* It loses or finds again an older one, or a rename makes or unmakes a cover.
Shift ==
  /\ CountUp("edits", MaxAlbumEdits) /\ shifted' = TRUE
  /\ \/ \E i \in live : live' = live \ {i} /\ cover' = IF i = cover THEN 0 ELSE cover
     \/ cover' \in ({0} \cup live) \ {cover} /\ UNCHANGED live
  /\ UNCHANGED <<thread, buttons, handler, again, cut>>

\* The bot restarts: its goroutines are gone, Discord keeps the thread and its buttons.
Crash ==
  /\ \E h \in Handlers : handler[h] # IdleHandler
  /\ CountUp("faults", MaxFaults) /\ cut' = TRUE
  /\ handler' = [h \in Handlers |-> IdleHandler]
  /\ UNCHANGED <<album, thread, buttons, again>>

Proceed(h) == LoadCover(h) \/ LoadList(h) \/ OpenThread(h) \/ SendCover(h) \/ SendWindow(h)
              \/ Close(h) \/ Clear(h) \/ Read(h)

PagingNext ==
  \/ \E h \in Handlers :
       PressFull(h) \/ Command(h) \/ (\E b \in 1 .. MaxPresses + 1 : PressMore(h, b)) \/ Proceed(h)
  \/ AppendImage \/ Shift \/ Crash

PagingSpec == PagingInit /\ [][PagingNext]_paging

-----------------------------------------------------------------------------
(* Properties                                                              *)

PagingTypeOK ==
  /\ live \subseteq ImageIds /\ IsFiniteSet(live) /\ cover \in live \cup {0}
  /\ thread.open \in BOOLEAN /\ thread.walked \in Seq(ImageIds) /\ thread.arrived \subseteq ImageIds
  /\ thread.seen \in Nat
  /\ buttons \in Seq([offset : Nat, pressed : BOOLEAN, shown : BOOLEAN])
  /\ \A h \in Handlers : handler[h].page \in Seq(ImageIds)
  /\ {shifted, again, cut} \subseteq BOOLEAN

(***************************************************************************)
(* While the album only grows and nobody presses a button twice, the pages *)
(* of a thread tile it: what they walked over is the cover, then the list  *)
(* from its first image on, each image once and in order, and without a    *)
(* fault all of it arrived.                                                *)
(***************************************************************************)
PagesTile ==
  (~shifted /\ ~again) =>
    /\ IsPrefix(thread.walked, (IF cover = 0 THEN <<>> ELSE <<cover>>) \o Listed)
    /\ count.faults = 0 => thread.arrived = ToSet(thread.walked)

(***************************************************************************)
(* While the album only grows, a thread nobody is posting to shows a       *)
(* button that goes on exactly where its pages end, or all that the album  *)
(* held when it was last read, unless a fault hits between a button's      *)
(* retirement and the next one's posting.  After a second press of a       *)
(* button the last one shown may start earlier, so that images come again, *)
(* but never later, so that none would be left out.                        *)
(***************************************************************************)
PagesLeadOn ==
  LET covers == IF cover = 0 THEN 0 ELSE 1
      ends   == Cardinality(ToSet(thread.walked)) - covers
  IN  (thread.open /\ ~shifted /\ ~cut /\ \A h \in Handlers : handler[h] = IdleHandler) =>
        \/ \E b \in DOMAIN buttons :
             /\ buttons[b].shown /\ buttons[b].offset <= ends
             /\ ~again => buttons[b].offset = ends
        \/ ends >= thread.seen
================================================================================
