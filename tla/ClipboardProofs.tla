--------------------------- MODULE ClipboardProofs ---------------------------
(***************************************************************************)
(* The clipboard side of the daemon, for any applications, copies, rules,  *)
(* scripts and requests, any number of them, and news of the compositor    *)
(* that comes as late as it likes.                                         *)
(***************************************************************************)
EXTENDS Clipboard, TLAPS, SequenceTheorems, FiniteSetTheorems

Kinds == {"none", "app", "us", "cancelled", "send"}
Event == [kind : Kinds, n : Nat, what : Content \cup {None}]
Boards == [owner : {"none", "app", "us"}, n : Nat, what : Content \cup {None}]
Sources == [n : Nat, clip : 0..MaxId, cb : BOOLEAN]
Clipboards == [board : Boards, events : Seq(Event), sources : SUBSET Sources, serving : Nat]

-----------------------------------------------------------------------------
(* The news on its way, and what it says of the selection there is.         *)

\* News of who has the clipboard; an empty selection is not, for it may come late.
OwnerNews(e) == e.kind \in {"app", "us"}

Unheard(ev) == \E k \in 1..Len(ev) : OwnerNews(ev[k])

Cancels(ev, n) == \E k \in 1..Len(ev) : ev[k].kind = "cancelled" /\ ev[k].n = n

Describes(e, b) == e.n = b.n /\ e.what = b.what /\ (e.kind = "us" <=> b.owner = "us")

Copied(e) == e.kind = "app" => \E i \in Item : e.what = <<i, "whole">>

\* The last news of an owner is of the selection there is, or was when it left.
NewsTrue(b, ev) ==
  \A k \in 1..Len(ev) :
    /\ OwnerNews(ev[k]) /\ (\A j \in (k + 1)..Len(ev) : ~OwnerNews(ev[j])) => Describes(ev[k], b)
    /\ Copied(ev[k])

\* A source serves the selection, or its end is on the way.
SourcesTrue(b, ev, src, srv) ==
  /\ \A s \in src : (b.owner = "us" /\ s.n = b.n) \/ Cancels(ev, s.n)
  /\ \A n \in Nat : Cancels(ev, n) => n <= b.n
  /\ b.owner = "us" =>
       /\ srv = b.n /\ b.n # 0 /\ ~Cancels(ev, b.n)
       /\ \E s \in src : s.n = b.n
  /\ srv # 0 => \E s \in src : s.n = srv

True(x) == NewsTrue(x.board, x.events) /\ SourcesTrue(x.board, x.events, x.sources, x.serving)

\* The handler of an event takes the first one.
LEMMA TailNews ==
  ASSUME NEW ev \in Seq(Event), ev # <<>>, NEW b, NewsTrue(b, ev)
  PROVE  /\ Head(ev) \in Event /\ Tail(ev) \in Seq(Event)
         /\ NewsTrue(b, Tail(ev)) /\ Copied(Head(ev))
         /\ Unheard(ev) <=> OwnerNews(Head(ev)) \/ Unheard(Tail(ev))
         /\ OwnerNews(Head(ev)) /\ ~Unheard(Tail(ev)) => Describes(Head(ev), b)
         /\ \A n : Cancels(ev, n) <=> (Head(ev).kind = "cancelled" /\ Head(ev).n = n) \/ Cancels(Tail(ev), n)
<1>1. /\ Len(ev) \in Nat \ {0} /\ Head(ev) = ev[1] /\ Len(Tail(ev)) = Len(ev) - 1
      /\ Head(ev) \in Event /\ Tail(ev) \in Seq(Event)
      /\ \A k \in 1..Len(Tail(ev)) : Tail(ev)[k] = ev[k + 1]
  BY HeadTailProperties, EmptySeq
<1>2. \A k \in 2..Len(ev) : k - 1 \in 1..Len(Tail(ev)) /\ Tail(ev)[k - 1] = ev[k]
  BY <1>1
<1>3. Unheard(ev) <=> OwnerNews(Head(ev)) \/ Unheard(Tail(ev))
  BY <1>1, <1>2 DEF Unheard
<1>4. \A n : Cancels(ev, n) <=> (Head(ev).kind = "cancelled" /\ Head(ev).n = n) \/ Cancels(Tail(ev), n)
  BY <1>1, <1>2 DEF Cancels
<1>5. NewsTrue(b, Tail(ev))
  <2> SUFFICES ASSUME NEW k \in 1..Len(Tail(ev))
               PROVE  /\ OwnerNews(Tail(ev)[k]) /\ (\A j \in (k + 1)..Len(Tail(ev)) : ~OwnerNews(Tail(ev)[j]))
                           => Describes(Tail(ev)[k], b)
                      /\ Copied(Tail(ev)[k])
    BY DEF NewsTrue
  <2>1. k + 1 \in 1..Len(ev) /\ Tail(ev)[k] = ev[k + 1]
    BY <1>1
  <2>2. \A j \in (k + 2)..Len(ev) : j - 1 \in (k + 1)..Len(Tail(ev)) /\ Tail(ev)[j - 1] = ev[j]
    BY <1>1, <1>2
  <2> QED
    BY <1>1, <2>1, <2>2 DEF NewsTrue
<1>6. Copied(Head(ev))
  BY <1>1 DEF NewsTrue
<1>7. OwnerNews(Head(ev)) /\ ~Unheard(Tail(ev)) => Describes(Head(ev), b)
  <2> SUFFICES ASSUME OwnerNews(ev[1]), ~Unheard(Tail(ev)) PROVE Describes(ev[1], b)
    BY <1>1
  <2>1. \A j \in 2..Len(ev) : ~OwnerNews(ev[j])
    BY <1>2 DEF Unheard
  <2> QED
    BY <1>1, <2>1 DEF NewsTrue
<1> QED
  BY <1>1, <1>3, <1>4, <1>5, <1>6, <1>7

\* One more event on its way.
LEMMA MoreNews ==
  ASSUME NEW ev \in Seq(Event), NEW e \in Event
  PROVE  /\ Append(ev, e) \in Seq(Event)
         /\ Unheard(Append(ev, e)) <=> Unheard(ev) \/ OwnerNews(e)
         /\ \A n : Cancels(Append(ev, e), n) <=> Cancels(ev, n) \/ (e.kind = "cancelled" /\ e.n = n)
         /\ \A b : NewsTrue(b, ev) /\ ~OwnerNews(e) => NewsTrue(b, Append(ev, e))
         /\ \A b, c : NewsTrue(b, ev) /\ OwnerNews(e) /\ Copied(e) /\ Describes(e, c) => NewsTrue(c, Append(ev, e))
<1> DEFINE more == Append(ev, e)
<1>1. /\ Len(ev) \in Nat /\ more \in Seq(Event) /\ Len(more) = Len(ev) + 1
      /\ more[Len(ev) + 1] = e /\ \A k \in 1..Len(ev) : more[k] = ev[k]
  OBVIOUS
<1> HIDE DEF more
<1>2. Unheard(more) <=> Unheard(ev) \/ OwnerNews(e)
  BY <1>1 DEF Unheard
<1>3. \A n : Cancels(more, n) <=> Cancels(ev, n) \/ (e.kind = "cancelled" /\ e.n = n)
  BY <1>1 DEF Cancels
<1>4. ASSUME NEW b, NewsTrue(b, ev), ~OwnerNews(e) PROVE NewsTrue(b, more)
  <2>1. Copied(e)
    BY <1>4 DEF Copied, OwnerNews
  <2> SUFFICES ASSUME NEW k \in 1..Len(more)
               PROVE  /\ OwnerNews(more[k]) /\ (\A j \in (k + 1)..Len(more) : ~OwnerNews(more[j]))
                           => Describes(more[k], b)
                      /\ Copied(more[k])
    BY DEF NewsTrue
  <2>2. CASE k = Len(ev) + 1
    BY <1>1, <1>4, <2>1, <2>2
  <2>3. CASE k # Len(ev) + 1
    <3>1. k \in 1..Len(ev) /\ more[k] = ev[k]
      BY <1>1, <2>3
    <3>2. \A j \in (k + 1)..Len(ev) : j \in (k + 1)..Len(more) /\ more[j] = ev[j]
      BY <1>1, <3>1
    <3> QED
      BY <1>4, <3>1, <3>2 DEF NewsTrue
  <2> QED
    BY <2>2, <2>3
<1>5. ASSUME NEW b, NEW c, NewsTrue(b, ev), OwnerNews(e), Copied(e), Describes(e, c) PROVE NewsTrue(c, more)
  <2> SUFFICES ASSUME NEW k \in 1..Len(more)
               PROVE  /\ OwnerNews(more[k]) /\ (\A j \in (k + 1)..Len(more) : ~OwnerNews(more[j]))
                           => Describes(more[k], c)
                      /\ Copied(more[k])
    BY DEF NewsTrue
  <2>1. CASE k = Len(ev) + 1
    BY <1>1, <1>5, <2>1
  <2>2. CASE k # Len(ev) + 1
    <3>1. k \in 1..Len(ev) /\ more[k] = ev[k] /\ Len(ev) + 1 \in (k + 1)..Len(more)
      BY <1>1, <2>2
    <3> QED
      BY <1>1, <1>5, <3>1 DEF NewsTrue
  <2> QED
    BY <2>1, <2>2
<1> QED
  BY <1>1, <1>2, <1>3, <1>4, <1>5 DEF more

-----------------------------------------------------------------------------
(* A new selection. *)

\* The owner that was told to end its source, and the news that follows.
LEMMA Replaced ==
  ASSUME NEW x \in Clipboards, True(x), NEW new \in Boards, new.n = x.board.n + 1,
         new.owner \in {"app", "us"}, new.owner = "app" => \E i \in Item : new.what = <<i, "whole">>
  PROVE  LET ev == Replacing(x, new) IN
         /\ ev \in Seq(Event) /\ Unheard(ev) /\ NewsTrue(new, ev)
         /\ \A n : Cancels(ev, n) <=> Cancels(x.events, n) \/ (x.board.owner = "us" /\ n = x.board.n)
<1> DEFINE gone == [kind |-> "cancelled", n |-> x.board.n, what |-> None]
           heard == [kind |-> new.owner, n |-> new.n, what |-> new.what]
           told == IF x.board.owner = "us" THEN Append(x.events, gone) ELSE x.events
<1>1. x.board \in Boards /\ x.events \in Seq(Event) /\ NewsTrue(x.board, x.events)
  BY DEF Clipboards, True
<1>2. gone \in Event /\ ~OwnerNews(gone) /\ gone.kind = "cancelled" /\ gone.n = x.board.n
  BY <1>1 DEF Event, Kinds, Boards, OwnerNews
<1>3. /\ heard \in Event /\ OwnerNews(heard) /\ Copied(heard) /\ Describes(heard, new)
      /\ heard.kind # "cancelled"
  BY DEF Event, Kinds, Boards, OwnerNews, Copied, Describes
<1> HIDE DEF gone, heard
<1>4. /\ told \in Seq(Event) /\ NewsTrue(x.board, told)
      /\ \A n : Cancels(told, n) <=> Cancels(x.events, n) \/ (x.board.owner = "us" /\ n = x.board.n)
  <2>1. CASE x.board.owner = "us"
    BY <1>1, <1>2, <2>1, MoreNews
  <2>2. CASE x.board.owner # "us"
    BY <1>1, <2>2
  <2> QED
    BY <2>1, <2>2
<1>5. Replacing(x, new) = told \o <<heard>>
  BY DEF Replacing, gone, heard
<1> HIDE DEF told
<1>6. told \o <<heard>> = Append(told, heard)
  BY <1>3, <1>4, AppendIsConcat
<1> DEFINE ev == Append(told, heard)
<1>7. ev \in Seq(Event) /\ Unheard(ev) /\ \A n : Cancels(ev, n) <=> Cancels(told, n)
  BY <1>3, <1>4, MoreNews
<1>8. NewsTrue(new, ev)
  BY <1>3, <1>4, MoreNews
<1> HIDE DEF ev
<1> QED
  BY <1>4, <1>5, <1>6, <1>7, <1>8 DEF ev

\* own(): the selection is ours, its source is there, and the one before is on its
\* way out.
LEMMA OwnedTrue ==
  ASSUME NEW x \in Clipboards, True(x), NEW clip \in 0..MaxId, NEW what \in Content, NEW cb \in BOOLEAN
  PROVE  LET y == Owning(x, clip, what, cb) IN
         y \in Clipboards /\ True(y) /\ Unheard(y.events) /\ y.board.owner = "us"
<1> DEFINE new == [owner |-> "us", n |-> x.board.n + 1, what |-> what]
           ev == Replacing(x, new)
           s0 == [n |-> new.n, clip |-> clip, cb |-> cb]
           src == x.sources \cup {s0}
<1>1. x.board \in Boards /\ x.board.n \in Nat /\ x.sources \in SUBSET Sources
      /\ SourcesTrue(x.board, x.events, x.sources, x.serving)
  BY DEF Clipboards, Boards, True
<1>2. new \in Boards /\ new.owner = "us" /\ new.n = x.board.n + 1 /\ new.n \in Nat /\ new.n # 0
  BY <1>1 DEF Boards
<1>3. s0 \in Sources /\ s0.n = new.n
  BY <1>2 DEF Sources
<1>4. Owning(x, clip, what, cb) = [board |-> new, events |-> ev, serving |-> new.n, sources |-> src]
  BY DEF Owning
<1> HIDE DEF new, s0
<1>5. /\ ev \in Seq(Event) /\ Unheard(ev) /\ NewsTrue(new, ev)
      /\ \A n : Cancels(ev, n) <=> Cancels(x.events, n) \/ (x.board.owner = "us" /\ n = x.board.n)
  BY <1>2, Replaced
<1> HIDE DEF ev
<1>6. SourcesTrue(new, ev, src, new.n)
  BY <1>1, <1>2, <1>3, <1>5 DEF SourcesTrue, Sources
<1> HIDE DEF src
<1>7. [board |-> new, events |-> ev, serving |-> new.n, sources |-> src] \in Clipboards
  BY <1>1, <1>2, <1>3, <1>5 DEF Clipboards, src
<1> QED
  BY <1>2, <1>4, <1>5, <1>6, <1>7 DEF True

-----------------------------------------------------------------------------
(* The invariant. *)

Side == Selection \in Clipboards /\ True(Selection)

Captures == [phase : {"idle", "debounce", "reading"}, n : Nat, item : Item \cup {None},
             left : 0..MaxReads, fed : BOOLEAN, some : BOOLEAN, whole : BOOLEAN]

CaptureType ==
  /\ cap \in Captures
  /\ cap.phase # "idle" => cap.item \in Item /\ cap.left > 0
  /\ current \in 0..MaxId /\ sensitive \in BOOLEAN
  /\ keepTimer \in BOOLEAN /\ recheckTimer \in BOOLEAN
  /\ probe \in {"off", "empty", "occupied"} /\ hook \in {"off", "armed", "late"}
  /\ named \in Content \cup {None}

BufferType ==
  /\ copySlot \in BOOLEAN /\ restoreTimer \in BOOLEAN
  /\ {copyPrev, pasteClip, pastePrev, slot} \subseteq 0..MaxId

StoreType ==
  /\ rows \in [Id -> Content \cup {None}]
  /\ paused \in BOOLEAN /\ asks \in 0..MaxAsks /\ normal \in Content \cup {None}

\* A capture is of the last application's selection the daemon heard of.
CaptureTrue ==
  cap.phase # "idle" /\ ~Unheard(events) =>
    /\ board.owner # "us" /\ cap.n = board.n
    /\ cap.item \notin Secret /\ board.what = <<cap.item, "whole">>

\* So is the current clip while the daemon does not own the clipboard.
CurrentTrue ==
  current # 0 /\ ~sensitive /\ ~Unheard(events) /\ board.owner # "us" =>
    \E i \in Item \ Secret :
      board.what = <<i, "whole">> /\ named \in {<<i, "whole">>, <<i, "cut">>}

\* Nobody copied since a probe found the clipboard empty, unless there is news of it.
ProbeTrue == probe = "empty" /\ ~Unheard(events) => board.owner = "none"

View == CaptureTrue /\ CurrentTrue /\ ProbeTrue

ClipboardInv == Side /\ CaptureType /\ BufferType /\ StoreType /\ View

\* The invariant has the types the runs check.
LEMMA InvTyped == ClipboardInv => TypeOK
<1> SUFFICES ASSUME ClipboardInv PROVE TypeOK
  OBVIOUS
<1>1. board \in Boards /\ events \in Seq(Event) /\ sources \in SUBSET Sources /\ serving \in Nat
  BY DEF ClipboardInv, Side, Clipboards, Selection
<1>2. serving \in {0} \cup {s.n : s \in sources}
  BY DEF ClipboardInv, Side, True, SourcesTrue, Selection
<1> QED
  BY <1>1, <1>2 DEF ClipboardInv, CaptureType, BufferType, StoreType, TypeOK, Captures, Boards, Event, Kinds, Sources

\* The selection, by its parts.
LEMMA SideParts ==
  Side <=> /\ board \in Boards /\ events \in Seq(Event) /\ sources \in SUBSET Sources /\ serving \in Nat
           /\ NewsTrue(board, events) /\ SourcesTrue(board, events, sources, serving)
  BY DEF Side, Clipboards, Selection, True

\* The same of the next state.
LEMMA SidePartsNext ==
  Side' <=> /\ board' \in Boards /\ events' \in Seq(Event) /\ sources' \in SUBSET Sources /\ serving' \in Nat
            /\ NewsTrue(board', events') /\ SourcesTrue(board', events', sources', serving')
  BY DEF Side, Clipboards, Selection, True

\* Handlers that do not touch the selection.
LEMMA SideKept == Side /\ UNCHANGED serve => Side' /\ board' = board /\ events' = events
  BY SideParts, SidePartsNext DEF serve

\* What is seen of the selection stays true while nothing of it changes, or there is
\* news the daemon has yet to hear.
LEMMA ViewKept ==
  ASSUME View, UNCHANGED <<cap, current, sensitive, named, probe>>,
         \/ Unheard(events')
         \/ /\ ~Unheard(events)
            /\ board'.n = board.n /\ board'.what = board.what
            /\ board'.owner = "us" <=> board.owner = "us"
            /\ board.owner = "none" => board'.owner = "none"
  PROVE  View'
<1>1. CASE Unheard(events')
  BY <1>1 DEF View, CaptureTrue, CurrentTrue, ProbeTrue
<1>2. CASE ~Unheard(events')
  BY <1>2 DEF View, CaptureTrue, CurrentTrue, ProbeTrue
<1> QED
  BY <1>1, <1>2

\* While it owns the clipboard and has yet to hear of it, there is nothing to see.
LEMMA ViewUnheard == Unheard(events') => View'
  BY DEF View, CaptureTrue, CurrentTrue, ProbeTrue

\* Owning the clipboard with a clip (own, serve.c).
LEMMA OwnSide ==
  ASSUME Side, NEW clip \in 0..MaxId, NEW what \in Content, Own(clip, what)
  PROVE  /\ Side' /\ Unheard(events')
         /\ current' = clip /\ sensitive' = FALSE /\ named' = what
<1> DEFINE y == Owning(Selection, clip, what, FALSE)
<1>1. y \in Clipboards /\ True(y) /\ Unheard(y.events)
  BY OwnedTrue DEF Side
<1>2. board' = y.board /\ events' = y.events /\ sources' = y.sources /\ serving' = y.serving
      /\ current' = clip /\ sensitive' = FALSE /\ named' = what
  BY DEF Own, Select, SetCurrent
<1> HIDE DEF y
<1>3. Side'
  BY <1>1, <1>2, SidePartsNext DEF Clipboards, True
<1> QED
  BY <1>1, <1>2, <1>3

\* A row that exists has a content.
LEMMA RowContent ==
  ASSUME StoreType, NEW i \in 0..MaxId, Exists(i)
  PROVE  i \in Id /\ rows[i] \in Content
  BY ClipboardAssumption DEF StoreType, Exists, Id

\* No capture is under way (abort_current).
LEMMA NoCaptureTyped == NoCapture \in Captures /\ NoCapture.phase = "idle"
<1>1. 0 \in 0..MaxReads
  BY ClipboardAssumption
<1> QED
  BY <1>1 DEF NoCapture, Captures

\* The compositor names the selection it has when the daemon connects (main).
LEMMA InvInit == Init => ClipboardInv
<1> SUFFICES ASSUME Init PROVE ClipboardInv
  OBVIOUS
<1> USE ClipboardAssumption
<1>1. \A i \in Id : i <= Len(FirstRows) => FirstRows[i] \in Content
  BY DEF Id
<1>2. /\ cap = NoCapture /\ sensitive = FALSE /\ named = board.what /\ normal = None
      /\ keepTimer = FALSE /\ recheckTimer = FALSE /\ probe = "off" /\ hook = "off"
      /\ copySlot = FALSE /\ copyPrev = 0 /\ pasteClip = 0 /\ pastePrev = 0
      /\ restoreTimer = FALSE /\ slot = FirstSlot /\ paused = FALSE /\ asks = 0
      /\ rows = [i \in Id |-> IF i <= Len(FirstRows) THEN FirstRows[i] ELSE None]
  BY DEF Init
<1>0. Len(FirstRows) \in Nat /\ FirstSlot \in 0..MaxId
  OBVIOUS
<1>3. BufferType /\ StoreType
  <2>1. BufferType
    <3>1. 0 \in 0..MaxId
      OBVIOUS
    <3> QED
      BY <1>0, <1>2, <3>1 DEF BufferType
  <2>2. rows \in [Id -> Content \cup {None}]
    BY <1>1, <1>2
  <2>3. 0 \in 0..MaxAsks
    OBVIOUS
  <2> QED
    BY <1>2, <2>1, <2>2, <2>3 DEF StoreType
<1>4. cap.phase = "idle"
  BY <1>2 DEF NoCapture
<1>7. cap \in Captures
  BY <1>2, NoCaptureTyped
<1> DEFINE empty == [owner |-> "none", n |-> 0, what |-> None]
           ours == [owner |-> "us", n |-> 1, what |-> FirstRows[Len(FirstRows)]]
           heard(b) == [kind |-> b.owner, n |-> b.n, what |-> b.what]
<1>5. CASE /\ board \in {empty} \cup {[owner |-> "app", n |-> 1, what |-> <<i, "whole">>] : i \in Item}
           /\ events = <<heard(board)>> /\ sources = {} /\ serving = 0 /\ current = 0
  <2>1. /\ board \in Boards /\ board.owner \in {"none", "app"}
        /\ board.owner = "app" => \E i \in Item : board.what = <<i, "whole">>
    BY <1>5 DEF Boards, Content
  <2> DEFINE e == heard(board)
  <2>2. e \in Event /\ e.kind = board.owner /\ e.n = board.n /\ e.what = board.what
    BY <2>1 DEF Event, Boards, Kinds
  <2>3. events \in Seq(Event) /\ Len(events) = 1 /\ events[1] = e
    BY <1>5, <2>2
  <2> HIDE DEF e
  <2>4. NewsTrue(board, events)
    BY <2>1, <2>2, <2>3 DEF NewsTrue, OwnerNews, Describes, Copied
  <2>5. SourcesTrue(board, events, sources, serving)
    BY <1>5, <2>1, <2>2, <2>3 DEF SourcesTrue, Cancels
  <2>6. Side
    BY <1>5, <2>1, <2>3, <2>4, <2>5, SideParts
  <2>7. CaptureType
    <3>1. named \in Content \cup {None} /\ 0 \in 0..MaxId
      BY <1>2, <2>1 DEF Boards
    <3> QED
      BY <1>2, <1>4, <1>5, <1>7, <3>1 DEF CaptureType
  <2>8. View
    BY <1>2, <1>4, <1>5 DEF View, CaptureTrue, CurrentTrue, ProbeTrue
  <2> QED
    BY <1>3, <2>6, <2>7, <2>8 DEF ClipboardInv
<1>6. CASE /\ FirstRows # <<>> /\ board = ours
           /\ events = <<heard(empty), heard(ours)>>
           /\ sources = {[n |-> 1, clip |-> Len(FirstRows), cb |-> FALSE]} /\ serving = 1
           /\ current = Len(FirstRows)
  <2>1. Len(FirstRows) \in 1..MaxId /\ FirstRows[Len(FirstRows)] \in Content
    BY <1>6
  <2>2. board \in Boards /\ board.owner = "us" /\ board.n = 1 /\ board.what \in Content
    BY <1>6, <2>1 DEF Boards
  <2>3. heard(empty) \in Event /\ heard(ours) \in Event
    BY <2>1 DEF Event, Kinds
  <2>4. /\ events \in Seq(Event) /\ Len(events) = 2 /\ events[1].kind = "none"
        /\ events[2].kind = "us" /\ events[2].n = 1 /\ events[2].what = board.what
    BY <1>6, <2>3
  <2>5. NewsTrue(board, events) /\ Unheard(events)
    BY <2>2, <2>4 DEF NewsTrue, OwnerNews, Describes, Copied, Unheard
  <2>6. SourcesTrue(board, events, sources, serving)
    BY <1>6, <2>2, <2>4 DEF SourcesTrue, Cancels
  <2>7. sources \in SUBSET Sources
    BY <1>6, <2>1 DEF Sources
  <2>8. Side
    BY <1>6, <2>2, <2>4, <2>5, <2>6, <2>7, SideParts
  <2>9. CaptureType
    <3>1. named \in Content /\ Len(FirstRows) \in 0..MaxId
      BY <1>2, <2>1, <2>2
    <3> QED
      BY <1>2, <1>4, <1>6, <1>7, <3>1 DEF CaptureType
  <2>10. View
    BY <2>5 DEF View, CaptureTrue, CurrentTrue, ProbeTrue
  <2> QED
    BY <1>3, <2>8, <2>9, <2>10 DEF ClipboardInv
<1> QED
  BY <1>5, <1>6 DEF Init

-----------------------------------------------------------------------------
(* Applications and the compositor. *)

\* An application copies: the daemon's source, if it has one, is to end, and there is
\* news.
LEMMA AppCopyKeeps == ASSUME ClipboardInv, NEW i \in Item, AppCopy(i) PROVE ClipboardInv'
<1> DEFINE new == [owner |-> "app", n |-> board.n + 1, what |-> <<i, "whole">>]
<1>1. Side /\ board \in Boards /\ board.n \in Nat
  BY SideParts DEF ClipboardInv, Boards
<1>2. /\ Selection \in Clipboards /\ True(Selection)
      /\ Selection.board = board /\ Selection.events = events
  BY <1>1 DEF Side, Selection
<1>3. /\ new \in Boards /\ new.n = board.n + 1 /\ new.owner = "app" /\ new.what = <<i, "whole">>
  BY <1>1 DEF Boards, Content
<1>4. board' = new /\ events' = Replacing(Selection, new) /\ sources' = sources /\ serving' = serving
  BY DEF AppCopy
<1> HIDE DEF new
<1>5. /\ events' \in Seq(Event) /\ Unheard(events') /\ NewsTrue(board', events')
      /\ \A n : Cancels(events', n) <=> Cancels(events, n) \/ (board.owner = "us" /\ n = board.n)
  BY <1>2, <1>3, <1>4, Replaced
<1>6. SourcesTrue(board', events', sources', serving')
  BY <1>1, <1>3, <1>4, <1>5, SideParts DEF SourcesTrue, Sources
<1>7. Side'
  BY <1>1, <1>3, <1>4, <1>5, <1>6, SideParts, SidePartsNext
<1>8. CaptureType' /\ BufferType' /\ StoreType'
  BY ClipboardAssumption DEF AppCopy, ClipboardInv, CaptureType, BufferType, StoreType, capture, buffer
<1> QED
  BY <1>5, <1>7, <1>8, ViewUnheard DEF ClipboardInv

\* News that is of no owner changes nothing but what the daemon has to read.
LEMMA NewsAdded ==
  ASSUME Side, View, UNCHANGED <<cap, current, sensitive, named, probe>>, NEW e \in Event, ~OwnerNews(e),
         e.kind # "cancelled", events' = Append(events, e), UNCHANGED <<board, sources, serving>>
  PROVE  Side' /\ View'
<1>1. board \in Boards /\ events \in Seq(Event) /\ sources \in SUBSET Sources /\ serving \in Nat
      /\ NewsTrue(board, events) /\ SourcesTrue(board, events, sources, serving)
  BY SideParts
<1>2. events' \in Seq(Event) /\ NewsTrue(board', events')
      /\ (Unheard(events') <=> Unheard(events)) /\ \A n : Cancels(events', n) <=> Cancels(events, n)
  BY <1>1, MoreNews
<1>3. SourcesTrue(board', events', sources', serving')
  BY <1>1, <1>2 DEF SourcesTrue
<1> QED
  BY <1>1, <1>2, <1>3, SidePartsNext, ViewKept

\* The owner quits: whether or not the compositor says so, the selection's number and
\* content stay what the news told.
LEMMA OwnerLeavesKeeps == ASSUME ClipboardInv, OwnerLeaves PROVE ClipboardInv'
<1>1. /\ board \in Boards /\ events \in Seq(Event) /\ sources \in SUBSET Sources /\ serving \in Nat
      /\ NewsTrue(board, events) /\ SourcesTrue(board, events, sources, serving)
  BY SideParts DEF ClipboardInv
<1> DEFINE e == [kind |-> "none", n |-> 0, what |-> None]
<1>2. board.owner = "app" /\ board' = [board EXCEPT !.owner = "none"]
      /\ events' \in {events, Append(events, e)} /\ UNCHANGED <<sources, serving>>
  BY DEF OwnerLeaves
<1>3. board' \in Boards /\ board'.owner = "none" /\ board'.n = board.n /\ board'.what = board.what
  BY <1>1, <1>2 DEF Boards
<1>4. e \in Event /\ ~OwnerNews(e) /\ e.kind = "none"
  BY DEF Event, Kinds, OwnerNews
<1> HIDE DEF e
<1>5. NewsTrue(board', events)
  BY <1>1, <1>2, <1>3 DEF NewsTrue, Describes
<1>6. /\ events' \in Seq(Event) /\ NewsTrue(board', events')
      /\ (Unheard(events') <=> Unheard(events)) /\ \A n : Cancels(events', n) <=> Cancels(events, n)
  BY <1>1, <1>2, <1>4, <1>5, MoreNews
<1>7. SourcesTrue(board', events', sources', serving')
  BY <1>1, <1>2, <1>3, <1>6 DEF SourcesTrue
<1>8. Side'
  BY <1>1, <1>2, <1>3, <1>6, <1>7, SidePartsNext
<1>9. View'
  BY <1>2, <1>3, <1>6, ViewKept DEF ClipboardInv, OwnerLeaves, capture
<1>10. CaptureType' /\ BufferType' /\ StoreType'
  BY DEF OwnerLeaves, ClipboardInv, CaptureType, BufferType, StoreType, capture, buffer, store
<1> QED
  BY <1>8, <1>9, <1>10 DEF ClipboardInv

\* An application pastes from the daemon.
LEMMA AppReadsKeeps == ASSUME ClipboardInv, AppReads PROVE ClipboardInv'
<1> DEFINE e == [kind |-> "send", n |-> board.n, what |-> None]
<1>1. e \in Event /\ ~OwnerNews(e) /\ e.kind # "cancelled"
  BY SideParts DEF ClipboardInv, Event, Kinds, OwnerNews, Boards
<1>2. events' = Append(events, e) /\ UNCHANGED <<board, sources, serving>>
  BY DEF AppReads
<1> HIDE DEF e
<1>3. Side' /\ View'
  BY <1>1, <1>2, NewsAdded DEF ClipboardInv, AppReads, capture
<1>4. CaptureType' /\ BufferType' /\ StoreType'
  BY DEF AppReads, ClipboardInv, CaptureType, BufferType, StoreType, capture, buffer, store
<1> QED
  BY <1>3, <1>4 DEF ClipboardInv

\* Handlers and requests that leave the selection and what is known of it alone.
LEMMA Unmoved ==
  ASSUME ClipboardInv, UNCHANGED <<serve, cap, current, sensitive, named, probe>>,
         CaptureType', BufferType', StoreType'
  PROVE  ClipboardInv'
<1>1. Side' /\ board' = board /\ events' = events
  BY SideKept DEF ClipboardInv
<1>2. View'
  BY <1>1, ViewKept DEF ClipboardInv
<1> QED
  BY <1>1, <1>2 DEF ClipboardInv

\* A window closes; the time for a buffer copy's capture passes.
LEMMA WindowChangeKeeps == ASSUME ClipboardInv, WindowChange \/ HookExpires PROVE ClipboardInv'
<1>1. CaptureType' /\ BufferType' /\ StoreType'
  BY DEF WindowChange, HookExpires, ArmKeepAlive, ClipboardInv, CaptureType, BufferType, StoreType, buffer, store
<1> QED
  BY <1>1, Unmoved DEF WindowChange, HookExpires, serve

-----------------------------------------------------------------------------
(* The daemon takes the news. *)

\* A handler of the Wayland connection takes the first event; any but the end of a
\* source leaves the sources as they are.
LEMMA NewsTaken ==
  ASSUME Side, events # <<>>, events' = Tail(events), UNCHANGED <<board, serving>>,
         sources' \in SUBSET Sources, {s.n : s \in sources'} = {s.n : s \in sources},
         Head(events).kind # "cancelled"
  PROVE  /\ Side' /\ Head(events) \in Event /\ Copied(Head(events))
         /\ Unheard(events) <=> OwnerNews(Head(events)) \/ Unheard(events')
         /\ OwnerNews(Head(events)) /\ ~Unheard(events') => Describes(Head(events), board)
<1>1. /\ board \in Boards /\ events \in Seq(Event) /\ sources \in SUBSET Sources /\ serving \in Nat
      /\ NewsTrue(board, events) /\ SourcesTrue(board, events, sources, serving)
  BY SideParts
<1>2. /\ Head(events) \in Event /\ events' \in Seq(Event) /\ NewsTrue(board', events')
      /\ Copied(Head(events)) /\ \A n : Cancels(events', n) <=> Cancels(events, n)
      /\ Unheard(events) <=> OwnerNews(Head(events)) \/ Unheard(events')
      /\ OwnerNews(Head(events)) /\ ~Unheard(events') => Describes(Head(events), board)
  BY <1>1, TailNews
<1>3. /\ \A s \in sources' : \E r \in sources : r.n = s.n
      /\ \A r \in sources : \E s \in sources' : r.n = s.n
  OBVIOUS
<1>4. SourcesTrue(board', events', sources', serving')
  BY <1>1, <1>2, <1>3 DEF SourcesTrue
<1>5. Side'
  BY <1>1, <1>2, <1>4, SidePartsNext
<1> QED
  BY <1>2, <1>5

\* capture_on_selection: the capture and the current clip are of an older selection,
\* unless the offer just read is the last there is news of.
LEMMA OnSelectionKeeps == ASSUME ClipboardInv, OnSelection PROVE ClipboardInv'
<1> DEFINE e == Head(events)
<1>1. /\ probe = "off" /\ events # <<>> /\ e.kind \in {"none", "app", "us"} /\ events' = Tail(events)
      /\ UNCHANGED <<probe, hook, board, sources, serving, copySlot, copyPrev, pasteClip, pastePrev,
                     restoreTimer, slot, rows, paused, asks, normal>>
  BY DEF OnSelection, Ready, buffer, store
<1>2. Side /\ CaptureType /\ BufferType /\ StoreType /\ View /\ sources \in SUBSET Sources
  BY SideParts DEF ClipboardInv
<1>3. /\ Side' /\ e \in Event /\ Copied(e)
      /\ Unheard(events) <=> OwnerNews(e) \/ Unheard(events')
      /\ OwnerNews(e) /\ ~Unheard(events') => Describes(e, board)
  BY <1>1, <1>2, NewsTaken
<1>4. BufferType' /\ StoreType'
  BY <1>1, <1>2 DEF BufferType, StoreType
<1>5. Wanted(cap') \in BOOLEAN
  BY DEF Wanted
<1>6. CASE /\ e.kind = "none" /\ cap' = Abort(e) /\ ArmKeepAlive(Wanted(cap'))
           /\ UNCHANGED <<current, named, sensitive>>
  <2>1. cap' = NoCapture
    BY <1>6 DEF Abort
  <2>2. keepTimer' \in BOOLEAN /\ recheckTimer' \in BOOLEAN
    BY <1>2, <1>5, <1>6 DEF ArmKeepAlive, CaptureType
  <2>3. CaptureType'
    BY <1>1, <1>2, <1>6, <2>1, <2>2, NoCaptureTyped DEF CaptureType
  <2>4. Unheard(events') <=> Unheard(events)
    BY <1>3, <1>6 DEF OwnerNews
  <2>5. View'
    BY <1>1, <1>2, <1>6, <2>1, <2>4, NoCaptureTyped DEF View, CaptureTrue, CurrentTrue, ProbeTrue
  <2> QED
    BY <1>3, <1>4, <2>3, <2>5 DEF ClipboardInv
<1>7. CASE /\ e.kind = "us" /\ cap' = Abort(e) /\ keepTimer' = FALSE
           /\ UNCHANGED <<current, named, sensitive, recheckTimer>>
  <2>1. cap' = NoCapture
    BY <1>7 DEF Abort
  <2>2. CaptureType'
    BY <1>1, <1>2, <1>7, <2>1, NoCaptureTyped DEF CaptureType
  <2>3. ~Unheard(events') => board.owner = "us"
    BY <1>3, <1>7 DEF OwnerNews, Describes
  <2>4. View'
    BY <1>1, <2>1, <2>3, NoCaptureTyped DEF View, CaptureTrue, CurrentTrue, ProbeTrue
  <2> QED
    BY <1>3, <1>4, <2>2, <2>4 DEF ClipboardInv
<1>8. CASE /\ e.kind = "app" /\ current' = 0 /\ named' = None /\ keepTimer' = FALSE
           /\ sensitive' = (e.what[1] \in Secret)
           /\ \E verdict \in Verdicts, k \in 1..MaxReads :
                cap' = IF sensitive' \/ paused \/ verdict = "leave" THEN Abort(e)
                       ELSE [Abort(e) EXCEPT !.phase = "debounce", !.n = e.n,
                                              !.item = e.what[1], !.left = k]
           /\ UNCHANGED recheckTimer
  <2>1. PICK i \in Item : e.what = <<i, "whole">>
    BY <1>3, <1>8 DEF Copied
  <2>2. e.what[1] = i /\ e.n \in Nat
    BY <1>3, <2>1 DEF Event
  <2>3. PICK k \in 1..MaxReads :
          cap' \in {NoCapture, [NoCapture EXCEPT !.phase = "debounce", !.n = e.n, !.item = i, !.left = k]}
          /\ (i \in Secret => cap' = NoCapture)
    BY <1>8, <2>2 DEF Abort
  <2>4. ~Unheard(events') => board.owner # "us" /\ e.n = board.n /\ board.what = <<i, "whole">>
    BY <1>3, <1>8, <2>1 DEF OwnerNews, Describes
  <2>5. /\ current' \in 0..MaxId /\ sensitive' \in BOOLEAN /\ keepTimer' \in BOOLEAN
        /\ recheckTimer' \in BOOLEAN /\ named' \in Content \cup {None}
        /\ probe' \in {"off", "empty", "occupied"} /\ hook' \in {"off", "armed", "late"}
    <3>1. 0 \in 0..MaxId
      BY ClipboardAssumption
    <3>2. sensitive' \in BOOLEAN
      BY <1>8
    <3> QED
      BY <1>1, <1>2, <1>8, <3>1, <3>2 DEF CaptureType
  <2>6. CASE cap' = NoCapture
    <3>1. CaptureType'
      BY <2>6, <2>5, NoCaptureTyped DEF CaptureType
    <3>2. View'
      BY <1>1, <1>8, <2>6, NoCaptureTyped DEF View, CaptureTrue, CurrentTrue, ProbeTrue
    <3> QED
      BY <1>3, <1>4, <3>1, <3>2 DEF ClipboardInv
  <2>7. CASE cap' # NoCapture
    <3>1. cap' = [NoCapture EXCEPT !.phase = "debounce", !.n = e.n, !.item = i, !.left = k] /\ i \notin Secret
      BY <2>3, <2>7
    <3>2. k \in 0..MaxReads /\ k > 0
      BY ClipboardAssumption
    <3>3. cap' \in Captures /\ cap'.n = e.n /\ cap'.item = i /\ cap'.left = k
      BY <2>2, <3>1, <3>2, NoCaptureTyped DEF Captures
    <3>4. CaptureType'
      BY <2>5, <3>2, <3>3 DEF CaptureType
    <3>5. View'
      BY <1>1, <1>8, <2>4, <3>1, <3>3 DEF View, CaptureTrue, CurrentTrue, ProbeTrue
    <3> QED
      BY <1>3, <1>4, <3>4, <3>5 DEF ClipboardInv
  <2> QED
    BY <2>6, <2>7
<1> QED
  BY <1>6, <1>7, <1>8 DEF OnSelection

\* source_free: the source whose end came is forgotten, and no other.
LEMMA OnCancelledKeeps == ASSUME ClipboardInv, OnCancelled PROVE ClipboardInv'
<1> DEFINE e == Head(events)
<1>1. /\ events # <<>> /\ e.kind = "cancelled" /\ events' = Tail(events)
      /\ sources' = {s \in sources : s.n # e.n}
      /\ serving' = IF serving = e.n THEN 0 ELSE serving
      /\ UNCHANGED <<board, cap, current, sensitive, named, probe>>
  BY DEF OnCancelled, capture
<1>2. /\ board \in Boards /\ events \in Seq(Event) /\ sources \in SUBSET Sources /\ serving \in Nat
      /\ NewsTrue(board, events) /\ SourcesTrue(board, events, sources, serving)
  BY SideParts DEF ClipboardInv
<1>3. /\ e \in Event /\ events' \in Seq(Event) /\ NewsTrue(board', events')
      /\ \A n : Cancels(events, n) <=> e.n = n \/ Cancels(events', n)
      /\ Unheard(events) <=> OwnerNews(e) \/ Unheard(events')
  BY <1>1, <1>2, TailNews
<1>4. ~OwnerNews(e)
  BY <1>1 DEF OwnerNews
<1>5. e.n \in Nat /\ \A s \in sources : s.n \in Nat
  BY <1>2, <1>3 DEF Event, Sources
<1> HIDE DEF e
<1>6. SourcesTrue(board', events', sources', serving')
  BY <1>1, <1>2, <1>3, <1>5 DEF SourcesTrue, Boards
<1>7. Side'
  BY <1>1, <1>2, <1>3, <1>6, SidePartsNext
<1>8. View'
  BY <1>1, <1>3, <1>4, ViewKept DEF ClipboardInv
<1>9. CaptureType' /\ BufferType' /\ StoreType'
  BY DEF OnCancelled, ClipboardInv, CaptureType, BufferType, StoreType, capture, buffer, store
<1> QED
  BY <1>7, <1>8, <1>9 DEF ClipboardInv

\* on_send: the data goes out; the source stays.
LEMMA OnSendKeeps == ASSUME ClipboardInv, OnSend PROVE ClipboardInv'
<1> DEFINE e == Head(events)
           read(s) == [s EXCEPT !.cb = @ /\ s.n # e.n]
<1>1. /\ events # <<>> /\ e.kind = "send" /\ events' = Tail(events)
      /\ sources' = {read(s) : s \in sources}
      /\ UNCHANGED <<board, serving, cap, current, sensitive, named, probe>>
  BY DEF OnSend, capture
<1>2. Side /\ View /\ sources \in SUBSET Sources
  BY SideParts DEF ClipboardInv
<1>3. \A s \in sources : read(s) \in Sources /\ read(s).n = s.n
  BY <1>2 DEF Sources
<1>4. sources' \in SUBSET Sources /\ {s.n : s \in sources'} = {s.n : s \in sources}
  <2> HIDE DEF read
  <2> QED
    BY <1>1, <1>3
<1>5. Side' /\ (Unheard(events) <=> OwnerNews(e) \/ Unheard(events'))
  BY <1>1, <1>2, <1>4, NewsTaken
<1>6. ~OwnerNews(e)
  BY <1>1 DEF OwnerNews
<1>7. View'
  BY <1>1, <1>2, <1>5, <1>6, ViewKept
<1>8. CaptureType' /\ BufferType' /\ StoreType'
  BY DEF OnSend, ClipboardInv, CaptureType, BufferType, StoreType, capture, store
<1> QED
  BY <1>5, <1>7, <1>8 DEF ClipboardInv

-----------------------------------------------------------------------------
(* Capturing. *)

\* wl_offer_receive reads on from the same offer.
LEMMA Receives ==
  ASSUME NEW c \in Captures
  PROVE  /\ Receive(c) \in Captures /\ Receive(c).phase = "reading"
         /\ Receive(c).n = c.n /\ Receive(c).item = c.item /\ Receive(c).left = c.left
  BY DEF Receive, Captures

\* The debounce ran out.
LEMMA OnDebouncedKeeps == ASSUME ClipboardInv, OnDebounced PROVE ClipboardInv'
<1> DEFINE c == [cap EXCEPT !.whole = TRUE]
<1>1. /\ cap.phase = "debounce" /\ cap' = Receive(c) /\ UNCHANGED serve
      /\ UNCHANGED <<current, sensitive, keepTimer, recheckTimer, probe, hook, named, buffer, store>>
  BY DEF OnDebounced
<1>2. Side /\ CaptureType /\ BufferType /\ StoreType /\ View
  BY DEF ClipboardInv
<1>3. c \in Captures /\ c.n = cap.n /\ c.item = cap.item /\ c.left = cap.left
  BY <1>2 DEF CaptureType, Captures
<1> HIDE DEF c
<1>4. cap' \in Captures /\ cap'.n = cap.n /\ cap'.item = cap.item /\ cap'.left = cap.left
  BY <1>1, <1>3, Receives
<1>5. CaptureType'
  BY <1>1, <1>2, <1>4 DEF CaptureType
<1>6. BufferType' /\ StoreType'
  BY <1>1, <1>2 DEF BufferType, StoreType, buffer, store
<1>7. Side' /\ board' = board /\ events' = events
  BY <1>1, <1>2, SideKept
<1>8. View'
  BY <1>1, <1>2, <1>4, <1>7 DEF View, CaptureTrue, CurrentTrue, ProbeTrue
<1> QED
  BY <1>5, <1>6, <1>7, <1>8 DEF ClipboardInv

\* db_add_clip writes a row of the table.
LEMMA StoredInTable == ASSUME NEW what PROVE StoredAs(what) \subseteq Id
  BY DEF StoredAs, FreshIds

\* A copy that is stored: the clipboard goes back to what it was before a buffer copy,
\* or the stored clip is what the selection holds.
LEMMA Copies ==
  ASSUME ClipboardInv, cap.phase # "idle", probe = "off", UNCHANGED probe,
         NEW what \in Content, what[1] = cap.item, NEW id \in Id, rows' = [rows EXCEPT ![id] = what],
         NEW clip, NEW w, \/ clip = 0 /\ w = None
                          \/ clip = id /\ w = what /\ what[2] \in {"whole", "cut"},
         cap' = NoCapture, OnCopied(id, clip, w)
  PROVE  /\ Side' /\ View'
         /\ current' \in 0..MaxId /\ sensitive' = FALSE /\ named' \in Content \cup {None}
         /\ copySlot' \in BOOLEAN /\ slot' \in 0..MaxId /\ normal' \in Content \cup {None}
<1> DEFINE mine == hook = "armed" /\ copySlot
           back == mine /\ copyPrev \notin {0, id} /\ rows'[copyPrev] # None
<1>1. Side /\ CaptureType /\ BufferType /\ StoreType /\ View
  BY DEF ClipboardInv
<1>2. /\ copySlot' = (copySlot /\ ~mine)
      /\ slot' = IF mine THEN id ELSE slot
      /\ normal' = IF mine THEN normal ELSE w
      /\ IF back THEN Own(copyPrev, rows'[copyPrev]) ELSE SetCurrent(clip, w) /\ UNCHANGED serve
  BY DEF OnCopied
<1>3. id \in 0..MaxId /\ 0 \in 0..MaxId
  BY ClipboardAssumption DEF Id
<1>4. w \in Content \cup {None} /\ clip \in 0..MaxId
  BY <1>3
<1>5. /\ copySlot' \in BOOLEAN /\ slot' \in 0..MaxId /\ normal' \in Content \cup {None}
  <2>1. copySlot' \in BOOLEAN
    BY <1>2
  <2> QED
    BY <1>1, <1>2, <1>3, <1>4, <2>1 DEF BufferType, StoreType
<1>6. CASE back
  <2>1. copyPrev \in Id /\ rows'[copyPrev] \in Content
    BY <1>1, <1>6, ClipboardAssumption DEF BufferType, StoreType, Id
  <2>2. copyPrev \in 0..MaxId /\ Own(copyPrev, rows'[copyPrev])
    BY <1>1, <1>2, <1>6 DEF BufferType
  <2>3. /\ Side' /\ Unheard(events')
        /\ current' = copyPrev /\ sensitive' = FALSE /\ named' = rows'[copyPrev]
    BY <1>1, <2>1, <2>2, OwnSide
  <2> QED
    BY <1>5, <2>1, <2>2, <2>3, ViewUnheard
<1>7. CASE ~back
  <2>1. SetCurrent(clip, w) /\ UNCHANGED serve
    BY <1>2, <1>7
  <2>2. Side' /\ board' = board /\ events' = events
    BY <1>1, <2>1, SideKept
  <2>3. current' = clip /\ sensitive' = FALSE /\ named' = w
    BY <2>1 DEF SetCurrent
  <2>4. CurrentTrue'
    <3> SUFFICES ASSUME current' # 0, ~Unheard(events'), board'.owner # "us"
                 PROVE \E i \in Item \ Secret :
                         board'.what = <<i, "whole">> /\ named' \in {<<i, "whole">>, <<i, "cut">>}
      BY DEF CurrentTrue
    <3>1. w = what /\ what[2] \in {"whole", "cut"}
      BY <2>3
    <3>2. what = <<cap.item, what[2]>>
      BY DEF Content
    <3>3. board.what = <<cap.item, "whole">> /\ cap.item \in Item \ Secret
      BY <1>1, <2>2 DEF View, CaptureTrue, CaptureType
    <3> QED
      BY <2>2, <2>3, <3>1, <3>2, <3>3
  <2>5. View'
    BY <2>4, NoCaptureTyped DEF View, CaptureTrue, ProbeTrue
  <2> QED
    BY <1>4, <1>5, <2>2, <2>3, <2>5
<1> QED
  BY <1>6, <1>7

\* end_format: the next format is of the same offer, and what is stored at the end is
\* what it held, some formats dropped, or a script's text that is no one's.
LEMMA FormatEndsKeeps == ASSUME ClipboardInv, NEW kept \in BOOLEAN, FormatEnds(kept) PROVE ClipboardInv'
<1> DEFINE c == [cap EXCEPT !.left = @ - 1, !.some = @ \/ kept, !.whole = @ /\ kept]
           d == [c EXCEPT !.whole = @ /\ c.left = 0]
<1>1. /\ probe = "off" /\ cap.phase = "reading"
      /\ UNCHANGED <<keepTimer, recheckTimer, probe, copyPrev, pasteClip, pastePrev,
                     restoreTimer, paused, asks>>
  BY DEF FormatEnds, Ready
<1>2. \/ /\ c.left > 0 /\ cap' = Receive(c)
         /\ UNCHANGED <<current, named, sensitive, hook, serve, copySlot, slot, rows, normal>>
      \/ Finish(d)
  BY DEF FormatEnds
<1>3. Side /\ CaptureType /\ BufferType /\ StoreType /\ View
  BY DEF ClipboardInv
<1>4. cap \in Captures /\ cap.item \in Item /\ cap.left \in 1..MaxReads /\ cap.left - 1 \in 0..MaxReads
  BY <1>1, <1>3, ClipboardAssumption DEF CaptureType, Captures
<1>5. c \in Captures /\ c.n = cap.n /\ c.item = cap.item
  BY <1>4 DEF Captures
<1>6. d \in Captures /\ d.item = cap.item
  <2> HIDE DEF c
  <2> QED
    BY <1>5 DEF Captures
<1> HIDE DEF c, d
<1>7. CASE /\ c.left > 0 /\ cap' = Receive(c)
           /\ UNCHANGED <<current, named, sensitive, hook, serve, copySlot, slot, rows, normal>>
  <2>1. /\ cap' \in Captures /\ cap'.n = cap.n /\ cap'.item = cap.item /\ cap'.left > 0
    BY <1>5, <1>7, Receives
  <2>2. CaptureType' /\ BufferType' /\ StoreType'
    BY <1>1, <1>3, <1>4, <1>7, <2>1 DEF CaptureType, BufferType, StoreType
  <2>3. Side' /\ board' = board /\ events' = events
    BY <1>3, <1>7, SideKept
  <2>4. View'
    BY <1>1, <1>3, <1>7, <2>1, <2>3 DEF View, CaptureTrue, CurrentTrue, ProbeTrue
  <2> QED
    BY <2>2, <2>3, <2>4 DEF ClipboardInv
<1>8. CASE Unstored
  <2>1. /\ cap' = NoCapture /\ UNCHANGED serve
        /\ UNCHANGED <<current, named, sensitive, hook, copySlot, slot, rows, normal>>
    BY <1>8 DEF Unstored
  <2>2. CaptureType' /\ BufferType' /\ StoreType'
    BY <1>1, <1>3, <2>1, NoCaptureTyped DEF CaptureType, BufferType, StoreType
  <2>3. Side' /\ board' = board /\ events' = events
    BY <1>3, <2>1, SideKept
  <2>4. View'
    BY <1>1, <1>3, <2>1, <2>3, NoCaptureTyped DEF View, CaptureTrue, CurrentTrue, ProbeTrue
  <2> QED
    BY <2>2, <2>3, <2>4 DEF ClipboardInv
<1>9. ASSUME NEW how \in Scripts \ {"skip"}, NEW what,
             what = <<d.item, IF how = "rewrite" THEN "edited" ELSE IF d.whole THEN "whole" ELSE "cut">>,
             NEW id \in StoredAs(what), rows' = [rows EXCEPT ![id] = what],
             IF how = "rewrite" THEN OnCopied(id, 0, None) ELSE OnCopied(id, id, what),
             hook' = "off", cap' = NoCapture
      PROVE  ClipboardInv'
  <2>1. what \in Content /\ what[1] = cap.item /\ (how # "rewrite" => what[2] \in {"whole", "cut"})
    BY <1>4, <1>6, <1>9 DEF Content
  <2>2. id \in Id
    BY StoredInTable
  <2>3. /\ Side' /\ View'
        /\ current' \in 0..MaxId /\ sensitive' = FALSE /\ named' \in Content \cup {None}
        /\ copySlot' \in BOOLEAN /\ slot' \in 0..MaxId /\ normal' \in Content \cup {None}
    <3>1. CASE how = "rewrite"
      BY <1>1, <1>9, <2>1, <2>2, <3>1, Copies
    <3>2. CASE how # "rewrite"
      BY <1>1, <1>9, <2>1, <2>2, <3>2, Copies
    <3> QED
      BY <3>1, <3>2
  <2>4. CaptureType'
    BY <1>1, <1>3, <1>9, <2>3, NoCaptureTyped DEF CaptureType
  <2>5. BufferType'
    BY <1>1, <1>3, <2>3 DEF BufferType
  <2>6. StoreType'
    BY <1>1, <1>3, <1>9, <2>1, <2>3 DEF StoreType
  <2> QED
    BY <2>3, <2>4, <2>5, <2>6 DEF ClipboardInv
<1> QED
  BY <1>2, <1>7, <1>8, <1>9 DEF Finish

-----------------------------------------------------------------------------
(* The keep-alive. *)

\* wl_probe_selection says "empty" only when the compositor says there is no owner.
LEMMA ProbeSays ==
  ASSUME ClipboardInv, Probe, UNCHANGED <<serve, cap, current, sensitive, named>>
  PROVE  Side' /\ View' /\ probe' \in {"off", "empty", "occupied"}
<1>1. Side /\ View /\ probe \in {"off", "empty", "occupied"}
  BY DEF ClipboardInv, CaptureType
<1>2. Side' /\ board' = board /\ events' = events
  BY <1>1, SideKept
<1>3. probe' = probe \/ probe' = "occupied" \/ (probe' = "empty" /\ board.owner = "none")
  BY DEF Probe
<1> QED
  BY <1>1, <1>2, <1>3 DEF View, CaptureTrue, CurrentTrue, ProbeTrue

\* on_keepalive and its later check.
LEMMA OnKeepAliveKeeps == ASSUME ClipboardInv, OnKeepAlive \/ OnRecheck PROVE ClipboardInv'
<1>1. Side' /\ View' /\ probe' \in {"off", "empty", "occupied"}
  BY ProbeSays DEF OnKeepAlive, OnRecheck
<1>2. CaptureType' /\ BufferType' /\ StoreType'
  BY <1>1 DEF OnKeepAlive, OnRecheck, ClipboardInv, CaptureType, BufferType, StoreType, buffer, store
<1> QED
  BY <1>1, <1>2 DEF ClipboardInv

\* Owning the clipboard with a stored clip (own, serve.c), the rest left alone.
LEMMA OwnKeeps ==
  ASSUME ClipboardInv, NEW clip \in 0..MaxId, NEW what \in Content, Own(clip, what),
         UNCHANGED <<cap, keepTimer, recheckTimer, hook>>, probe' \in {probe, "off"},
         BufferType', StoreType'
  PROVE  ClipboardInv'
<1>1. Side /\ CaptureType
  BY DEF ClipboardInv
<1>2. /\ Side' /\ Unheard(events')
      /\ current' = clip /\ sensitive' = FALSE /\ named' = what
  BY <1>1, OwnSide
<1>3. CaptureType'
  BY <1>1, <1>2 DEF CaptureType
<1> QED
  BY <1>2, <1>3, ViewUnheard DEF ClipboardInv

\* The answer of the probe is acted on.
LEMMA OnProbeKeeps == ASSUME ClipboardInv, OnProbe PROVE ClipboardInv'
<1>1. /\ probe' = "off" /\ UNCHANGED <<cap, keepTimer, recheckTimer, hook, buffer, store>>
      /\ CaptureType /\ BufferType /\ StoreType
  BY DEF OnProbe, ClipboardInv
<1>2. BufferType' /\ StoreType'
  BY <1>1 DEF BufferType, StoreType, buffer, store
<1>3. CASE Exists(current) /\ Own(current, rows[current])
  BY <1>1, <1>2, <1>3, RowContent, OwnKeeps DEF CaptureType
<1>4. CASE UNCHANGED <<current, sensitive, named, serve>>
  <2>1. Side' /\ board' = board /\ events' = events
    BY <1>4, SideKept DEF ClipboardInv
  <2>2. View'
    BY <1>1, <1>4, <2>1 DEF ClipboardInv, View, CaptureTrue, CurrentTrue, ProbeTrue
  <2>3. CaptureType'
    BY <1>1, <1>4 DEF CaptureType
  <2> QED
    BY <1>2, <2>1, <2>2, <2>3 DEF ClipboardInv
<1> QED
  BY <1>3, <1>4 DEF OnProbe

-----------------------------------------------------------------------------
(* The copy buffers. *)

\* restore: the clip from before a buffer paste is put back, or nothing is.
LEMMA OnRestoreKeeps == ASSUME ClipboardInv, OnRestore PROVE ClipboardInv'
<1>1. /\ restoreTimer' = FALSE /\ pasteClip' = 0 /\ pastePrev' = 0
      /\ UNCHANGED <<cap, keepTimer, recheckTimer, probe, hook, copySlot, copyPrev, store>>
      /\ CaptureType /\ BufferType /\ StoreType
  BY DEF OnRestore, ClipboardInv
<1>2. 0 \in 0..MaxId
  BY ClipboardAssumption
<1>3. BufferType' /\ StoreType'
  BY <1>1, <1>2 DEF BufferType, StoreType, store
<1>4. CASE Restores /\ Own(pastePrev, rows[pastePrev])
  <2>1. pastePrev \in 0..MaxId /\ Exists(pastePrev)
    BY <1>1, <1>4 DEF BufferType, Restores
  <2>2. rows[pastePrev] \in Content
    BY <1>1, <2>1, RowContent
  <2> QED
    BY <1>1, <1>3, <1>4, <2>1, <2>2, OwnKeeps
<1>5. CASE UNCHANGED <<current, sensitive, named, serve>>
  <2>1. CaptureType'
    BY <1>1, <1>5 DEF CaptureType
  <2> QED
    BY <1>1, <1>3, <1>5, <2>1, Unmoved
<1> QED
  BY <1>4, <1>5 DEF OnRestore

\* A request is counted.
LEMMA Asked == ASSUME asks \in 0..MaxAsks, Ask PROVE asks' \in 0..MaxAsks
  BY ClipboardAssumption DEF Ask

\* buffers_copy.
LEMMA BufferCopyKeeps == ASSUME ClipboardInv, BufferCopy PROVE ClipboardInv'
<1>1. CaptureType /\ BufferType /\ StoreType
  BY DEF ClipboardInv
<1>2. CurrentClip \in 0..MaxId
  BY <1>1, ClipboardAssumption DEF CurrentClip, CaptureType
<1>3. asks' \in 0..MaxAsks
  BY <1>1, Asked DEF BufferCopy, StoreType
<1>4. CaptureType' /\ BufferType' /\ StoreType'
  BY <1>1, <1>2, <1>3 DEF BufferCopy, CaptureType, BufferType, StoreType
<1> QED
  BY <1>4, Unmoved DEF BufferCopy

\* buffers_paste: an earlier paste's restore comes first, then the buffer's clip.
LEMMA BufferPasteKeeps == ASSUME ClipboardInv, BufferPaste PROVE ClipboardInv'
<1> DEFINE early == restoreTimer /\ Restores
           x == IF early THEN Owning(Selection, pastePrev, rows[pastePrev], FALSE) ELSE Selection
           prev == IF early THEN pastePrev ELSE CurrentClip
           y == Owning(x, slot, rows[slot], TRUE)
<1>1. Side /\ CaptureType /\ BufferType /\ StoreType
  BY DEF ClipboardInv
<1>2. /\ Ask /\ Exists(slot) /\ Select(y) /\ SetCurrent(slot, rows[slot])
      /\ pasteClip' = slot /\ pastePrev' = IF prev = slot THEN 0 ELSE prev
      /\ restoreTimer' = TRUE
      /\ UNCHANGED <<cap, keepTimer, recheckTimer, probe, hook, copySlot, copyPrev,
                     slot, rows, paused, normal>>
  BY DEF BufferPaste
<1>3. slot \in 0..MaxId /\ rows[slot] \in Content
  BY <1>1, <1>2, RowContent DEF BufferType
<1>4. early => pastePrev \in 0..MaxId /\ rows[pastePrev] \in Content
  BY <1>1, RowContent DEF BufferType, Restores
<1>5. x \in Clipboards /\ True(x)
  BY <1>1, <1>4, OwnedTrue DEF Side
<1>6. prev \in 0..MaxId /\ 0 \in 0..MaxId
  BY <1>1, <1>4, ClipboardAssumption DEF CurrentClip, CaptureType
<1> HIDE DEF x, prev
<1>7. y \in Clipboards /\ True(y) /\ Unheard(y.events)
  BY <1>3, <1>5, OwnedTrue
<1> HIDE DEF y
<1>8. Side' /\ Unheard(events')
  BY <1>2, <1>7, SidePartsNext DEF Select, Clipboards, True
<1>9. current' = slot /\ sensitive' = FALSE /\ named' = rows[slot]
  BY <1>2 DEF SetCurrent
<1>10. CaptureType'
  BY <1>1, <1>2, <1>3, <1>9 DEF CaptureType
<1>11. BufferType'
  BY <1>1, <1>2, <1>3, <1>6 DEF BufferType
<1>12. StoreType'
  BY <1>1, <1>2, Asked DEF StoreType
<1> QED
  BY <1>8, <1>10, <1>11, <1>12, ViewUnheard DEF ClipboardInv

-----------------------------------------------------------------------------
(* The other requests. *)

\* paste_run of one clip, as it is or changed.
LEMMA PasteKeeps ==
  ASSUME ClipboardInv, NEW id \in Id, NEW how \in {"stored", "plain", "edited"}, Paste(id, how)
  PROVE  ClipboardInv'
<1> DEFINE text == IF rows[id][2] = "edited" THEN "edited" ELSE "cut"
           what == CASE how = "stored" -> rows[id]
                     [] how = "plain"  -> <<rows[id][1], text>>
                     [] how = "edited" -> <<rows[id][1], "edited">>
<1>1. CaptureType /\ BufferType /\ StoreType
  BY DEF ClipboardInv
<1>2. /\ Ask /\ Exists(id) /\ Own(id, what) /\ normal' = what
      /\ UNCHANGED <<cap, keepTimer, recheckTimer, probe, hook, buffer, slot, rows, paused>>
  BY DEF Paste
<1>3. id \in 0..MaxId /\ rows[id] \in Content
  BY <1>1, <1>2, RowContent, ClipboardAssumption DEF Id
<1>4. what \in Content
  BY <1>3 DEF Content
<1> HIDE DEF what
<1>5. BufferType' /\ StoreType'
  BY <1>1, <1>2, <1>4, Asked DEF BufferType, StoreType, buffer
<1> QED
  BY <1>2, <1>3, <1>4, <1>5, OwnKeeps

\* paste_run of several clips.
LEMMA PasteJoinedKeeps == ASSUME ClipboardInv, PasteJoined PROVE ClipboardInv'
<1> DEFINE what == <<CHOOSE i \in Item : TRUE, "edited">>
<1>1. CaptureType /\ BufferType /\ StoreType
  BY DEF ClipboardInv
<1>2. /\ Ask /\ Own(0, what) /\ normal' = what /\ Cardinality({i \in Id : Exists(i)}) > 1
      /\ UNCHANGED <<cap, keepTimer, recheckTimer, probe, hook, buffer, slot, rows, paused>>
  BY DEF PasteJoined
<1>3. PICK i \in Id : Exists(i)
  <2>1. {i \in Id : Exists(i)} # {}
    BY <1>2, FS_EmptySet
  <2> QED
    BY <2>1
<1>4. what \in Content /\ 0 \in 0..MaxId
  <2>1. i \in 0..MaxId /\ 0 \in 0..MaxId
    BY ClipboardAssumption DEF Id
  <2>2. rows[i] \in Content
    BY <1>1, <1>3, <2>1, RowContent
  <2>3. (CHOOSE j \in Item : TRUE) \in Item
    BY <2>2 DEF Content
  <2> QED
    BY <2>1, <2>3 DEF Content
<1> HIDE DEF what
<1>5. BufferType' /\ StoreType'
  BY <1>1, <1>2, <1>4, Asked DEF BufferType, StoreType, buffer
<1> QED
  BY <1>2, <1>4, <1>5, OwnKeeps

\* Pausing, deleting and creating clips: the clipboard is not touched.
LEMMA TableRequestKeeps ==
  ASSUME ClipboardInv,
         \/ SetPaused
         \/ \E id \in Id : Delete(id)
         \/ \E i \in Item : Create(<<i, "edited">>)
  PROVE  ClipboardInv'
<1>1. CaptureType /\ BufferType /\ StoreType
  BY DEF ClipboardInv
<1>2. UNCHANGED capture /\ UNCHANGED serve /\ UNCHANGED buffer /\ Ask /\ normal' = normal
  BY DEF SetPaused, Delete, Create
<1>3. asks' \in 0..MaxAsks
  BY <1>1, <1>2, Asked DEF StoreType
<1>4. CaptureType' /\ UNCHANGED <<copySlot, copyPrev, pasteClip, pastePrev, restoreTimer>>
  BY <1>1, <1>2 DEF CaptureType, capture, buffer
<1>5. BufferType' /\ StoreType'
  <2>1. CASE SetPaused
    BY <1>1, <1>2, <1>3, <1>4, <2>1 DEF SetPaused, BufferType, StoreType
  <2>2. ASSUME NEW id \in Id, Delete(id) PROVE BufferType' /\ StoreType'
    <3>1. 0 \in 0..MaxId
      BY ClipboardAssumption
    <3> QED
      BY <1>1, <1>2, <1>3, <1>4, <2>2, <3>1 DEF Delete, BufferType, StoreType
  <2>3. ASSUME NEW i \in Item, Create(<<i, "edited">>) PROVE BufferType' /\ StoreType'
    <3>1. <<i, "edited">> \in Content
      BY DEF Content
    <3>2. PICK id \in Id : rows' = [rows EXCEPT ![id] = <<i, "edited">>]
      BY <2>3, StoredInTable DEF Create
    <3> QED
      BY <1>1, <1>2, <1>3, <1>4, <2>3, <3>1, <3>2 DEF Create, BufferType, StoreType
  <2> QED
    BY <2>1, <2>2, <2>3
<1> QED
  BY <1>2, <1>4, <1>5, Unmoved DEF capture

-----------------------------------------------------------------------------
(* The theorems. *)

\* A step, by its actions.
LEMMA InvStep == ClipboardInv /\ [Next]_vars => ClipboardInv'
<1> SUFFICES ASSUME ClipboardInv, [Next]_vars PROVE ClipboardInv'
  OBVIOUS
<1>1. CASE Others
  BY <1>1, AppCopyKeeps, OwnerLeavesKeeps, AppReadsKeeps, WindowChangeKeeps DEF Others
<1>2. CASE OnSelection \/ OnCancelled \/ OnSend
  BY <1>2, OnSelectionKeeps, OnCancelledKeeps, OnSendKeeps
<1>3. CASE OnDebounced \/ \E kept \in BOOLEAN : FormatEnds(kept)
  BY <1>3, OnDebouncedKeeps, FormatEndsKeeps
<1>4. CASE OnKeepAlive \/ OnRecheck \/ OnProbe \/ OnRestore
  BY <1>4, OnKeepAliveKeeps, OnProbeKeeps, OnRestoreKeeps
<1>5. CASE BufferCopy \/ BufferPaste \/ PasteJoined
  BY <1>5, BufferCopyKeeps, BufferPasteKeeps, PasteJoinedKeeps
<1>6. CASE \E id \in Id, how \in {"stored", "plain", "edited"} : Paste(id, how)
  BY <1>6, PasteKeeps
<1>7. CASE SetPaused \/ (\E id \in Id : Delete(id)) \/ \E i \in Item : Create(<<i, "edited">>)
  BY <1>7, TableRequestKeeps
<1>8. CASE UNCHANGED vars
  <2>1. UNCHANGED <<capture, serve, buffer, store>>
    BY <1>8 DEF vars
  <2>2. CaptureType' /\ BufferType' /\ StoreType'
    BY <2>1 DEF ClipboardInv, CaptureType, BufferType, StoreType, capture, buffer, store
  <2> QED
    BY <2>1, <2>2, Unmoved DEF capture
<1> QED
  BY <1>1, <1>2, <1>3, <1>4, <1>5, <1>6, <1>7, <1>8 DEF Next, Daemon, Client

\* The invariant.
THEOREM ClipboardInvariant == Spec => []ClipboardInv
  BY InvInit, InvStep, PTL DEF Spec

\* serve.current is NULL or a source that was not freed; every field has its type.
THEOREM ClipboardTyped == Spec => []TypeOK
  BY ClipboardInvariant, InvTyped, PTL

\* Once the news is read serve.c has the source of the selection it owns, and no
\* other (source_free).
THEOREM SourcesSettled == Spec => []SourcesSettle
<1>1. ClipboardInv => SourcesSettle
  <2> SUFFICES ASSUME ClipboardInv, events = <<>> PROVE SourcesSettle
    BY DEF SourcesSettle
  <2>1. /\ board \in Boards /\ sources \in SUBSET Sources /\ SourcesTrue(board, events, sources, serving)
    BY SideParts DEF ClipboardInv
  <2>2. \A n : ~Cancels(events, n)
    BY DEF Cancels
  <2> QED
    BY <2>1, <2>2 DEF SourcesTrue, SourcesSettle
<1> QED
  BY <1>1, ClipboardInvariant, PTL

\* Once the news is read, a capture under way is of the selection there is
\* (abort_current).
THEOREM CaptureOfBoard == Spec => []CaptureIsOfBoard
<1>1. ClipboardInv => CaptureIsOfBoard
  BY DEF ClipboardInv, View, CaptureTrue, Unheard, CaptureIsOfBoard
<1> QED
  BY <1>1, ClipboardInvariant, PTL

\* capture.current_clip names what is on the clipboard, or was when its owner left.
THEOREM CurrentIsNamed == Spec => []CurrentNamesBoard
<1>1. ClipboardInv => CurrentNamesBoard
  BY DEF ClipboardInv, View, CurrentTrue, Unheard, CurrentNamesBoard, CurrentClip, Quiet
<1> QED
  BY <1>1, ClipboardInvariant, PTL

\* The keep-alive takes the clipboard from no one it has heard of, and brings back no
\* secret (on_keepalive).
THEOREM KeepAliveIsHonest == Spec => KeepAliveHonest
<1> DEFINE Honest == probe = "empty" /\ events = <<>> /\ serving' # serving =>
                       board.owner = "none" /\ board.what[1] \notin Secret
<1>1. ClipboardInv /\ [Next]_vars => [Honest]_vars
  <2> SUFFICES ASSUME ClipboardInv, [Next]_vars, probe = "empty", events = <<>>, serving' # serving
               PROVE  board.owner = "none" /\ board.what[1] \notin Secret
    OBVIOUS
  <2>1. ~Unheard(events) /\ ~Ready
    BY DEF Unheard, Ready
  <2>2. board.owner = "none"
    BY <2>1 DEF ClipboardInv, View, ProbeTrue
  <2>3. Wanted(cap)
    BY <2>1, <2>2 DEF Next, Others, Daemon, Client, OnProbe, OnSelection, OnCancelled, OnSend,
       OnDebounced, FormatEnds, OnKeepAlive, OnRecheck, OnRestore, BufferCopy, BufferPaste, PasteJoined,
       SetPaused, Delete, Paste, Create, AppCopy, OwnerLeaves, AppReads, WindowChange, HookExpires,
       vars, serve
  <2>4. \E i \in Item \ Secret : board.what = <<i, "whole">>
    BY <2>1, <2>2, <2>3 DEF ClipboardInv, View, CurrentTrue, Wanted
  <2> QED
    BY <2>2, <2>4
<1> QED
  BY <1>1, ClipboardInvariant, PTL DEF Spec, KeepAliveHonest
=============================================================================
