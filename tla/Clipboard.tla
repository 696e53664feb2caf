----------------------------- MODULE Clipboard -----------------------------
(***************************************************************************)
(* The clipboard side of clipnetd: capture.c reads what applications copy, *)
(* serve.c owns the clipboard with stored clips, the keep-alive puts a     *)
(* clip back when its owner left, buffers.c borrows the clipboard for the  *)
(* copy buffers, paste.c puts a clip or a changed text on it.              *)
(*                                                                         *)
(* The compositor holds the one true selection (`board`) and tells the     *)
(* daemon about it through a socket (`events`), so the daemon acts on old  *)
(* news.  The daemon is single-threaded: each action below is one handler, *)
(* run to its end.  Time is abstract: an armed timer may fire at any       *)
(* moment, in the order the code's delays force.                           *)
(***************************************************************************)
EXTENDS Integers, Sequences, FiniteSets

CONSTANTS
  Item,        \* what applications copy
  Secret,      \* items offered with the password-manager hint
  Verdicts,    \* what the rules say of an offer: "take", "leave"
  Scripts,     \* what on_copy scripts decide: "store", "skip", "rewrite"
  Requests,    \* the client requests of this instance
  FirstRows,   \* clips in the history when the daemon starts
  FirstSlot,   \* the clip in the copy buffer then, 0 for none
  None,        \* no row, no content
  Calm,        \* nobody acts while news or a capture is under way
  Slow,        \* the compositor may leave a probe unanswered
  MaxId,       \* bound: row ids
  MaxSets,     \* bound: selections set, after which applications copy no more
  MaxAsks,     \* bound: client requests
  MaxReads     \* bound: formats read from one offer

Id == 1..MaxId

\* A content is an item as copied, with some formats dropped, or with changed text.
Content == Item \X {"whole", "cut", "edited"}

ASSUME ClipboardAssumption ==
  /\ Secret \subseteq Item /\ None \notin Content
  /\ MaxId \in Nat /\ MaxSets \in Nat /\ MaxAsks \in Nat /\ MaxReads \in Nat \ {0}
  /\ FirstRows \in Seq(Content) /\ Len(FirstRows) <= MaxId
  /\ FirstSlot \in 0..Len(FirstRows) /\ {Calm, Slow} \subseteq BOOLEAN

VARIABLES
  board,        \* compositor: the selection's owner, its number and its content
  events,       \* compositor -> daemon, in order
  cap,          \* capture: the offer being read, if any
  current,      \* capture.current_clip
  sensitive,    \* capture.sensitive
  keepTimer,    \* capture.keepalive_timer is armed
  recheckTimer, \* capture.recheck_timer is armed
  probe,        \* the blocking probe: "off", or the answer it got
  hook,         \* capture.hook: "off", "armed", or "late" when past its deadline
  sources,      \* serve: data sources not yet freed, with their clip and read_cb
  serving,      \* serve.current, the number of its selection; 0 for NULL
  copySlot,     \* buffers.copy_slot is set
  copyPrev,     \* buffers.copy_prev
  pasteClip,    \* buffers.paste_clip
  pastePrev,    \* buffers.paste_prev
  restoreTimer, \* buffers.restore_timer is armed
  slot,         \* table copy_buffers, one slot; 0 for NULL
  rows,         \* table clips: the content of each row
  paused,       \* setting paused
  asks,         \* requests made so far
  named,        \* what `current` stood for when it was set (for the properties)
  normal        \* the stored content the user last put on the clipboard (same)

capture == <<cap, current, sensitive, keepTimer, recheckTimer, probe, hook, named>>
serve == <<board, events, sources, serving>>
buffer == <<copySlot, copyPrev, pasteClip, pastePrev, restoreTimer>>
store == <<slot, rows, paused, asks, normal>>
vars == <<capture, serve, buffer, store>>

NoCapture == [phase |-> "idle", n |-> 0, item |-> None, left |-> 0,
              fed |-> FALSE, some |-> FALSE, whole |-> FALSE]

\* Types of the daemon's and the compositor's state; serve.current is NULL or a source
\* that was not freed.
TypeOK ==
  /\ board \in [owner : {"none", "app", "us"}, n : Nat, what : Content \cup {None}]
  /\ events \in Seq([kind : {"none", "app", "us", "cancelled", "send"}, n : Nat,
                     what : Content \cup {None}])
  /\ cap \in [phase : {"idle", "debounce", "reading"}, n : Nat, item : Item \cup {None},
              left : 0..MaxReads, fed : BOOLEAN, some : BOOLEAN, whole : BOOLEAN]
  /\ current \in 0..MaxId /\ sensitive \in BOOLEAN
  /\ keepTimer \in BOOLEAN /\ recheckTimer \in BOOLEAN
  /\ probe \in {"off", "empty", "occupied"} /\ hook \in {"off", "armed", "late"}
  /\ \A s \in sources : s \in [n : Nat, clip : 0..MaxId, cb : BOOLEAN]
  /\ serving \in {0} \cup {s.n : s \in sources}
  /\ copySlot \in BOOLEAN /\ restoreTimer \in BOOLEAN
  /\ {copyPrev, pasteClip, pastePrev, slot} \subseteq 0..MaxId
  /\ rows \in [Id -> Content \cup {None}]
  /\ paused \in BOOLEAN /\ asks \in 0..MaxAsks
  /\ {named, normal} \subseteq Content \cup {None}

\* main(): the compositor names the selection it has.  If there is none, the newest
\* clip is put back (on_startup_probe), where keep_alive is set and a clip is stored.
Init ==
  LET empty == [owner |-> "none", n |-> 0, what |-> None]
      ours == [owner |-> "us", n |-> 1, what |-> FirstRows[Len(FirstRows)]]
      heard(b) == [kind |-> b.owner, n |-> b.n, what |-> b.what] IN
  /\ \/ /\ board \in {empty} \cup {[owner |-> "app", n |-> 1, what |-> <<i, "whole">>] : i \in Item}
        /\ events = <<heard(board)>> /\ sources = {} /\ serving = 0 /\ current = 0
     \/ /\ FirstRows # <<>> /\ board = ours
        /\ events = <<heard(empty), heard(ours)>>
        /\ sources = {[n |-> 1, clip |-> Len(FirstRows), cb |-> FALSE]} /\ serving = 1
        /\ current = Len(FirstRows)
  /\ cap = NoCapture /\ sensitive = FALSE /\ named = board.what /\ normal = None
  /\ keepTimer = FALSE /\ recheckTimer = FALSE /\ probe = "off" /\ hook = "off"
  /\ copySlot = FALSE /\ copyPrev = 0 /\ pasteClip = 0 /\ pastePrev = 0
  /\ restoreTimer = FALSE /\ slot = FirstSlot
  /\ rows = [i \in Id |-> IF i <= Len(FirstRows) THEN FirstRows[i] ELSE None]
  /\ paused = FALSE /\ asks = 0

-----------------------------------------------------------------------------
(* What the handlers ask of each other *)

\* The loop is not blocked in wl_probe_selection.
Ready == probe = "off"

Quiet == events = <<>> /\ cap.phase = "idle" /\ Ready

Exists(i) == i # 0 /\ rows[i] # None

\* capture_current_clip
CurrentClip == IF sensitive THEN 0 ELSE current

\* serve_current
Served == IF serving = 0 THEN 0 ELSE (CHOOSE s \in sources : s.n = serving).clip

\* keepalive_wanted, with the offer and the sensitive flag as they are now
Wanted(c) == current # 0 /\ ~sensitive /\ c.phase = "idle"

\* INTEGER PRIMARY KEY without AUTOINCREMENT: the largest id plus one.
FreshIds == {i \in Id : \A j \in Id : (j >= i => rows[j] = None)
                                    /\ (j = i - 1 => rows[j] # None)}

\* db_add_clip: the row that has the content, or a new one.
StoredAs(what) ==
  IF \E i \in Id : rows[i] = what THEN {i \in Id : rows[i] = what} ELSE FreshIds

Selection == [board |-> board, events |-> events, sources |-> sources, serving |-> serving]

\* The compositor replaces the selection: the owner it had is told first if that is
\* us, then every device hears of the new one.
Replacing(x, new) ==
  (IF x.board.owner = "us"
   THEN Append(x.events, [kind |-> "cancelled", n |-> x.board.n, what |-> None])
   ELSE x.events)
  \o <<[kind |-> new.owner, n |-> new.n, what |-> new.what]>>

\* own(), as far as the selection goes: `cb` is the read callback asked for next.
Owning(x, clip, what, cb) ==
  LET new == [owner |-> "us", n |-> x.board.n + 1, what |-> what] IN
  [board |-> new, events |-> Replacing(x, new), serving |-> new.n,
   sources |-> x.sources \cup {[n |-> new.n, clip |-> clip, cb |-> cb]}]

Select(x) ==
  board' = x.board /\ events' = x.events /\ sources' = x.sources /\ serving' = x.serving

\* capture_set_current_clip
SetCurrent(clip, what) == current' = clip /\ sensitive' = FALSE /\ named' = what

Own(clip, what) == Select(Owning(Selection, clip, what, FALSE)) /\ SetCurrent(clip, what)

-----------------------------------------------------------------------------
(* Applications and the compositor *)

Ask == asks < MaxAsks /\ asks' = asks + 1 /\ (Calm => Quiet)

\* An application copies.  What it copies in answer to a buffer copy's keystroke is
\* not what the user has on the normal clipboard.
AppCopy(i) ==
  LET new == [owner |-> "app", n |-> board.n + 1, what |-> <<i, "whole">>] IN
  /\ board.n < MaxSets /\ (Calm => Quiet)
  /\ board' = new
  /\ events' = Replacing(Selection, new)
  /\ normal' = IF hook = "armed" /\ copySlot THEN normal ELSE None
  /\ UNCHANGED <<capture, sources, serving, buffer, slot, rows, paused, asks>>

\* The owner quits.  Hyprland does not always send the empty selection.
OwnerLeaves ==
  /\ board.owner = "app" /\ (Calm => Quiet)
  /\ board' = [board EXCEPT !.owner = "none"]
  /\ events' \in {events, Append(events, [kind |-> "none", n |-> 0, what |-> None])}
  /\ UNCHANGED <<capture, sources, serving, buffer, store>>

\* An application pastes: the compositor asks our source for the data.
AppReads ==
  LET e == [kind |-> "send", n |-> board.n, what |-> None] IN
  /\ board.owner = "us"
  /\ \A k \in 1..Len(events) : events[k] # e
  /\ events' = Append(events, e)
  /\ UNCHANGED <<board, sources, serving, capture, buffer, store>>

-----------------------------------------------------------------------------
(* capture_on_selection *)

\* Variant with a fault: only an application's selection ends the capture under way.
AbortsOnAppsOnly(e) == IF e.kind = "app" THEN NoCapture ELSE cap

\* abort_current: whatever was being captured is dropped.
Abort(e) == NoCapture

\* capture_owner_may_have_left
ArmKeepAlive(wanted) ==
  /\ keepTimer' = wanted
  /\ recheckTimer' = (recheckTimer \/ wanted)

OnSelection ==
  LET e == Head(events) IN
  /\ Ready /\ events # <<>> /\ e.kind \in {"none", "app", "us"}
  /\ events' = Tail(events)
  /\ \/ /\ e.kind = "none" \* the clipboard is empty
        /\ cap' = Abort(e)
        /\ ArmKeepAlive(Wanted(cap'))
        /\ UNCHANGED <<current, named, sensitive>>
     \/ /\ e.kind = "us"   \* our own paste coming back
        /\ cap' = Abort(e) /\ keepTimer' = FALSE
        /\ UNCHANGED <<current, named, sensitive, recheckTimer>>
     \/ /\ e.kind = "app"
        /\ current' = 0 /\ named' = None /\ keepTimer' = FALSE
        /\ sensitive' = (e.what[1] \in Secret)
        /\ \E verdict \in Verdicts, k \in 1..MaxReads :
             cap' = IF sensitive' \/ paused \/ verdict = "leave" THEN Abort(e)
                    ELSE [Abort(e) EXCEPT !.phase = "debounce", !.n = e.n,
                                           !.item = e.what[1], !.left = k]
        /\ UNCHANGED recheckTimer
  /\ UNCHANGED <<probe, hook, board, sources, serving, buffer, store>>

\* wl_offer_receive: an offer whose owner has been replaced or has left gives nothing.
Receive(c) == [c EXCEPT !.phase = "reading", !.fed = board.owner = "app" /\ board.n = c.n]

OnDebounced ==
  /\ Ready /\ cap.phase = "debounce"
  /\ cap' = Receive([cap EXCEPT !.whole = TRUE])
  /\ UNCHANGED <<current, sensitive, keepTimer, recheckTimer, probe, hook, named,
                 serve, buffer, store>>

-----------------------------------------------------------------------------
(* finish(): scripts, storing, and the hook a buffer copy left *)

\* Nothing worth storing, a script's skip, or a database error: the hook stays.
Unstored ==
  /\ cap' = NoCapture
  /\ UNCHANGED <<current, named, sensitive, hook, serve, copySlot, slot, rows, normal>>

\* Variant with a fault: the clip a script rewrote is taken for what is on the clipboard.
CreditsRewrites(id, clip, what) ==
  /\ UNCHANGED <<serve, copySlot, slot>>
  /\ normal' = what /\ SetCurrent(id, rows'[id])

\* on_copied: the clip goes into the buffer and the clipboard back to what it was,
\* which then is current; or else `clip` is, standing for `what`.
OnCopied(id, clip, what) ==
  LET mine == hook = "armed" /\ copySlot IN
  /\ copySlot' = (copySlot /\ ~mine)
  /\ slot' = IF mine THEN id ELSE slot
  /\ normal' = IF mine THEN normal ELSE what
  /\ IF mine /\ copyPrev \notin {0, id} /\ rows'[copyPrev] # None
     THEN Own(copyPrev, rows'[copyPrev])
     ELSE SetCurrent(clip, what) /\ UNCHANGED serve

\* A script's rewrite stores text the clipboard does not hold: no clip is current.
Finish(c) ==
  \/ /\ ~c.some \/ "skip" \in Scripts
     /\ Unstored
  \/ /\ c.some
     /\ \E how \in Scripts \ {"skip"} :
          LET what == <<c.item, IF how = "rewrite" THEN "edited"
                                ELSE IF c.whole THEN "whole" ELSE "cut">>
          IN  \E id \in StoredAs(what) :
                /\ rows' = [rows EXCEPT ![id] = what]
                /\ IF how = "rewrite" THEN OnCopied(id, 0, None) ELSE OnCopied(id, id, what)
     /\ hook' = "off" /\ cap' = NoCapture

\* Variant with a fault: there is no format timer.
NeverTimesOut(kept) == kept /\ cap.fed

\* The data ended; or it ran over its cap, failed or timed out.
FormatOver(kept) == kept => cap.fed

\* end_format, after the data ended, ran over its cap, failed or timed out; read_next
\* goes on to the next format, or finishes when there is none or time is up.
FormatEnds(kept) ==
  LET c == [cap EXCEPT !.left = @ - 1, !.some = @ \/ kept, !.whole = @ /\ kept] IN
  /\ Ready /\ cap.phase = "reading" /\ FormatOver(kept)
  /\ \/ /\ c.left > 0
        /\ cap' = Receive(c)
        /\ UNCHANGED <<current, named, sensitive, hook, serve, copySlot, slot, rows, normal>>
     \/ Finish([c EXCEPT !.whole = @ /\ c.left = 0])
  /\ UNCHANGED <<keepTimer, recheckTimer, probe, copyPrev, pasteClip, pastePrev,
                 restoreTimer, paused, asks>>

\* The deadline of capture_expect passes.
HookExpires ==
  /\ hook = "armed" /\ hook' = "late"
  /\ UNCHANGED <<cap, current, sensitive, keepTimer, recheckTimer, probe, named,
                 serve, buffer, store>>

-----------------------------------------------------------------------------
(* The sources we own, and the keep-alive *)

\* Variant with a fault: the freed source stays the current one.
CancelledKeepsCurrent ==
  LET e == Head(events) IN
  /\ Ready /\ events # <<>> /\ e.kind = "cancelled"
  /\ events' = Tail(events)
  /\ sources' = {s \in sources : s.n # e.n}
  /\ UNCHANGED <<board, serving, capture, buffer, store>>

\* Variant with a fault: freeing any source clears the current one.
CancelledClearsCurrent ==
  LET e == Head(events) IN
  /\ Ready /\ events # <<>> /\ e.kind = "cancelled"
  /\ events' = Tail(events)
  /\ sources' = {s \in sources : s.n # e.n} /\ serving' = 0
  /\ UNCHANGED <<board, capture, buffer, store>>

\* source_free, when the compositor says the source was replaced.
OnCancelled ==
  LET e == Head(events) IN
  /\ Ready /\ events # <<>> /\ e.kind = "cancelled"
  /\ events' = Tail(events)
  /\ sources' = {s \in sources : s.n # e.n}
  /\ serving' = IF serving = e.n THEN 0 ELSE serving
  /\ UNCHANGED <<board, capture, buffer, store>>

\* Variant with a fault: the first read cancels the timer and does not arm it again.
SendDropsTimer ==
  LET e == Head(events) IN
  /\ Ready /\ events # <<>> /\ e.kind = "send"
  /\ events' = Tail(events)
  /\ restoreTimer' = (restoreTimer /\ ~\E s \in sources : s.n = e.n /\ s.cb)
  /\ sources' = {[s EXCEPT !.cb = @ /\ s.n # e.n] : s \in sources}
  /\ UNCHANGED <<board, serving, capture, copySlot, copyPrev, pasteClip, pastePrev, store>>

\* on_send: the first reader of a buffer paste brings its restore nearer (on_read).
OnSend ==
  LET e == Head(events) IN
  /\ Ready /\ events # <<>> /\ e.kind = "send"
  /\ events' = Tail(events)
  /\ restoreTimer' = (restoreTimer \/ \E s \in sources : s.n = e.n /\ s.cb)
  /\ sources' = {[s EXCEPT !.cb = @ /\ s.n # e.n] : s \in sources}
  /\ UNCHANGED <<board, serving, capture, copySlot, copyPrev, pasteClip, pastePrev, store>>

\* A window closed or the focus moved.
WindowChange ==
  /\ Ready /\ Wanted(cap)
  /\ ArmKeepAlive(TRUE)
  /\ UNCHANGED <<cap, current, sensitive, probe, hook, named, serve, buffer, store>>

\* Variant with a fault: a probe without an answer counts as "empty".
ProbeGuesses ==
  IF Wanted(cap) /\ (Served = 0 \/ Served # current)
  THEN \/ probe' = IF board.owner = "none" THEN "empty" ELSE "occupied"
       \/ Slow /\ probe' = "empty"
  ELSE UNCHANGED probe

\* Variant with a fault: the answer of the probe is never looked at.
ProbeAlwaysOccupied ==
  IF Wanted(cap) /\ (Served = 0 \/ Served # current) THEN probe' = "occupied"
  ELSE UNCHANGED probe

\* on_keepalive: the probe asks the compositor on a connection of its own.  No answer
\* in time counts as "occupied".
Probe ==
  IF Wanted(cap) /\ (Served = 0 \/ Served # current)
  THEN \/ probe' = IF board.owner = "none" THEN "empty" ELSE "occupied"
       \/ Slow /\ probe' = "occupied"
  ELSE UNCHANGED probe

OnKeepAlive ==
  /\ Ready /\ keepTimer /\ keepTimer' = FALSE
  /\ Probe
  /\ UNCHANGED <<cap, current, sensitive, recheckTimer, hook, named, serve, buffer, store>>

\* Armed together with the keep-alive timer and later due, so it fires after it.
OnRecheck ==
  /\ Ready /\ recheckTimer /\ ~keepTimer /\ recheckTimer' = FALSE
  /\ Probe
  /\ UNCHANGED <<cap, current, sensitive, keepTimer, hook, named, serve, buffer, store>>

\* The answer, acted on after what the compositor may have seen meanwhile.
OnProbe ==
  /\ ~Ready /\ probe' = "off"
  /\ IF probe = "empty" /\ Wanted(cap) /\ Exists(current)
     THEN Own(current, rows[current])
     ELSE UNCHANGED <<current, sensitive, named, serve>>
  /\ UNCHANGED <<cap, keepTimer, recheckTimer, hook, buffer, store>>

-----------------------------------------------------------------------------
(* buffers.c *)

\* restore: only if we still serve the clip the buffer paste put there.
Restores == pastePrev # 0 /\ Served = pasteClip /\ Exists(pastePrev)

OnRestore ==
  /\ Ready /\ restoreTimer /\ restoreTimer' = FALSE
  /\ pasteClip' = 0 /\ pastePrev' = 0
  /\ IF Restores THEN Own(pastePrev, rows[pastePrev])
     ELSE UNCHANGED <<current, sensitive, named, serve>>
  /\ UNCHANGED <<cap, keepTimer, recheckTimer, probe, hook, copySlot, copyPrev, store>>

\* buffers_copy.  The keystroke may be refused, after capture was told to expect it.
BufferCopy ==
  /\ Ready /\ Ask /\ "copy" \in Requests /\ ~paused
  /\ copySlot' \in BOOLEAN /\ copyPrev' = CurrentClip
  /\ hook' = "armed"
  /\ UNCHANGED <<cap, current, sensitive, keepTimer, recheckTimer, probe, named, serve,
                 pasteClip, pastePrev, restoreTimer, slot, rows, paused, normal>>

\* buffers_paste.  A paste that still waits to restore finishes first.
BufferPaste ==
  LET early == restoreTimer /\ Restores
      x     == IF early THEN Owning(Selection, pastePrev, rows[pastePrev], FALSE) ELSE Selection
      prev  == IF early THEN pastePrev ELSE CurrentClip IN
  /\ Ready /\ Ask /\ "buffer" \in Requests /\ Exists(slot)
  /\ Select(Owning(x, slot, rows[slot], TRUE)) /\ SetCurrent(slot, rows[slot])
  /\ pasteClip' = slot /\ pastePrev' = IF prev = slot THEN 0 ELSE prev
  /\ restoreTimer' = TRUE
  /\ UNCHANGED <<cap, keepTimer, recheckTimer, probe, hook, copySlot, copyPrev,
                 slot, rows, paused, normal>>

-----------------------------------------------------------------------------
(* The other requests *)

\* paste_run of one clip: as stored, as plain text, or changed by Special Paste or a
\* script and still credited to the clip.
Paste(id, how) ==
  LET text == IF rows[id][2] = "edited" THEN "edited" ELSE "cut"
      what == CASE how = "stored" -> rows[id]
                [] how = "plain"  -> <<rows[id][1], text>>
                [] how = "edited" -> <<rows[id][1], "edited">> IN
  /\ Ready /\ Ask /\ how \in Requests /\ Exists(id)
  /\ Own(id, what) /\ normal' = what
  /\ UNCHANGED <<cap, keepTimer, recheckTimer, probe, hook, buffer, slot, rows, paused>>

\* paste_run of several clips: their texts joined, credited to none.
PasteJoined ==
  LET what == <<CHOOSE i \in Item : TRUE, "edited">> IN
  /\ Ready /\ Ask /\ "joined" \in Requests
  /\ Cardinality({i \in Id : Exists(i)}) > 1
  /\ Own(0, what) /\ normal' = what
  /\ UNCHANGED <<cap, keepTimer, recheckTimer, probe, hook, buffer, slot, rows, paused>>

\* app_pause and app_resume: a capture under way goes on.
SetPaused ==
  /\ Ready /\ Ask /\ "pause" \in Requests /\ paused' = ~paused
  /\ UNCHANGED <<capture, serve, buffer, slot, rows, normal>>

\* op_delete: the copy buffer loses its clip (ON DELETE SET NULL), nothing else does.
Delete(id) ==
  /\ Ready /\ Ask /\ "delete" \in Requests /\ Exists(id)
  /\ rows' = [rows EXCEPT ![id] = None]
  /\ slot' = IF slot = id THEN 0 ELSE slot
  /\ UNCHANGED <<capture, serve, buffer, paused, normal>>

\* op_create: a row that never was on the clipboard.
Create(what) ==
  /\ Ready /\ Ask /\ "create" \in Requests
  /\ \E id \in StoredAs(what) : rows' = [rows EXCEPT ![id] = what]
  /\ UNCHANGED <<capture, serve, buffer, slot, paused, normal>>

-----------------------------------------------------------------------------
Others == \/ \E i \in Item : AppCopy(i)
          \/ OwnerLeaves \/ AppReads \/ WindowChange \/ HookExpires

Daemon == \/ OnSelection \/ OnCancelled \/ OnSend
          \/ OnDebounced \/ (\E kept \in BOOLEAN : FormatEnds(kept))
          \/ OnKeepAlive \/ OnRecheck \/ OnProbe \/ OnRestore

Client == \/ BufferCopy \/ BufferPaste \/ PasteJoined \/ SetPaused
          \/ \E id \in Id : Delete(id) \/ \E how \in {"stored", "plain", "edited"} : Paste(id, how)
          \/ \E i \in Item : Create(<<i, "edited">>)

Next == Others \/ Daemon \/ Client

Spec == Init /\ [][Next]_vars

\* Every fd that is ready and every timer that is due gets its turn in each round of
\* loop_run, whatever else arrives: each handler is fair by itself.  Strongly, because
\* a blocking probe holds it up between two rounds without taking its turn away.
FairSpec ==
  /\ Spec
  /\ SF_vars(OnSelection) /\ SF_vars(OnCancelled) /\ SF_vars(OnSend)
  /\ SF_vars(OnDebounced) /\ SF_vars(\E kept \in BOOLEAN : FormatEnds(kept))
  /\ SF_vars(OnKeepAlive) /\ SF_vars(OnRecheck) /\ SF_vars(OnRestore) /\ WF_vars(OnProbe)

-----------------------------------------------------------------------------
(* What the clipboard side promises *)

\* Once the compositor's news has been read, serve.c has one source exactly when it
\* owns the clipboard, and that one: no source outlives its selection, and freeing a
\* replaced source never drops the one that replaced it (source_free).
SourcesSettle ==
  events = <<>> =>
    /\ {s.n : s \in sources} = IF board.owner = "us" THEN {board.n} ELSE {}
    /\ serving = IF board.owner = "us" THEN board.n ELSE 0

\* Once the news has been read, a capture under way is of the selection there is, or
\* of one whose owner left without a word: an old offer is dropped (abort_current).
CaptureIsOfBoard ==
  events = <<>> /\ cap.phase # "idle" =>
    board.owner # "us" /\ cap.n = board.n /\ cap.item = board.what[1]

\* current_clip is "the clip whose content is on the clipboard right now, as far as we
\* know".  While an application has the clipboard, or had it last, and news and capture
\* are done, it is so: the keep-alive puts back what was there, not something older.
CurrentNamesBoard ==
  Quiet /\ CurrentClip # 0 /\ board.owner # "us" =>
    /\ named[1] = board.what[1]
    /\ named[2] = "edited" <=> board.what[2] = "edited"

\* The keep-alive never takes the clipboard from an application it has heard of, and
\* never undoes a password manager's clearing of its secret.
KeepAliveHonest ==
  [][probe = "empty" /\ events = <<>> /\ serving' # serving =>
       board.owner = "none" /\ board.what[1] \notin Secret]_vars

\* When a clip is current, its owner has left and the check is armed or the compositor
\* has said so, the keep-alive gives the clipboard an owner again, if probes are answered.
KeepAliveWorks ==
  /\ board.owner = "none" /\ Wanted(cap) /\ Exists(current)
  /\ keepTimer \/ \E k \in 1..Len(events) : events[k].kind = "none"
  ~> board.owner # "none" \/ ~Wanted(cap) \/ ~Exists(current)

\* A buffer paste always ends: the clipboard it borrowed is given back or given up.
RestoreComes == pasteClip # 0 ~> pasteClip = 0

\* Every capture ends, however the application serves it.
CaptureSettles == cap.phase # "idle" ~> cap.phase = "idle"

\* "Our own paste coming back: the clip is already stored and current"
\* (capture_on_selection): once the news is read, the clip we serve is the current one.
OursIsCurrent == Quiet /\ board.owner = "us" /\ Served # 0 => current = Served

\* "Copying into a buffer, or pasting from one, leaves your normal clipboard as it was"
\* (README): when nothing is pending, the clipboard holds what the user last put there,
\* if it is a stored clip.
NormalKept ==
  Quiet /\ ~restoreTimer /\ ~copySlot /\ hook = "off" /\ board.owner # "none" =>
    normal \in {None, board.what}

=============================================================================
