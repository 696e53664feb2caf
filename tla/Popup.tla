------------------------------- MODULE Popup --------------------------------
(***************************************************************************)
(* The history popup (components/Popup.qml) on its line to the daemon: the *)
(* rows shown, the view they are of, and the timers that ask for them      *)
(* again.  Every answer is a callback that runs later, in a popup that has *)
(* moved on.                                                               *)
(***************************************************************************)
EXTENDS UiLink

VARIABLES
  open,
  view,          \* groupsRoot, groupId and query
  rows,          \* the rows shown: [at, ver, gRows], the view they are of, the clips, and
                 \* the groups above those
  offline,       \* offlineText says that the daemon is not running
  groups,        \* the groups the popup knows, by version
  heard,         \* history: those of the last groups.changed heard on this line
  refreshDue,    \* eventRefresh runs
  searchDue      \* searchDebounce runs

popup == <<open, view, rows, offline, groups, heard, refreshDue, searchDue>>
vars == <<link, popup>>

NoRows == [at |-> Anywhere, ver |-> -1, gRows |-> -1]

TypeOK ==
  /\ LinkType
  /\ open \in BOOLEAN /\ view \in View /\ offline \in BOOLEAN
  /\ rows \in [at : View, ver : Version, gRows : Version] /\ groups \in Version /\ heard \in Version
  /\ refreshDue \in BOOLEAN /\ searchDue \in BOOLEAN

Init ==
  /\ LinkInit /\ open = FALSE /\ view = Anywhere /\ rows = NoRows
  /\ offline = FALSE /\ groups = -1 /\ heard = -1 /\ refreshDue = FALSE /\ searchDue = FALSE

-----------------------------------------------------------------------------
(* refresh *)

\* The Groups list needs no answer: its rows are the groups known.
Root(v) == v.place = "root" /\ ~v.query

\* gRows: taken when the rows are asked for, not when they come.
Above(v) == IF v.place = "history" THEN -1 ELSE groups

Lists(v) == IF Root(v) THEN <<>> ELSE <<[cb |-> "list", at |-> v, gRows |-> Above(v)]>>

\* What refresh does at once: nothing, unless there is no line.  `keep` is the
\* offline text so far.
Refreshed(v, online, keep) ==
  /\ rows' = IF Root(v) THEN [at |-> v, ver |-> -1, gRows |-> Above(v)] ELSE IF online THEN rows ELSE NoRows
  /\ offline' = (keep \/ ~(Root(v) \/ online))

Shown == rows' = rows /\ offline' = offline

\* A step of the popup that calls cs: without a line nothing is written.
Calling(cs) == IF connected THEN Calls(pending, toDaemon, cs) ELSE UNCHANGED <<toDaemon, pending>>
Local == UNCHANGED <<daemon, toUi, side, copy>>

-----------------------------------------------------------------------------
(* What the user does. *)

\* show() asks where the cursor is; its callback opens the popup, with the text
\* that there is no daemon when that was the answer.
Opened(online) ==
  /\ open' = TRUE /\ view' = Anywhere /\ searchDue' = (searchDue \/ view.query)
  /\ Refreshed(Anywhere, online, ~online)

Show ==
  /\ Happen /\ ~open /\ Calling(<<Ask("context")>>) /\ Local
  /\ IF connected THEN UNCHANGED <<open, view, searchDue, rows, offline>> ELSE Opened(FALSE)
  /\ UNCHANGED <<groups, heard, refreshDue>>

Hide ==
  /\ open /\ Happen /\ open' = FALSE
  /\ UNCHANGED <<daemon, wires, side, pending, copy, view, rows, offline, groups, heard, refreshDue, searchDue>>

\* enterGroup, up and toggleGroups: another view, and its rows.  Emptying the
\* search field counts as typing.
Go(place) ==
  /\ open /\ Happen /\ view' = [place |-> place, query |-> FALSE]
  /\ Calling(Lists(view')) /\ Refreshed(view', connected, offline) /\ Local
  /\ searchDue' = (searchDue \/ view.query)
  /\ UNCHANGED <<open, groups, heard, refreshDue>>

\* Another text in the search field; the rows follow a moment later.
Type ==
  /\ open /\ Happen /\ view' = [view EXCEPT !.query = ~@] /\ searchDue' = TRUE
  /\ UNCHANGED <<daemon, wires, side, pending, copy, open, rows, offline, groups, heard, refreshDue>>

\* deleteTargets; its callback refreshes, after an error too.
Delete ==
  /\ open /\ Happen /\ Calling(<<Ask("delete")>>) /\ Local
  /\ IF connected THEN Shown ELSE Refreshed(view, FALSE, offline)
  /\ UNCHANGED <<open, view, groups, heard, refreshDue, searchDue>>

-----------------------------------------------------------------------------
(* Timers. *)

Again ==
  /\ Calling(Lists(view)) /\ Refreshed(view, connected, offline) /\ Local
  /\ UNCHANGED <<budget, open, view, groups, heard>>

EventRefresh == refreshDue /\ refreshDue' = FALSE /\ Again /\ UNCHANGED searchDue
SearchDebounce == searchDue /\ searchDue' = FALSE /\ Again /\ UNCHANGED refreshDue

-----------------------------------------------------------------------------
(* What the daemon says. *)

\* The next message is m; its callback calls cs.
Reading(m, cs) ==
  /\ connected /\ toUi # <<>> /\ m = Head(toUi) /\ toUi' = Tail(toUi)
  /\ Calls(Taken(m), toDaemon, cs)
  /\ late' = (late /\ m.op # "hello")   \* of no more interest
  /\ UNCHANGED <<daemon, cut, connected, budget>>

\* Mutant: nothing is asked for on a new line.
ConnectedAgainQuiet(m) ==
  /\ m.op = "hello" /\ Reading(m, <<Ask("settings")>>) /\ ready' = TRUE
  /\ offline' = FALSE /\ heard' = -1
  /\ UNCHANGED <<rows, copy, open, view, searchDue, groups, refreshDue>>

\* hello was answered: the settings are asked for, and onConnectedAgain has the
\* rows and the groups asked for too.  Nothing makes rows of the groups once they come.
ConnectedAgain(m) ==
  /\ m.op = "hello" /\ Reading(m, <<Ask("settings"), Ask("groups")>>) /\ ready' = TRUE
  /\ offline' = FALSE /\ refreshDue' = TRUE /\ heard' = -1
  /\ UNCHANGED <<rows, copy, open, view, searchDue, groups>>

\* An event, by onEvent: the timer restarts, or the groups are fetched first.
Hear(m) ==
  /\ m.rid = 0 /\ UNCHANGED ready /\ Shown /\ UNCHANGED <<open, view, searchDue, groups>>
  /\ Reading(m, IF m.op = "groups" THEN <<Ask("follow")>> ELSE <<>>)
  /\ refreshDue' = (refreshDue \/ m.op = "clips")
  /\ heard' = IF m.op = "groups" THEN m.ver ELSE heard
  /\ copy' = IF m.op = "settings" THEN Patched(m.ver) ELSE copy

\* done: the rows of the view they were asked for.
Listed(m) ==
  /\ m.op = "list" /\ Reading(m, <<>>) /\ offline' = FALSE
  /\ rows' = [at |-> m.at, ver |-> m.ver, gRows |-> m.gRows]
  /\ UNCHANGED <<ready, copy, open, view, searchDue, groups, heard, refreshDue>>

\* Mutant: after a groups.changed the groups are fetched and no more.
FetchedOnly(m) ==
  /\ m.rid # 0 /\ m.op \in {"groups", "follow"} /\ Reading(m, <<>>) /\ groups' = m.ver
  /\ Shown /\ UNCHANGED <<ready, copy, open, view, searchDue, heard, refreshDue>>

\* The callback of a groups.list; the one after an event (follow) restarts the timer.
Fetched(m) ==
  /\ m.rid # 0 /\ m.op \in {"groups", "follow"} /\ Reading(m, <<>>) /\ groups' = m.ver
  /\ refreshDue' = (refreshDue \/ (m.op = "follow" /\ open))
  /\ Shown /\ UNCHANGED <<ready, copy, open, view, searchDue, heard>>

Copied(m) ==
  /\ m.rid # 0 /\ m.op = "settings" /\ Reading(m, <<>>) /\ copy' = m.ver
  /\ Shown /\ UNCHANGED <<ready, open, view, searchDue, groups, heard, refreshDue>>

\* Mutant: the rows asked for are those of the view there was before.
PlacedOld(m) ==
  /\ m.op = "context" /\ Opened(TRUE) /\ Reading(m, Lists(view) \o <<Ask("groups")>>)
  /\ UNCHANGED <<ready, copy, groups, heard, refreshDue>>

Placed(m) ==
  /\ m.op = "context" /\ Opened(TRUE) /\ Reading(m, Lists(Anywhere) \o <<Ask("groups")>>)
  /\ UNCHANGED <<ready, copy, groups, heard, refreshDue>>

Deleted(m) ==
  /\ m.op = "delete" /\ Refreshed(view, TRUE, offline) /\ Reading(m, Lists(view))
  /\ UNCHANGED <<ready, copy, open, view, searchDue, groups, heard, refreshDue>>

Read == toUi # <<>> /\ LET m == Head(toUi) IN
  ConnectedAgain(m) \/ Hear(m) \/ Listed(m) \/ Fetched(m) \/ Copied(m) \/ Placed(m) \/ Deleted(m)

\* The line is down: every callback runs with an error, in the order of the
\* calls.
LineDown ==
  /\ Down /\ pending' = Failed(pending)
  /\ LET failed == {p.cb : p \in pending} IN
     /\ \/ "context" \in failed /\ Opened(FALSE)
        \/ /\ "context" \notin failed /\ UNCHANGED <<open, view, searchDue>>
           /\ \/ "list" \in failed /\ rows' = NoRows /\ offline' = TRUE
              \/ "delete" \in failed /\ Refreshed(view, FALSE, offline \/ "list" \in failed)
              \/ failed \cap {"list", "delete"} = {} /\ Shown
     /\ \E seen \in {open, open'} : refreshDue' = (refreshDue \/ ("follow" \in failed /\ seen))
  /\ UNCHANGED <<groups, heard>>

-----------------------------------------------------------------------------
Still == UNCHANGED popup

Ui == Read \/ LineDown \/ EventRefresh \/ SearchDebounce \/ (Retry /\ Still)

Next ==
  \/ Show \/ Hide \/ Type \/ Delete \/ \E place \in Place : Go(place)
  \/ Ui
  \/ ((\E k \in Kind : Change(k)) \/ Unsaid) /\ Still
  \/ (Serve \/ Die \/ Begin \/ Late) /\ Still

Fairness ==
  /\ WF_vars(Read) /\ WF_vars(LineDown) /\ WF_vars(Retry /\ Still)
  /\ WF_vars(EventRefresh) /\ WF_vars(SearchDebounce) /\ WF_vars(Serve /\ Still)

Spec == Init /\ [][Next]_vars /\ Fairness

-----------------------------------------------------------------------------
\* The rows are those of the view, from the clips as they are; the groups and settings
\* are the daemon's as far as it said that they changed, and an open view of a group (or
\* a search of the groups) shows groups no older than the last groups.changed heard on
\* this line.  Groups changed without one, and those that came only with the groups.list
\* of a new line (Popup.qml:221) or of an opening, need not be among the rows.  The
\* Groups list is left out: an answer that was on its way when it was opened still
\* replaces its rows (Popup.qml:166).
Current ==
  /\ ready /\ ~offline
  /\ ~Root(view) => rows.at = view /\ rows.ver = data["clips"]
  /\ open /\ ~Root(view) /\ view.place # "history" => rows.gRows >= heard
  /\ groups >= told /\ copy = data["settings"]

\* There is nothing to wait for that will not come: once the greeting is through,
\* either what is shown is what there is, or something is on its way or a timer runs
\* that makes it so.  No change, late answer or other view is forgotten.
QuietIsCurrent ==
  ready /\ ~cut /\ toUi = <<>> /\ toDaemon = <<>> /\ ~refreshDue /\ ~searchDue => Current

\* With a daemon that keeps running, the popup comes to show what is there and
\* goes on showing it, whatever was opened, typed, deleted, changed, lost or
\* answered late before, and with nobody telling it to look again.
Settles == <>[]up => <>[]Current
=============================================================================
