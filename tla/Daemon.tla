------------------------------- MODULE Daemon -------------------------------
(***************************************************************************)
(* The daemon's handlers on its event loop (Loop): requests and hotkeys    *)
(* that pause the capture (Session) or change the hotkeys (Hotkeys), the   *)
(* hourly retention, the compositor's event socket and its reconnection    *)
(* (hypr.c), the watch and timers of a capture (capture.c), and the start  *)
(* and the death of the process (main.c).                                  *)
(***************************************************************************)
EXTENDS Session, Hotkeys

CONSTANTS
  First,     \* ticks until the first retention, and between two
  Every,
  Backoff,   \* ticks until the next attempt to reconnect
  MaxNews    \* bound: requests, events and faults

ASSUME DaemonAssumption ==
  /\ First \in Nat /\ Every \in Nat /\ Backoff \in Nat /\ MaxNews \in Nat
  /\ {"pause", "retention", "reconnect", "debounce", "format"} \subseteq TimerUser
  /\ {"board", "ipc", "hypr", "pipe"} \subseteq WatchUser

VARIABLE budget   \* of them left

vars == <<loop, session, hot, budget>>

Up == pc # "down"
Idle == pc = "idle"
Spend == budget > 0 /\ budget' = budget - 1
Free == UNCHANGED budget

TypeOK == LoopType /\ SessionType /\ HotkeysType /\ budget \in 0..MaxNews

Init ==
  /\ Empty /\ watches = {} /\ whandle = [u \in WatchUser |-> Null]
  /\ SessionInit /\ HotkeysInit /\ budget = MaxNews

-----------------------------------------------------------------------------
(* Start and death. *)

\* main: the signal handlers apart, the wayland and IPC sockets are watched,
\* the event socket is opened or an attempt to is armed; then the hotkeys.
Start ==
  /\ pc = "down" /\ link' \in BOOLEAN
  /\ \E at \in [{"board", "ipc"} \cup (IF link' THEN {"hypr"} ELSE {}) -> Addr] :
       /\ \E a \in Alloc({}) : \E b \in Alloc({a}) : at["board"] = a /\ at["ipc"] = b
       /\ link' => at["hypr"] \in Alloc({at["board"], at["ipc"]})
       /\ watches' = {[at |-> at[u], who |-> u, dead |-> FALSE] : u \in DOMAIN at}
       /\ whandle' = [u \in WatchUser |-> IF u \in DOMAIN at THEN at[u] ELSE Null]
  /\ IF link' THEN UNCHANGED timing ELSE Arm(timers, "reconnect", Backoff)
  /\ pc' = "prune" /\ then' = "sync"
  /\ UNCHANGED <<batch, phase, session, clips, rows, compositor, set, sync, budget>>

\* The rest of main, once the hotkeys are bound.
Resumed ==
  /\ Idle /\ then = "start" /\ then' = "pause"
  /\ StartPause
  /\ UNCHANGED <<watching, batch, phase, clips, rows, compositor, link, pc, set, sync, budget>>

Ready ==
  /\ Idle /\ then \in {"pause", "rearm"} /\ then' = "none"
  /\ Arm(timers, "retention", IF then = "pause" THEN First ELSE Every)
  /\ UNCHANGED <<watching, batch, phase, session, clips, rows, compositor, link, pc, set, sync, budget>>

\* A crash, or an end by a signal: the tables and the binds stay.
Die ==
  /\ Up /\ Spend /\ Lost
  /\ pc' = "down" /\ then' = "none" /\ set' = Nothing /\ plan' = {} /\ link' = FALSE /\ news' = {}
  /\ UNCHANGED <<session, clips, rows, ours, others, unsure>>

-----------------------------------------------------------------------------
(* Handlers.  Nothing else runs until the hotkeys are done (`then`, `pc`).  *)

Calm == Idle /\ then = "none"
Hear(u) == Calm /\ Handles(u) /\ Free
Ring(t, u) == Calm /\ Fires(t, u)

\* Requests that change the pause, and a hotkey that toggles it.
Pausing(Do) == Do /\ UNCHANGED <<watching, hot>>

Request ==
  /\ Hear("ipc")
  /\ \/ Pausing(\E m \in 0..MaxPause : AppPause(Unpaused, m))
     \/ Pausing(AppResume(Unpaused))
     \/ Pausing(\E b \in BOOLEAN : RawPaused(b))
     \/ Pausing(\E m \in 1..MaxPause : RawUntil(m * Minute))
     \/ /\ \/ \E i \in 0..MaxHotkey, a \in Accel, act \in Act : SetHotkey(i, a, act)
           \/ \E i \in DOMAIN rows : RemoveHotkey(i)
           \/ \E S \in SUBSET clips : Remove(S) /\ UNCHANGED then
           \/ \E c \in Uuid \ clips : Arrive(c)
        /\ UNCHANGED <<session, timing, watching>>

\* on_pressed: the bind carries an id, whose row may be another by now.
Press(b) ==
  /\ Hear("board") /\ b \in ours /\ b.id \in DOMAIN rows /\ rows[b.id].act = "pause"
  /\ Pausing(IF AppPaused THEN AppResume(Unpaused) ELSE AppPause(Unpaused, 0))

PauseEnds(t) == Calm /\ PauseOver(t) /\ Free /\ UNCHANGED <<watching, batch, phase, hot>>

\* on_retention forgets its timer, removes clips, and is armed again last.
Retain(t, S) ==
  /\ Ring(t, "retention") /\ Disarm(timers \ {t}, "retention") /\ then' = "rearm"
  /\ IF S = {} THEN UNCHANGED <<clips, rows, compositor, link, pc, set, sync>> ELSE Remove(S)
  /\ Free /\ UNCHANGED <<watching, batch, phase, session>>

\* on_events: with the end of the stream what came before it is dropped.
Closed ==
  /\ Calm /\ Handles("hypr") /\ "eof" \in news
  /\ Unwatch("hypr") /\ link' = FALSE /\ news' = {}
  /\ Arm(timers, "reconnect", Backoff)
  /\ Free /\ UNCHANGED <<session, clips, rows, ours, others, pc, then, set, sync>>

Reloaded ==
  /\ Calm /\ Handles("hypr") /\ news = {"reload"}
  /\ news' = {} /\ pc' = "query"
  /\ Free /\ UNCHANGED <<timing, watching, session, clips, rows, ours, others, link, then, set, sync>>

\* Mutant: reconnecting makes no binds.
ReconnectOnly(t) ==
  /\ Ring(t, "reconnect")
  /\ Disarm(timers \ {t}, "reconnect") /\ Watching("hypr", watches)
  /\ link' = TRUE
  /\ Free /\ UNCHANGED <<batch, phase, session, clips, rows, compositor, pc, then, set, sync>>

\* on_reconnect: try again later, or have the binds made again, since a reload
\* may have gone unheard.
Reconnect(t) ==
  /\ Ring(t, "reconnect")
  /\ \/ /\ Arm(timers \ {t}, "reconnect", Backoff) /\ UNCHANGED <<watching, link, pc>>
     \/ /\ Disarm(timers \ {t}, "reconnect") /\ Watching("hypr", watches)
        /\ link' = TRUE /\ pc' = "query"
  /\ Free /\ UNCHANGED <<batch, phase, session, clips, rows, compositor, then, set, sync>>

-----------------------------------------------------------------------------
(* A capture: a selection abandons the read under way and waits a moment    *)
(* (debounce); then a pipe is read, with a limit (format), one format after *)
(* another.                                                                 *)

Still == UNCHANGED <<session, hot>>

Selection ==
  LET Left == {t \in timers : t.at \notin {handle["debounce"], handle["format"]}} IN
  /\ Hear("board") /\ Unwatch("pipe") /\ Still
  /\ \E a \in Alloc({t.at : t \in Left}) :
       /\ timers' = Left \cup {[at |-> a, due |-> 0, who |-> "debounce"]}
       /\ handle' = [handle EXCEPT !["debounce"] = a, !["format"] = Null]

OpenPipe(Left, u, W) ==
  /\ \E a \in Alloc({t.at : t \in Left}) :
       /\ timers' = Left \cup {[at |-> a, due |-> 1, who |-> "format"]}
       /\ handle' = [handle EXCEPT ![u] = Null, !["format"] = a]
  /\ Watching("pipe", W)

Debounced(t) ==
  /\ Ring(t, "debounce") /\ OpenPipe(timers \ {t}, "debounce", watches)
  /\ Free /\ Still /\ UNCHANGED <<batch, phase>>

EndFormat(Left) ==
  LET W == Dropped(whandle["pipe"]) IN
  \/ OpenPipe(Left, "format", W)
  \/ Disarm(Left, "format") /\ watches' = W /\ whandle' = [whandle EXCEPT !["pipe"] = Null]

Readable == Calm /\ Handles("pipe") /\ EndFormat(Without(handle["format"])) /\ Free /\ Still

TimedOut(t) ==
  /\ Ring(t, "format") /\ EndFormat(timers \ {t})
  /\ Free /\ Still /\ UNCHANGED <<batch, phase>>

-----------------------------------------------------------------------------
\* The watches, as epoll names them.
Known == {[at |-> w.at, who |-> w.who] : w \in watches}

\* A pipe always has something: data, or its end.  The bound is on the rest.
Round ==
  \/ \E n \in 0..MaxBatch : \E ready \in [1..n -> Known] :
       /\ Calm /\ Wait(ready)
       /\ \A i \in 1..n : ready[i].who = "hypr" => news # {}
       /\ budget' = budget - Cardinality({i \in 1..n : ready[i].who \in {"ipc", "board"}})
       /\ budget' >= 0
  \/ Calm /\ (Skip \/ Bury \/ Settle) /\ Free

Tick ==
  /\ (Calm /\ Pass) \/ (pc = "down" /\ UNCHANGED loop)
  /\ Nearer /\ UNCHANGED <<paused, asked>>

\* The machine sleeps: the date comes nearer, CLOCK_MONOTONIC stands still.
Sleep == Calm /\ phase = "wait" /\ Nearer /\ Spend /\ UNCHANGED <<loop, paused, asked, hot>>

Next ==
  \/ Start \/ Resumed \/ Ready \/ Die
  \/ Request
  \/ \E b \in ours : Press(b)
  \/ \E t \in timers : PauseEnds(t) \/ Reconnect(t) \/ Debounced(t) \/ TimedOut(t)
  \/ \E t \in timers, S \in SUBSET clips : Retain(t, S)
  \/ Closed \/ Reloaded \/ Selection \/ Readable
  \/ (Query \/ Eval \/ Prune \/ Refuse \/ Write) /\ Free /\ UNCHANGED <<loop, session>>
  \/ (\E K \in SUBSET Accel : Reload(K)) /\ Up /\ Spend /\ UNCHANGED <<loop, session>>
  \/ LinkLost /\ Spend /\ UNCHANGED <<loop, session>>
  \/ Round /\ Still
  \/ Tick /\ Free /\ UNCHANGED hot
  \/ Sleep

Spec == Init /\ [][Next]_vars

-----------------------------------------------------------------------------
\* A restart ends a timed pause that is over, unless that write is lost, and gives one
\* that is not at most the rest of its last minute more, never less: the remaining time
\* is put into whole minutes again each time (main.c:227).
RestartExtends ==
  [][(Resumed /\ paused) =>
        IF until = 0 THEN ~paused' \/ asked' = "garbled"
        ELSE paused' /\ until' >= until /\ (until # NoEnd => until' - until < Minute)]_vars

\* While the daemon serves, the pause is what was last asked for, and one with an end
\* has a timer that will end it and not early (Session!PauseArmed), whatever died and
\* slept meanwhile, as long as no write of the two settings was lost.
TimedPauseEnds == Calm => PauseArmed
=============================================================================
