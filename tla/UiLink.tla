------------------------------- MODULE UiLink -------------------------------
(***************************************************************************)
(* The popup's line to the daemon (common/Daemon.qml): a socket object per *)
(* attempt, calls matched to their answers by number, the handshake, and   *)
(* what becomes of calls when the line breaks.  The daemon at the other    *)
(* end answers in order, events among the answers (Ipc), and keeps its     *)
(* data when it dies.  Of the data only the version matters: how often     *)
(* the clips, the groups and the settings changed.  "settings" are those a *)
(* settings.changed is sent for; the two that a pause writes reach the UI  *)
(* as its `paused` and `pausedUntil`, with state.changed, and in its copy  *)
(* of the settings nobody reads them.                                      *)
(***************************************************************************)
EXTENDS Integers, Sequences, FiniteSets

CONSTANTS
  Place,       \* "history", "root" for the Groups list, and groups
  MaxHappen    \* bound: what users do, changes of the data, deaths of the daemon
               \* and answers to hello that take too long, together

ASSUME UiLinkAssumption == {"history", "root"} \subseteq Place /\ MaxHappen \in Nat

VARIABLES
  up, data,            \* the daemon runs; versions of its data
  told,                \* version of the groups the last groups.changed was about
  sub,                 \* the connection is subscribed to events
  toDaemon, toUi,      \* requests and messages on their way
  cut,                 \* the daemon's end is closed, and the UI has yet to notice
  connected, ready,    \* sock.connected, and hello was answered
  late,                \* 2 s have passed since the handshake began
  pending,             \* calls waiting for their answer: [rid, cb, gone]
  copy,                \* the settings as the UI knows them, or Mixed
  budget               \* of MaxHappen

daemon == <<up, data, told, sub>>
wires == <<toDaemon, toUi>>
side == <<cut, connected, ready, late>>
link == <<daemon, wires, side, pending, copy, budget>>

Kind == {"clips", "groups", "settings"}
View == [place : Place, query : BOOLEAN]
Anywhere == [place |-> "history", query |-> FALSE]
Callback == {"hello", "settings", "list", "groups", "follow", "context", "delete"}
Mixed == -1

Waiting == [rid : Nat \ {0}, cb : Callback, gone : BOOLEAN]
Version == Nat \cup {-1}

\* gRows, the version of the groups that the callback of a list puts above the clips, is
\* the callback's own; it is written down with the request and its answer.
Request == [rid : Nat, cb : Callback, at : View, gRows : Version]
Message == [rid : Nat, op : Callback \cup Kind, at : View, gRows : Version, ver : Nat]

Rids(P) == {p.rid : p \in P}
RidsIn(s) == {s[i].rid : i \in DOMAIN s} \ {0}

LinkType ==
  /\ up \in BOOLEAN /\ sub \in BOOLEAN /\ data \in [Kind -> Nat] /\ told \in 0..data["groups"]
  /\ toDaemon \in Seq(Request) /\ toUi \in Seq(Message) /\ pending \subseteq Waiting
  /\ cut \in BOOLEAN /\ connected \in BOOLEAN /\ ready \in BOOLEAN /\ late \in BOOLEAN
  /\ (ready \/ cut => connected)
  /\ copy \in Nat \cup {Mixed} /\ budget \in 0..MaxHappen

LinkInit ==
  /\ up = TRUE /\ data = [k \in Kind |-> 0] /\ told = 0 /\ sub = FALSE
  /\ toDaemon = <<>> /\ toUi = <<>>
  /\ cut = FALSE /\ connected = FALSE /\ ready = FALSE /\ late = FALSE
  /\ pending = {} /\ copy = Mixed /\ budget = MaxHappen

-----------------------------------------------------------------------------
(* Calls. *)

\* nextId++ gives numbers above those of all calls waiting: here the next ones above.
Highest(P) == CHOOSE i \in Rids(P) \cup {0} : \A j \in Rids(P) : j <= i

Fresh(P, k) == Highest(P) + k

\* The calls cs, a sequence of [cb, at, gRows], on a connected socket; P are the calls
\* waiting already and sent what is on its way.
Calls(P, sent, cs) ==
  /\ pending' = P \cup {[rid |-> Fresh(P, k), cb |-> cs[k].cb, gone |-> FALSE] : k \in DOMAIN cs}
  /\ toDaemon' = sent \o [k \in DOMAIN cs |->
       [rid |-> Fresh(P, k), cb |-> cs[k].cb, at |-> cs[k].at, gRows |-> cs[k].gRows]]

Ask(cb) == [cb |-> cb, at |-> Anywhere, gRows |-> -1]

-----------------------------------------------------------------------------
(* The daemon. *)

Happen == budget > 0 /\ budget' = budget - 1

Say(msgs) == toUi' = IF connected /\ ~cut THEN toUi \o msgs ELSE toUi

Event(k) ==
  IF sub THEN <<[rid |-> 0, op |-> k, at |-> Anywhere, gRows |-> -1, ver |-> data[k] + 1]>> ELSE <<>>

Changed(S) == Happen /\ data' = [k \in Kind |-> IF k \in S THEN data[k] + 1 ELSE data[k]]

\* What changes with the clips: with them the counts in groups.list, and the groups a
\* script's path makes for a clip it files.  No groups.changed is sent for either.
WithClips == {{"clips"}, {"clips", "groups"}}

\* Somebody else, or a capture, changes something; k is what the event is about.
Change(k) ==
  /\ up /\ Say(Event(k))
  /\ \E S \in IF k = "clips" THEN WithClips ELSE {{k}} : Changed(S)
  /\ told' = IF k = "groups" THEN data["groups"] + 1 ELSE told
  /\ UNCHANGED <<up, sub, toDaemon, side, pending, copy>>

\* The path was made and the clip could not be stored: no event at all.
Unsaid == up /\ Changed({"groups"}) /\ UNCHANGED <<up, told, sub, wires, side, pending, copy>>

Answered(cb) == CASE cb \in {"groups", "follow"} -> data["groups"]
                  [] cb = "list" -> data["clips"]
                  [] OTHER -> data["settings"]

\* The next request is answered; a delete is followed by its event first.
Serve ==
  /\ up /\ connected /\ ~cut /\ toDaemon # <<>>
  /\ LET q == Head(toDaemon)
         answer == <<[rid |-> q.rid, op |-> q.cb, at |-> q.at, gRows |-> q.gRows, ver |-> Answered(q.cb)]>> IN
     /\ toDaemon' = Tail(toDaemon)
     /\ sub' = (sub \/ q.cb = "hello")
     /\ \/ q.cb = "delete" /\ (\E S \in WithClips : Changed(S)) /\ Say(Event("clips") \o answer)
        \/ UNCHANGED <<data, budget>> /\ Say(answer)
  /\ UNCHANGED <<up, told, side, pending, copy>>

\* What it wrote before it died may still be read; what it had not read is lost.
Die ==
  /\ up /\ Happen
  /\ up' = FALSE /\ cut' = connected /\ sub' = FALSE /\ toDaemon' = <<>>
  /\ UNCHANGED <<data, told, toUi, connected, ready, late, pending, copy>>

Begin == ~up /\ up' = TRUE /\ UNCHANGED <<data, told, sub, wires, side, pending, copy, budget>>

-----------------------------------------------------------------------------
(* The line. *)

\* The daemon is busy: hello is not answered within 2 s.
Late ==
  /\ connected /\ ~ready /\ ~late /\ late' = TRUE
  /\ Happen
  /\ UNCHANGED <<daemon, wires, cut, connected, ready, pending, copy>>

\* reconnect, twice a second until the handshake succeeds: a new socket for one
\* that is not connected or has waited too long.  Calls made on the old one
\* stay, and what it still had to read is gone.  (The daemon may yet do what it
\* was asked there: a change like anybody's.)
Retry ==
  /\ ~ready /\ (connected => late)
  /\ LET left == {[p EXCEPT !.gone = TRUE] : p \in pending} IN
     IF up THEN Calls(left, <<>>, <<Ask("hello")>>) ELSE pending' = left /\ toDaemon' = <<>>
  /\ connected' = up /\ toUi' = <<>> /\ cut' = FALSE /\ late' = FALSE /\ sub' = FALSE
  /\ UNCHANGED <<up, data, told, ready, copy, budget>>

\* handle: the call an answer is for waits no more.
Taken(m) == {p \in pending : p.rid # m.rid}

\* Mutant: the UI goes on as if it were online.
DownReady ==
  /\ cut /\ connected /\ connected' = FALSE /\ cut' = FALSE /\ late' = FALSE
  /\ toUi' = <<>> /\ toDaemon' = <<>>
  /\ UNCHANGED <<daemon, copy, budget, ready>>

\* onConnectedChanged: the line is down, and failPending takes every call.
Down ==
  /\ cut /\ connected /\ connected' = FALSE /\ cut' = FALSE /\ ready' = FALSE /\ late' = FALSE
  /\ toUi' = <<>> /\ toDaemon' = <<>>
  /\ UNCHANGED <<daemon, copy, budget>>

\* Mutant: calls are left waiting.
FailedKept(P) == P

Failed(P) == {}

\* A settings.changed event carries one setting, to be put among the others.
Patched(v) == IF copy = v - 1 THEN v ELSE Mixed

-----------------------------------------------------------------------------
\* No call is lost and none is answered twice: each call made on the present
\* socket has either its request or its answer on the way, and just one of them;
\* each answer on the way has its call, and the callback that waits is the one it
\* is for.  Once the daemon's end is closed, or the socket given up in mid-handshake,
\* calls may wait in vain, but only until the line is seen to be down: with no
\* socket connected none of them is left.
CallsInFlight ==
  /\ \A p, q \in pending : p.rid = q.rid => p = q
  /\ \A i \in DOMAIN toUi : toUi[i].rid # 0 =>
       \E p \in pending : p.rid = toUi[i].rid /\ p.cb = toUi[i].op /\ ~p.gone
  /\ RidsIn(toUi) \cap RidsIn(toDaemon) = {}
  /\ \A i, j \in DOMAIN toUi : toUi[i].rid = toUi[j].rid /\ toUi[i].rid # 0 => i = j
  /\ ~cut => Rids({p \in pending : ~p.gone}) = RidsIn(toUi) \cup RidsIn(toDaemon)
  /\ \A p \in pending : ~p.gone => connected
=============================================================================
