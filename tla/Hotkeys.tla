------------------------------ MODULE Hotkeys -------------------------------
(***************************************************************************)
(* Global hotkeys (hotkeys.c): the table, and the binds the daemon asks    *)
(* the compositor for over its request socket (hypr.c).  A request is two  *)
(* messages, each answered before the daemon goes on; the compositor may   *)
(* reload its configuration between them, may not answer in time, and may  *)
(* have done what it did not answer.                                       *)
(***************************************************************************)
EXTENDS Integers, FiniteSets

CONSTANTS
  Accel,     \* keys
  Uuid,      \* clips
  Plain,     \* actions that name no clip, "pause" among them
  MaxHotkey  \* bound: ids

ASSUME HotkeysAssumption == Uuid \cap Plain = {} /\ "pause" \in Plain /\ MaxHotkey \in Nat

VARIABLES
  clips,     \* uuids in table clips
  rows,      \* table hotkeys: id -> [accel, act]
  ours,      \* binds of ours the compositor has: [accel, id]
  others,    \* keys its configuration binds
  link,      \* the event socket is open
  news,      \* what is to be read from it: "reload", "eof"
  pc,        \* what the daemon is in the middle of
  then,      \* what it goes on with after the hotkeys
  set,       \* the row a hotkeys_set is about to write: [id, accel, act]
  plan,      \* the binds of the Lua text about to be sent
  unsure     \* the last sync saw no binds, or its Lua did not run

compositor == <<ours, others, news>>
sync == <<plan, unsure>>
hot == <<clips, rows, compositor, link, pc, then, set, sync>>

HotkeyId == 1..MaxHotkey
Act == Uuid \cup Plain
Bind == [accel : Accel, id : HotkeyId]
Nothing == [id |-> 0, accel |-> "none", act |-> "pause"]

HotkeysType ==
  /\ clips \subseteq Uuid
  /\ DOMAIN rows \subseteq HotkeyId /\ rows \in [DOMAIN rows -> [accel : Accel, act : Act]]
  /\ ours \subseteq Bind /\ plan \subseteq Bind
  /\ others \subseteq Accel /\ link \in BOOLEAN /\ news \subseteq {"reload", "eof"}
  /\ pc \in {"down", "idle", "conflict", "prune", "query", "eval"}
  /\ then \in {"none", "rearm", "sync", "start", "pause"}
  /\ set \in [id : Nat, accel : Accel, act : Act] \cup {Nothing} /\ unsure \in BOOLEAN

HotkeysInit ==
  /\ clips = {} /\ rows = [i \in {} |-> Nothing]
  /\ ours = {} /\ others = {} /\ link = FALSE /\ news = {}
  /\ pc = "down" /\ then = "none" /\ set = Nothing /\ plan = {} /\ unsure = FALSE

-----------------------------------------------------------------------------
(* hotkeys_sync: ask which keys are taken, then send the binds as one text. *)

\* The keys of a row, unless something else has them.
Wanted(taken) == {[accel |-> rows[i].accel, id |-> i] : i \in {j \in DOMAIN rows : rows[j].accel \notin taken}}

\* Mutant: the keys the configuration has are bound as well.
QueryBlind ==
  /\ pc = "query" /\ pc' = "eval"
  /\ plan' = Wanted({}) /\ unsure' = FALSE
  /\ UNCHANGED <<clips, rows, compositor, link, then, set>>

\* A query that is not answered reads as "nothing is bound".
Query ==
  /\ pc = "query" /\ pc' = "eval"
  /\ \/ plan' = Wanted(others) /\ unsure' = FALSE
     \/ plan' = Wanted({}) /\ unsure' = TRUE
  /\ UNCHANGED <<clips, rows, compositor, link, then, set>>

\* The Lua removes the binds it left last time and adds those of the plan.
Eval ==
  /\ pc = "eval" /\ pc' = IF then = "sync" THEN "query" ELSE "idle"
  /\ \/ ours' = plan /\ UNCHANGED unsure
     \/ UNCHANGED ours /\ unsure' = TRUE
  /\ then' = IF then = "sync" THEN "start" ELSE then
  /\ UNCHANGED <<clips, rows, others, news, link, set, plan>>

-----------------------------------------------------------------------------
(* The compositor. *)

\* A configuration reload drops every bind made at run time.
Reload(keys) ==
  /\ others' = keys /\ ours' = {}
  /\ news' = IF link THEN news \cup {"reload"} ELSE news
  /\ UNCHANGED <<clips, rows, link, pc, then, set, sync>>

\* It closes the event socket, and is still there or begins anew.
LinkLost ==
  /\ link /\ news' = news \cup {"eof"}
  /\ ours' \in {ours, {}}
  /\ UNCHANGED <<clips, rows, others, link, pc, then, set, sync>>

-----------------------------------------------------------------------------
(* The table. *)

Only(I) == [i \in I |-> rows[i]]

\* hotkeys_prune: hotkeys of clips that are gone go too; the binds are made
\* again only when there were some.
Ghosts == {i \in DOMAIN rows : rows[i].act \in Uuid \ clips}

Prune ==
  /\ pc = "prune"
  /\ rows' = Only(DOMAIN rows \ Ghosts)
  /\ pc' = IF Ghosts # {} \/ then = "sync" THEN "query" ELSE "idle"
  /\ then' = IF then = "sync" /\ Ghosts = {} THEN "start" ELSE then
  /\ UNCHANGED <<clips, compositor, link, set, sync>>

\* hotkeys_set, up to its look at the compositor's binds.
SetHotkey(i, a, act) ==
  /\ act \in Uuid => act \in clips
  /\ set' = [id |-> i, accel |-> a, act |-> act] /\ pc' = "conflict"
  /\ UNCHANGED <<clips, rows, compositor, link, then, sync>>

\* A clip has one hotkey: the one it had before goes.
Replaced == {i \in DOMAIN rows : set.act \in Uuid /\ rows[i].act = set.act /\ i # set.id}

\* SQLite hands out max(rowid) + 1, of the rows there are once those are gone.
NewId ==
  LET used == DOMAIN rows \ Replaced IN
  IF used = {} THEN 1 ELSE CHOOSE i \in 2..(MaxHotkey + 1) : i - 1 \in used /\ \A j \in used : j < i

Refuse ==
  /\ pc = "conflict" /\ pc' = "idle" /\ set' = Nothing
  /\ \/ set.accel \in others
     \/ \E i \in DOMAIN rows \ {set.id} : rows[i].accel = set.accel
     \/ set.id # 0 /\ set.id \notin DOMAIN rows
  /\ UNCHANGED <<clips, rows, compositor, link, then, sync>>

WriteRow(keep, i) ==
  /\ i \in HotkeyId
  /\ rows' = [j \in keep \cup {i} |-> IF j = i THEN [accel |-> set.accel, act |-> set.act] ELSE rows[j]]

\* A query that fails shows no conflict, so the last guard is the table's own.
Write ==
  /\ pc = "conflict" /\ pc' = "query" /\ set' = Nothing
  /\ \A i \in DOMAIN rows \ {set.id} : rows[i].accel # set.accel
  /\ IF set.id = 0 THEN WriteRow(DOMAIN rows \ Replaced, NewId)
     ELSE set.id \in DOMAIN rows /\ WriteRow(DOMAIN rows \ Replaced, set.id)
  /\ UNCHANGED <<clips, compositor, link, then, sync>>

RemoveHotkey(i) ==
  /\ i \in DOMAIN rows /\ rows' = Only(DOMAIN rows \ {i}) /\ pc' = "query"
  /\ UNCHANGED <<clips, compositor, link, then, set, sync>>

\* Mutant: clips are removed and the hotkeys forgotten.
RemoveOnly(S) ==
  /\ S \subseteq clips /\ S # {}
  /\ clips' = clips \ S /\ UNCHANGED <<rows, compositor, link, pc, set, sync>>

\* Clips leave by request, with their group, or by retention; the hotkeys are
\* looked at in the same handler, but in another transaction.
Remove(S) ==
  /\ S \subseteq clips /\ S # {}
  /\ clips' = clips \ S /\ pc' = "prune"
  /\ UNCHANGED <<rows, compositor, link, set, sync>>

\* Content stored under a new uuid, or under the one it had by an import.
Arrive(c) ==
  /\ c \in Uuid \ clips /\ clips' = clips \cup {c}
  /\ UNCHANGED <<rows, compositor, link, pc, then, set, sync>>

-----------------------------------------------------------------------------
\* Between handlers no hotkey pastes a clip that is gone, whichever way the clip
\* went and wherever a crash cut the handler off: the start prunes as well.
NoGhostHotkeys == pc = "idle" => Ghosts = {}

\* Unless the last sync went wrong or the compositor still has something to
\* tell, its binds are those of the table whose keys the user's configuration
\* leaves free: none is missing after a reload, none left over from a hotkey or
\* clip since removed.
BindsMatch == (pc = "idle" /\ link /\ news = {} /\ ~unsure) => ours = Wanted(others)
=============================================================================
