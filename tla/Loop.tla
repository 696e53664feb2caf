-------------------------------- MODULE Loop --------------------------------
(***************************************************************************)
(* The daemon's event loop (loop.c): timers and watches are blocks of      *)
(* memory whose address is the only name their users hold.  An address is  *)
(* free again as soon as its block is, so a name kept too long may come to *)
(* name another's timer or watch.                                          *)
(*                                                                         *)
(* One round: epoll_wait hands out a batch of ready watches, their         *)
(* handlers run in that order, the watches deleted meanwhile are freed,    *)
(* then the due timers run.  Delays count down, so time never ends.        *)
(***************************************************************************)
EXTENDS Integers, Sequences, FiniteSets

CONSTANTS
  Addr,        \* addresses of timers and of watches
  Null,        \* no timer, no watch
  TimerUser,   \* the places in the program that keep a timer
  WatchUser,   \* the places that keep a watch
  Alloc(_)     \* the addresses calloc may give out while those are in use

ASSUME LoopAssumption ==
  /\ Null \notin Addr
  /\ \A used \in SUBSET Addr : Alloc(used) \subseteq Addr \ used

VARIABLES
  timers,      \* armed timers: [at, due, who], `due` as ticks to go
  handle,      \* the timer pointer each user keeps
  watches,     \* allocated watches: [at, who, dead]
  whandle,     \* the watch pointer each user keeps
  batch,       \* [at, who] of the events still to be dispatched
  phase        \* where loop_run is

timing == <<timers, handle>>
watching == <<watches, whandle>>
loop == <<timing, watching, batch, phase>>

Phase == {"wait", "dispatch", "timers"}
Event == [at : Addr, who : WatchUser]
MaxBatch == 2   \* bound: the code takes 32 events at a time

LoopType ==
  /\ timers \subseteq [at : Addr, due : Nat, who : TimerUser]
  /\ handle \in [TimerUser -> Addr \cup {Null}]
  /\ watches \subseteq [at : Addr, who : WatchUser, dead : BOOLEAN]
  /\ whandle \in [WatchUser -> Addr \cup {Null}]
  /\ batch \in Seq(Event) /\ phase \in Phase

Empty ==
  /\ timers = {} /\ handle = [u \in TimerUser |-> Null]
  /\ batch = <<>> /\ phase = "wait"

\* The process died, or ends: its memory is gone.
Lost ==
  /\ timers' = {} /\ handle' = [u \in TimerUser |-> Null]
  /\ watches' = {} /\ whandle' = [u \in WatchUser |-> Null]
  /\ batch' = <<>> /\ phase' = "wait"

-----------------------------------------------------------------------------
(* Timers.  `Left` is the list once the timer that fired, or the one a      *)
(* handler cancelled, is out of it.                                         *)

\* loop_timer_cancel: a pointer to no timer in the list is ignored.
Without(h) == {t \in timers : t.at # h}

Arm(Left, u, d) ==
  \E a \in Alloc({t.at : t \in Left}) :
    /\ timers' = Left \cup {[at |-> a, due |-> d, who |-> u]}
    /\ handle' = [handle EXCEPT ![u] = a]

Disarm(Left, u) == timers' = Left /\ handle' = [handle EXCEPT ![u] = Null]

\* run_timers pops the first due timer before it calls it.
Fires(t, u) ==
  /\ phase = "timers" /\ t \in timers /\ t.who = u
  /\ t.due = 0 /\ \A s \in timers : t.due <= s.due

-----------------------------------------------------------------------------
(* Watches. *)

Watching(u, W) ==
  \E a \in Alloc({w.at : w \in W}) :
    /\ watches' = W \cup {[at |-> a, who |-> u, dead |-> FALSE]}
    /\ whandle' = [whandle EXCEPT ![u] = a]

\* Mutant: the block is freed at once.
DroppedNow(h) == {w \in watches : w.at # h}

\* loop_del_fd: the block stays until the batch is done.
Dropped(h) == {IF w.at = h THEN [w EXCEPT !.dead = TRUE] ELSE w : w \in watches}

Unwatch(u) == watches' = Dropped(whandle[u]) /\ whandle' = [whandle EXCEPT ![u] = Null]

-----------------------------------------------------------------------------
(* The round. *)

\* epoll_wait: watches with something to read, in any order; none when a
\* timer is due.  A deleted watch is out of the epoll set.
Wait(ready) ==
  /\ phase = "wait"
  /\ ready # <<>> \/ \E t \in timers : t.due = 0
  /\ \A i \in 1..Len(ready) : [at |-> ready[i].at, who |-> ready[i].who, dead |-> FALSE] \in watches
  /\ \A i, j \in 1..Len(ready) : ready[i].at = ready[j].at => i = j
  /\ batch' = ready /\ phase' = "dispatch"
  /\ UNCHANGED <<timing, watching>>

\* The next event is for user u: a watch deleted since is passed by.
Handles(u) ==
  /\ phase = "dispatch" /\ batch # <<>> /\ Head(batch).who = u
  /\ [at |-> Head(batch).at, who |-> u, dead |-> FALSE] \in watches
  /\ batch' = Tail(batch) /\ UNCHANGED phase

Skip ==
  /\ phase = "dispatch" /\ batch # <<>>
  /\ \E w \in watches : w.at = Head(batch).at /\ w.dead
  /\ batch' = Tail(batch)
  /\ UNCHANGED <<timing, watching, phase>>

\* The graveyard is emptied once the batch is done.
Bury ==
  /\ phase = "dispatch" /\ batch = <<>>
  /\ watches' = {w \in watches : ~w.dead} /\ phase' = "timers"
  /\ UNCHANGED <<timing, whandle, batch>>

Settle ==
  /\ phase = "timers" /\ \A t \in timers : t.due > 0
  /\ phase' = "wait"
  /\ UNCHANGED <<timing, watching, batch>>

\* Mutant: the wait is not cut short by a due timer.
PassLate ==
  /\ phase = "wait"
  /\ timers' = {[t EXCEPT !.due = @ - 1] : t \in timers}
  /\ UNCHANGED <<handle, watching, batch, phase>>

\* A tick passes while the loop waits; a due timer ends the wait first.
Pass ==
  /\ phase = "wait" /\ \A t \in timers : t.due > 0
  /\ timers' = {[t EXCEPT !.due = @ - 1] : t \in timers}
  /\ UNCHANGED <<handle, watching, batch, phase>>

-----------------------------------------------------------------------------
\* Every pointer a user keeps names the user's own armed timer, and every armed
\* timer is held by its user: no cancel takes another's timer away and no timer
\* is left that nobody can cancel, although addresses are used again.
HandlesOwn ==
  /\ \A s, t \in timers : s.at = t.at => s = t
  /\ \A t \in timers : handle[t.who] = t.at
  /\ \A u \in TimerUser : handle[u] # Null => \E t \in timers : t.at = handle[u] /\ t.who = u

\* An event still to be dispatched is for a block that is still there and is
\* the watch it was when the batch was taken, however many watches the handlers
\* before it deleted and added.
BatchSound ==
  /\ \A v, w \in watches : v.at = w.at => v = w
  /\ \A i \in 1..Len(batch) : \E w \in watches : w.at = batch[i].at /\ w.who = batch[i].who

LoopSound == HandlesOwn /\ BatchSound
=============================================================================
