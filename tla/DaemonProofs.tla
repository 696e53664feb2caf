---------------------------- MODULE DaemonProofs ----------------------------
(***************************************************************************)
(* The daemon on its event loop, for any number of addresses and whichever *)
(* free one calloc gives out, any lengths of time, keys, clips and actions,*)
(* and any number of requests, events and faults.                          *)
(***************************************************************************)
EXTENDS Daemon, TLAPS, FiniteSetTheorems

-----------------------------------------------------------------------------
(* Types. *)

Timer == [at : Addr, due : Nat, who : TimerUser]
Watch == [at : Addr, who : WatchUser, dead : BOOLEAN]

\* An address calloc gives out is one, and not in use.
LEMMA AllocFresh ==
  ASSUME NEW used \in SUBSET Addr, NEW a \in Alloc(used)
  PROVE  a \in Addr /\ a \notin used /\ a # Null
  BY LoopAssumption

LEMMA ArmTyped ==
  ASSUME LoopType, NEW Left \in SUBSET timers, NEW u \in TimerUser, NEW d \in Nat, Arm(Left, u, d)
  PROVE  timers' \subseteq Timer /\ handle' \in [TimerUser -> Addr \cup {Null}]
<1>1. {t.at : t \in Left} \in SUBSET Addr
  BY DEF LoopType
<1>2. PICK a \in Alloc({t.at : t \in Left}) :
        /\ timers' = Left \cup {[at |-> a, due |-> d, who |-> u]}
        /\ handle' = [handle EXCEPT ![u] = a]
  BY DEF Arm
<1>3. a \in Addr
  BY <1>1, <1>2, AllocFresh
<1> QED
  BY <1>2, <1>3 DEF LoopType, Timer

LEMMA DisarmTyped ==
  ASSUME LoopType, NEW Left \in SUBSET timers, NEW u, Disarm(Left, u)
  PROVE  timers' \subseteq Timer /\ handle' \in [TimerUser -> Addr \cup {Null}]
  BY DEF Disarm, LoopType, Timer

LEMMA WatchingTyped ==
  ASSUME LoopType, NEW W \in SUBSET Watch, NEW u \in WatchUser, Watching(u, W)
  PROVE  watches' \subseteq Watch /\ whandle' \in [WatchUser -> Addr \cup {Null}]
<1>1. {w.at : w \in W} \in SUBSET Addr
  BY DEF Watch
<1>2. PICK a \in Alloc({w.at : w \in W}) :
        /\ watches' = W \cup {[at |-> a, who |-> u, dead |-> FALSE]}
        /\ whandle' = [whandle EXCEPT ![u] = a]
  BY DEF Watching
<1>3. a \in Addr
  BY <1>1, <1>2, AllocFresh
<1>4. [at |-> a, who |-> u, dead |-> FALSE] \in Watch
  BY <1>3 DEF Watch
<1>5. whandle' \in [WatchUser -> Addr \cup {Null}]
  BY <1>2, <1>3 DEF LoopType
<1> QED
  BY <1>2, <1>4, <1>5

LEMMA DroppedTyped == ASSUME LoopType, NEW h PROVE Dropped(h) \subseteq Watch
<1>1. \A w \in watches : w \in Watch /\ [w EXCEPT !.dead = TRUE] \in Watch
  BY DEF LoopType, Watch
<1> QED
  BY <1>1 DEF Dropped

LEMMA OpenPipeTyped ==
  ASSUME LoopType, NEW Left \in SUBSET timers, NEW u \in TimerUser, NEW W \in SUBSET Watch,
         OpenPipe(Left, u, W)
  PROVE  /\ timers' \subseteq Timer /\ handle' \in [TimerUser -> Addr \cup {Null}]
         /\ watches' \subseteq Watch /\ whandle' \in [WatchUser -> Addr \cup {Null}]
<1>1. {t.at : t \in Left} \in SUBSET Addr
  BY DEF LoopType
<1>2. PICK a \in Alloc({t.at : t \in Left}) :
        /\ timers' = Left \cup {[at |-> a, due |-> 1, who |-> "format"]}
        /\ handle' = [handle EXCEPT ![u] = Null, !["format"] = a]
  BY DEF OpenPipe
<1>3. a \in Addr
  BY <1>1, <1>2, AllocFresh
<1>4. timers' \subseteq Timer /\ handle' \in [TimerUser -> Addr \cup {Null}]
  BY <1>2, <1>3, DaemonAssumption DEF LoopType, Timer
<1>5. Watching("pipe", W)
  BY DEF OpenPipe
<1> QED
  BY <1>4, <1>5, DaemonAssumption, WatchingTyped

\* What is left of a minute, as whole minutes, and in ticks again.
LEMMA RoundUp ==
  ASSUME NEW n \in Nat
  PROVE  /\ (n + Minute - 1) \div Minute \in Nat
         /\ ((n + Minute - 1) \div Minute) * Minute \in Nat
         /\ ((n + Minute - 1) \div Minute) * Minute >= n
         /\ ((n + Minute - 1) \div Minute) * Minute < n + Minute
<1>1. Minute \in Nat /\ Minute > 0
  BY SessionAssumption
<1> DEFINE m == n + Minute - 1
           q == m \div Minute
           r == m % Minute
<1>2. m \in Nat
  BY <1>1
<1>3. q \in Int /\ r \in 0..(Minute - 1) /\ m = Minute * q + r
  BY <1>1, <1>2
<1> QED
  BY <1>1, <1>2, <1>3

\* The requests that pause and resume; every one of them leaves the loop's
\* timers and the settings of the type.
LEMMA PauseTyped ==
  ASSUME LoopType, SessionType, NEW Left \in SUBSET timers
  PROVE  /\ \A n \in Nat : AppPause(Left, n) =>
              /\ timers' \subseteq Timer /\ handle' \in [TimerUser -> Addr \cup {Null}] /\ SessionType'
         /\ AppResume(Left) =>
              /\ timers' \subseteq Timer /\ handle' \in [TimerUser -> Addr \cup {Null}] /\ SessionType'
<1>1. ASSUME NEW n \in Nat, AppPause(Left, n)
      PROVE  timers' \subseteq Timer /\ handle' \in [TimerUser -> Addr \cup {Null}] /\ SessionType'
  <2>1. n * Minute \in Nat
    BY SessionAssumption
  <2>2. SessionType'
    BY <1>1, <2>1 DEF AppPause, Put, SessionType, Wish
  <2>3. Arm(Left, "pause", n * Minute) \/ Disarm(Left, "pause")
    BY <1>1 DEF AppPause
  <2> QED
    BY <2>1, <2>2, <2>3, ArmTyped, DisarmTyped, DaemonAssumption
<1>2. ASSUME AppResume(Left)
      PROVE  timers' \subseteq Timer /\ handle' \in [TimerUser -> Addr \cup {Null}] /\ SessionType'
  BY <1>2, DisarmTyped DEF AppResume, Put, SessionType, Wish
<1> QED
  BY <1>1, <1>2

LEMMA StartPauseTyped ==
  ASSUME LoopType, SessionType, StartPause
  PROVE  timers' \subseteq Timer /\ handle' \in [TimerUser -> Addr \cup {Null}] /\ SessionType'
<1>1. Unpaused \in SUBSET timers
  BY DEF Unpaused, Without
<1>2. CASE AppResume(Unpaused)
  BY <1>1, <1>2, PauseTyped
<1>3. CASE until # NoEnd /\ AppPause(Unpaused, Remaining)
  <2>1. until \in Nat
    BY <1>3 DEF SessionType
  <2>2. Remaining \in Nat
    BY <2>1, RoundUp DEF Remaining
  <2> QED
    BY <1>1, <1>3, <2>2, PauseTyped
<1>4. CASE UNCHANGED <<session, timing>>
  BY <1>4 DEF session, timing, SessionType, LoopType, Timer
<1> QED
  BY <1>2, <1>3, <1>4 DEF StartPause

\* Whatever a timer leaves behind, the list without it is part of the list.
LEMMA LeftTyped == (\A h : Without(h) \subseteq timers) /\ Unpaused \subseteq timers
  BY DEF Without, Unpaused

\* A step that neither touches watches nor the round.
LEMMA TimersOnly ==
  ASSUME LoopType, UNCHANGED <<watching, batch, phase>>,
         timers' \subseteq Timer, handle' \in [TimerUser -> Addr \cup {Null}]
  PROVE  LoopType'
  BY DEF LoopType, watching, Timer

\* The loop's blocks and the settings of the pause keep their types.
LEMMA LoopTypeStep == TypeOK /\ [Next]_vars => LoopType' /\ SessionType'
<1> SUFFICES ASSUME TypeOK, [Next]_vars PROVE LoopType' /\ SessionType'
  OBVIOUS
<1>0. LoopType /\ SessionType
  BY DEF TypeOK
<1>a. ASSUME UNCHANGED session PROVE SessionType'
  BY <1>0, <1>a DEF session, SessionType
<1>b. ASSUME UNCHANGED loop PROVE LoopType'
  BY <1>0, <1>b DEF loop, timing, watching, LoopType
<1>c. ASSUME NEW u, Handles(u) PROVE batch' \in Seq(Event) /\ phase' \in Phase
  <2>1. batch \in Seq(Event) /\ batch # <<>> /\ batch' = Tail(batch) /\ phase' = phase
    BY <1>0, <1>c DEF Handles, LoopType
  <2> QED
    BY <1>0, <2>1 DEF LoopType
<1>d. ASSUME timers' \subseteq Timer, handle' \in [TimerUser -> Addr \cup {Null}],
             watches' \subseteq Watch, whandle' \in [WatchUser -> Addr \cup {Null}],
             batch' \in Seq(Event), phase' \in Phase
      PROVE  LoopType'
  BY <1>d DEF LoopType, Timer, Watch
<1>e. ASSUME UNCHANGED timing PROVE timers' \subseteq Timer /\ handle' \in [TimerUser -> Addr \cup {Null}]
  BY <1>0, <1>e DEF timing, LoopType, Timer
<1>f. ASSUME UNCHANGED watching PROVE watches' \subseteq Watch /\ whandle' \in [WatchUser -> Addr \cup {Null}]
  BY <1>0, <1>f DEF watching, LoopType, Watch
<1>g. ASSUME UNCHANGED <<batch, phase>> PROVE batch' \in Seq(Event) /\ phase' \in Phase
  BY <1>0, <1>g DEF LoopType
<1>h. ASSUME NEW u, Unwatch(u) PROVE watches' \subseteq Watch /\ whandle' \in [WatchUser -> Addr \cup {Null}]
  BY <1>0, <1>h, DroppedTyped DEF Unwatch, LoopType
<1>i. watches \subseteq Watch
  BY <1>0 DEF LoopType, Watch
<1>1. CASE Start
  <2>1. PICK at \in [{"board", "ipc"} \cup (IF link' THEN {"hypr"} ELSE {}) -> Addr] :
          /\ watches' = {[at |-> at[u], who |-> u, dead |-> FALSE] : u \in DOMAIN at}
          /\ whandle' = [u \in WatchUser |-> IF u \in DOMAIN at THEN at[u] ELSE Null]
    BY <1>1 DEF Start
  <2>2. DOMAIN at \subseteq WatchUser
    BY DaemonAssumption
  <2>3. watches' \subseteq Watch /\ whandle' \in [WatchUser -> Addr \cup {Null}]
    <3>1. \A u \in DOMAIN at : at[u] \in Addr /\ [at |-> at[u], who |-> u, dead |-> FALSE] \in Watch
      BY <2>2 DEF Watch
    <3>2. watches' \subseteq Watch
      BY <2>1, <3>1
    <3>3. whandle' \in [WatchUser -> Addr \cup {Null}]
      BY <2>1, <3>1
    <3> QED
      BY <3>2, <3>3
  <2>4. timers' \subseteq Timer /\ handle' \in [TimerUser -> Addr \cup {Null}]
    BY <1>0, <1>1, <1>e, ArmTyped, DaemonAssumption DEF Start
  <2>5. UNCHANGED <<batch, phase>> /\ UNCHANGED session
    BY <1>1 DEF Start
  <2> QED
    BY <1>a, <1>d, <1>g, <2>3, <2>4, <2>5
<1>2. CASE Resumed
  BY <1>0, <1>2, StartPauseTyped, TimersOnly DEF Resumed
<1>3. CASE Ready
  <2>1. \E d \in Nat : Arm(timers, "retention", d)
    BY <1>3, DaemonAssumption DEF Ready
  <2>2. timers' \subseteq Timer /\ handle' \in [TimerUser -> Addr \cup {Null}]
    BY <1>0, <2>1, ArmTyped, DaemonAssumption
  <2> QED
    BY <1>0, <1>3, <1>a, <2>2, TimersOnly DEF Ready
<1>4. CASE Die
  <2>1. Lost /\ UNCHANGED session
    BY <1>4 DEF Die
  <2> QED
    BY <1>a, <2>1 DEF Lost, LoopType, Phase
<1>5. CASE Request
  <2>1. batch' \in Seq(Event) /\ phase' \in Phase
    BY <1>5, <1>c DEF Request, Hear
  <2>2. CASE \E m \in 0..MaxPause : AppPause(Unpaused, m) /\ UNCHANGED watching
    <3>1. PICK m \in Nat : AppPause(Unpaused, m)
      BY <2>2, SessionAssumption
    <3> QED
      BY <1>0, <1>d, <1>f, <2>1, <2>2, <3>1, LeftTyped, PauseTyped
  <2>3. CASE AppResume(Unpaused) /\ UNCHANGED watching
    BY <1>0, <1>d, <1>f, <2>1, <2>3, LeftTyped, PauseTyped
  <2>4. CASE (\E b \in BOOLEAN : RawPaused(b)) /\ UNCHANGED watching
    <3>1. SessionType' /\ UNCHANGED timing
      BY <1>0, <2>4 DEF RawPaused, SessionType, Wish
    <3> QED
      BY <1>d, <1>e, <1>f, <2>1, <2>4, <3>1
  <2>5. CASE (\E m \in 1..MaxPause : RawUntil(m * Minute)) /\ UNCHANGED watching
    <3>1. PICK m \in 1..MaxPause : RawUntil(m * Minute)
      BY <2>5
    <3>2. m * Minute \in Nat
      BY SessionAssumption
    <3>3. SessionType' /\ UNCHANGED timing
      BY <1>0, <3>1, <3>2 DEF RawUntil, SessionType, Wish
    <3> QED
      BY <1>d, <1>e, <1>f, <2>1, <2>5, <3>3
  <2>6. CASE UNCHANGED <<session, timing, watching>>
    BY <1>a, <1>d, <1>e, <1>f, <2>1, <2>6
  <2> QED
    BY <1>5, <2>2, <2>3, <2>4, <2>5, <2>6 DEF Request, Pausing
<1>6. ASSUME NEW b \in ours, Press(b) PROVE LoopType' /\ SessionType'
  <2>1. batch' \in Seq(Event) /\ phase' \in Phase
    BY <1>6, <1>c DEF Press, Hear
  <2>2. (AppResume(Unpaused) \/ AppPause(Unpaused, 0)) /\ UNCHANGED watching
    BY <1>6 DEF Press, Pausing
  <2>3. timers' \subseteq Timer /\ handle' \in [TimerUser -> Addr \cup {Null}] /\ SessionType'
    BY <1>0, <2>2, LeftTyped, PauseTyped
  <2> QED
    BY <1>d, <1>f, <2>1, <2>2, <2>3
<1>7. ASSUME NEW t \in timers, PauseEnds(t) PROVE LoopType' /\ SessionType'
  <2>1. AppResume(timers \ {t}) \/ (Disarm(timers \ {t}, "pause") /\ UNCHANGED session)
    BY <1>7 DEF PauseEnds, PauseOver
  <2>2. timers' \subseteq Timer /\ handle' \in [TimerUser -> Addr \cup {Null}] /\ SessionType'
    BY <1>0, <1>a, <2>1, PauseTyped, DisarmTyped
  <2> QED
    BY <1>0, <1>7, <2>2, TimersOnly DEF PauseEnds
<1>8. ASSUME NEW t \in timers, NEW S, Retain(t, S) PROVE LoopType' /\ SessionType'
  <2>1. timers' \subseteq Timer /\ handle' \in [TimerUser -> Addr \cup {Null}]
    BY <1>0, <1>8, DisarmTyped DEF Retain
  <2> QED
    BY <1>0, <1>8, <1>a, <2>1, TimersOnly DEF Retain
<1>9. CASE Closed
  <2>1. timers' \subseteq Timer /\ handle' \in [TimerUser -> Addr \cup {Null}]
    BY <1>0, <1>9, ArmTyped, DaemonAssumption DEF Closed
  <2> QED
    BY <1>9, <1>a, <1>c, <1>d, <1>h, <2>1 DEF Closed
<1>10. CASE Reloaded
  BY <1>10, <1>a, <1>c, <1>d, <1>e, <1>f DEF Reloaded
<1>11. ASSUME NEW t \in timers, Reconnect(t) PROVE LoopType' /\ SessionType'
  <2>1. timers' \subseteq Timer /\ handle' \in [TimerUser -> Addr \cup {Null}]
    BY <1>0, <1>11, ArmTyped, DisarmTyped, DaemonAssumption DEF Reconnect
  <2>2. watches' \subseteq Watch /\ whandle' \in [WatchUser -> Addr \cup {Null}]
    BY <1>0, <1>11, <1>f, <1>i, WatchingTyped, DaemonAssumption DEF Reconnect
  <2> QED
    BY <1>11, <1>a, <1>d, <1>g, <2>1, <2>2 DEF Reconnect
<1>12. CASE Selection
  <2> DEFINE Left == {t \in timers : t.at \notin {handle["debounce"], handle["format"]}}
  <2>1. PICK a \in Alloc({t.at : t \in Left}) :
          /\ timers' = Left \cup {[at |-> a, due |-> 0, who |-> "debounce"]}
          /\ handle' = [handle EXCEPT !["debounce"] = a, !["format"] = Null]
    BY <1>12 DEF Selection
  <2>2. {t.at : t \in Left} \in SUBSET Addr
    BY <1>0 DEF LoopType
  <2>3. a \in Addr
    BY <2>1, <2>2, AllocFresh
  <2>4. timers' \subseteq Timer /\ handle' \in [TimerUser -> Addr \cup {Null}]
    BY <1>0, <2>1, <2>3, DaemonAssumption DEF LoopType, Timer
  <2>5. Unwatch("pipe") /\ Handles("board") /\ UNCHANGED session
    BY <1>12 DEF Selection, Hear, Still
  <2> QED
    BY <1>a, <1>c, <1>d, <1>h, <2>4, <2>5
<1>13. ASSUME NEW t \in timers, Debounced(t) PROVE LoopType' /\ SessionType'
  <2>1. OpenPipe(timers \ {t}, "debounce", watches) /\ UNCHANGED <<batch, phase>> /\ UNCHANGED session
    BY <1>13 DEF Debounced, Still
  <2> QED
    BY <1>0, <1>a, <1>d, <1>g, <1>i, <2>1, OpenPipeTyped, DaemonAssumption
<1>14. ASSUME NEW Left \in SUBSET timers, EndFormat(Left)
       PROVE  /\ timers' \subseteq Timer /\ handle' \in [TimerUser -> Addr \cup {Null}]
              /\ watches' \subseteq Watch /\ whandle' \in [WatchUser -> Addr \cup {Null}]
  <2> DEFINE W == Dropped(whandle["pipe"])
  <2>0. W \subseteq Watch
    BY <1>0, DroppedTyped
  <2>1. CASE OpenPipe(Left, "format", W)
    BY <1>0, <2>0, <2>1, OpenPipeTyped, DaemonAssumption
  <2>2. CASE Disarm(Left, "format") /\ watches' = W /\ whandle' = [whandle EXCEPT !["pipe"] = Null]
    <3>1. timers' \subseteq Timer /\ handle' \in [TimerUser -> Addr \cup {Null}]
      BY <1>0, <2>2, DisarmTyped
    <3>2. whandle' \in [WatchUser -> Addr \cup {Null}]
      BY <1>0, <2>2 DEF LoopType
    <3> QED
      BY <2>0, <2>2, <3>1, <3>2
  <2> QED
    BY <1>14, <2>1, <2>2 DEF EndFormat
<1>15. CASE Readable
  <2>1. EndFormat(Without(handle["format"])) /\ Handles("pipe") /\ UNCHANGED session
    BY <1>15 DEF Readable, Still
  <2> QED
    BY <1>14, <1>a, <1>c, <1>d, <2>1, LeftTyped
<1>16. ASSUME NEW t \in timers, TimedOut(t) PROVE LoopType' /\ SessionType'
  <2>1. EndFormat(timers \ {t}) /\ UNCHANGED <<batch, phase>> /\ UNCHANGED session
    BY <1>16 DEF TimedOut, Still
  <2> QED
    BY <1>14, <1>a, <1>d, <1>g, <2>1
<1>17. CASE Round /\ Still
  <2>1. UNCHANGED session
    BY <1>17 DEF Still
  <2>2. CASE \E n \in 0..MaxBatch : \E ready \in [1..n -> Known] : Wait(ready)
    <3>1. PICK n \in 0..MaxBatch : \E ready \in [1..n -> Known] : Wait(ready)
      BY <2>2
    <3>2. PICK ready \in [1..n -> Known] : Wait(ready)
      BY <3>1
    <3>3. n \in Nat /\ Known \subseteq Event
      BY <1>0 DEF MaxBatch, Known, LoopType, Event
    <3>4. ready \in Seq(Event)
      BY <3>3
    <3> QED
      BY <1>a, <1>d, <1>e, <1>f, <2>1, <3>2, <3>4 DEF Wait, Phase
  <2>3. CASE Skip
    BY <1>0, <1>a, <1>d, <1>e, <1>f, <2>1, <2>3 DEF Skip, LoopType
  <2>4. CASE Bury
    BY <1>0, <1>a, <2>1, <2>4 DEF Bury, timing, LoopType, Phase
  <2>5. CASE Settle
    BY <1>0, <1>a, <2>1, <2>5 DEF Settle, timing, watching, LoopType, Phase
  <2> QED
    BY <1>17, <2>2, <2>3, <2>4, <2>5 DEF Round
<1>18. ASSUME Nearer, UNCHANGED <<paused, asked>> PROVE SessionType'
  BY <1>0, <1>18 DEF Nearer, SessionType, NoEnd
<1>19. CASE Tick
  <2>1. Pass \/ UNCHANGED loop
    BY <1>19 DEF Tick
  <2>2. CASE Pass
    <3>1. \A t \in timers : t.due > 0 /\ t \in Timer
      BY <1>0, <2>2 DEF Pass, LoopType, Timer
    <3>2. \A t \in timers : [t EXCEPT !.due = @ - 1] \in Timer
      BY <3>1 DEF Timer
    <3>3. timers' \subseteq Timer /\ handle' \in [TimerUser -> Addr \cup {Null}]
      BY <1>0, <2>2, <3>2 DEF Pass, LoopType
    <3> QED
      BY <1>0, <1>18, <1>19, <2>2, <3>3, TimersOnly DEF Pass, Tick
  <2> QED
    BY <1>18, <1>19, <1>b, <2>1, <2>2 DEF Tick
<1>20. CASE Sleep
  BY <1>18, <1>20, <1>b DEF Sleep
<1>21. CASE UNCHANGED <<loop, session>> \/ UNCHANGED vars
  BY <1>21, <1>a, <1>b DEF vars
<1> QED
  BY <1>1, <1>2, <1>3, <1>4, <1>5, <1>6, <1>7, <1>8, <1>9, <1>10, <1>11, <1>12, <1>13, <1>15,
     <1>16, <1>17, <1>19, <1>20, <1>21 DEF Next

\* A row of the table is a key and an action; a table keeps its type whichever
\* rows go and whichever one is written.
LEMMA RowsTyped ==
  ASSUME HotkeysType
  PROVE  /\ \A I \in SUBSET DOMAIN rows :
              DOMAIN Only(I) \subseteq HotkeyId /\ Only(I) \in [DOMAIN Only(I) -> [accel : Accel, act : Act]]
         /\ Only(DOMAIN rows) = rows
  BY DEF HotkeysType, Only

\* The row about to be written names a clip that is there: clips leave in
\* other handlers, and those run before or after.
SetSound == pc = "conflict" => /\ set \in [id : Nat, accel : Accel, act : Act]
                               /\ set.act \in Uuid => set.act \in clips

\* Once a handler has looked at the hotkeys no ghost is left, whatever is still
\* to be said to the compositor; only a removal of clips or a start brings one.
HotInv ==
  /\ HotkeysType /\ SetSound
  /\ pc \in {"idle", "query", "eval", "conflict"} => Ghosts = {}

\* What the compositor has, or is about to be sent, is what the table wants.
BindInv ==
  (link /\ news = {} /\ ~unsure) =>
    /\ (pc \in {"idle", "conflict"} \/ (pc = "prune" /\ then # "sync")) => ours = Wanted(others)
    /\ pc = "eval" => plan = Wanted(others)

LEMMA WantedTyped == ASSUME HotkeysType, NEW taken PROVE Wanted(taken) \subseteq Bind
  BY DEF HotkeysType, Wanted, Bind

LEMMA WriteRows ==
  ASSUME HotInv, Write
  PROVE  /\ DOMAIN rows' \subseteq HotkeyId /\ rows' \in [DOMAIN rows' -> [accel : Accel, act : Act]]
         /\ Ghosts' = {}
<1>1. PICK keep \in SUBSET DOMAIN rows, i \in HotkeyId :
        rows' = [j \in keep \cup {i} |-> IF j = i THEN [accel |-> set.accel, act |-> set.act] ELSE rows[j]]
  BY DEF Write, WriteRow
<1>2. /\ set.accel \in Accel /\ set.act \in Act /\ (set.act \in Uuid => set.act \in clips)
      /\ clips' = clips /\ Ghosts = {}
  BY DEF Write, HotInv, SetSound
<1>3. \A j \in keep : rows[j] \in [accel : Accel, act : Act] /\ rows[j].act \notin Uuid \ clips
  BY <1>2 DEF HotInv, HotkeysType, Ghosts
<1> QED
  BY <1>1, <1>2, <1>3 DEF HotInv, HotkeysType, Ghosts

\* The steps that bind the hotkeys, prune them and write one.
LEMMA SyncStep ==
  ASSUME HotInv, BindInv, Query \/ Eval \/ Prune \/ Refuse \/ Write
  PROVE  HotInv' /\ BindInv'
<1>0. HotkeysType /\ SetSound
  BY DEF HotInv
<1>1. CASE Query
  <2>a. Wanted(others) \subseteq Bind /\ Wanted({}) \subseteq Bind
    BY <1>0, WantedTyped
  <2>b. Wanted(others)' = Wanted(others) /\ Ghosts' = Ghosts
    BY <1>1 DEF Query, compositor, Wanted, Ghosts
  <2>1. /\ Wanted(others) \subseteq Bind /\ Wanted({}) \subseteq Bind
        /\ Wanted(others)' = Wanted(others) /\ Ghosts' = Ghosts
    BY <2>a, <2>b
  <2>2. HotInv'
    BY <1>1, <2>1 DEF Query, compositor, HotInv, HotkeysType, SetSound
  <2>3. BindInv'
    BY <1>1, <2>1 DEF Query, compositor, BindInv
  <2> QED
    BY <2>2, <2>3
<1>2. CASE Eval
  <2>1. Wanted(others)' = Wanted(others) /\ Ghosts' = Ghosts
    BY <1>2 DEF Eval, Wanted, Ghosts
  <2>2. HotInv'
    BY <1>2, <2>1 DEF Eval, HotInv, HotkeysType, SetSound
  <2>3. BindInv'
    BY <1>2, <2>1 DEF Eval, BindInv
  <2> QED
    BY <2>2, <2>3
<1>3. CASE Prune
  <2>1. DOMAIN rows' \subseteq HotkeyId /\ rows' \in [DOMAIN rows' -> [accel : Accel, act : Act]]
    BY <1>0, <1>3, RowsTyped DEF Prune, Ghosts
  <2>2. Ghosts' = {}
    BY <1>0, <1>3 DEF Prune, Ghosts, Only, HotkeysType
  <2>3. HotInv'
    BY <1>0, <1>3, <2>1, <2>2 DEF Prune, compositor, sync, HotInv, HotkeysType, SetSound
  <2>4. Ghosts = {} => rows' = rows
    BY <1>0, <1>3, RowsTyped DEF Prune
  <2>5. Ghosts = {} => Wanted(others)' = Wanted(others)
    BY <1>3, <2>4 DEF Prune, compositor, Wanted
  <2>6. BindInv'
    BY <1>3, <2>5 DEF Prune, compositor, sync, BindInv
  <2> QED
    BY <2>3, <2>6
<1>4. CASE Refuse
  <2>1. Wanted(others)' = Wanted(others) /\ Ghosts' = Ghosts
    BY <1>4 DEF Refuse, compositor, Wanted, Ghosts
  <2>2. HotInv'
    BY <1>4, <2>1 DEF Refuse, compositor, sync, HotInv, HotkeysType, SetSound
  <2>3. BindInv'
    BY <1>4, <2>1 DEF Refuse, compositor, sync, BindInv
  <2> QED
    BY <2>2, <2>3
<1>5. CASE Write
  <2>1. HotInv'
    BY <1>5, <1>0, WriteRows DEF Write, compositor, sync, HotInv, HotkeysType, SetSound
  <2>2. BindInv'
    BY <1>5 DEF Write, BindInv
  <2> QED
    BY <2>1, <2>2
<1> QED
  BY <1>1, <1>2, <1>3, <1>4, <1>5

\* A handler that leaves hotkeys, clips and compositor alone.
LEMMA HotAlone ==
  ASSUME HotInv, BindInv, UNCHANGED <<clips, rows, compositor, link, pc, set, sync>>,
         then' \in {"none", "rearm", "sync", "start", "pause"},
         then = then' \/ pc # "prune"
  PROVE  HotInv' /\ BindInv'
<1>1. Ghosts' = Ghosts /\ Wanted(others)' = Wanted(others)
  BY DEF compositor, Ghosts, Wanted
<1>2. HotInv'
  BY <1>1 DEF HotInv, compositor, sync, HotkeysType, SetSound
<1>3. BindInv'
  BY <1>1 DEF BindInv, compositor, sync
<1> QED
  BY <1>2, <1>3

\* Clips leave: the hotkeys are looked at next.
LEMMA RemoveStep ==
  ASSUME HotInv, BindInv, pc = "idle", NEW S, Remove(S),
         then' \in {"none", "rearm", "sync", "start", "pause"}
  PROVE  HotInv' /\ BindInv'
<1>1. Wanted(others)' = Wanted(others)
  BY DEF Remove, compositor, Wanted
<1>2. HotInv'
  BY DEF Remove, HotInv, compositor, sync, HotkeysType, SetSound
<1>3. BindInv'
  BY <1>1 DEF Remove, BindInv, compositor, sync
<1> QED
  BY <1>2, <1>3

\* The requests about hotkeys and clips.
LEMMA RequestStep ==
  ASSUME HotInv, BindInv, pc = "idle",
         \/ \E i \in 0..MaxHotkey, a \in Accel, act \in Act : SetHotkey(i, a, act)
         \/ \E i \in DOMAIN rows : RemoveHotkey(i)
         \/ \E S \in SUBSET clips : Remove(S) /\ UNCHANGED then
         \/ \E c \in Uuid \ clips : Arrive(c)
  PROVE  HotInv' /\ BindInv'
<1>0. HotkeysType /\ Ghosts = {}
  BY DEF HotInv
<1>1. ASSUME NEW i \in 0..MaxHotkey, NEW a \in Accel, NEW act \in Act, SetHotkey(i, a, act)
      PROVE  HotInv' /\ BindInv'
  <2>1. Ghosts' = Ghosts /\ Wanted(others)' = Wanted(others)
    BY <1>1 DEF SetHotkey, compositor, Ghosts, Wanted
  <2>2. set' = [id |-> i, accel |-> a, act |-> act] /\ (act \in Uuid => act \in clips')
        /\ set' \in [id : Nat, accel : Accel, act : Act]
    BY <1>1, HotkeysAssumption DEF SetHotkey
  <2>3. HotInv'
    BY <1>0, <1>1, <2>1, <2>2 DEF SetHotkey, HotInv, compositor, sync, HotkeysType, SetSound
  <2>4. BindInv'
    BY <1>1, <2>1 DEF SetHotkey, BindInv, compositor, sync
  <2> QED
    BY <2>3, <2>4
<1>2. ASSUME NEW i \in DOMAIN rows, RemoveHotkey(i) PROVE HotInv' /\ BindInv'
  <2>1. DOMAIN rows' \subseteq HotkeyId /\ rows' \in [DOMAIN rows' -> [accel : Accel, act : Act]]
    BY <1>0, <1>2, RowsTyped DEF RemoveHotkey
  <2>2. Ghosts' = {}
    BY <1>0, <1>2 DEF RemoveHotkey, Ghosts, Only
  <2>3. HotInv'
    BY <1>0, <1>2, <2>1, <2>2 DEF RemoveHotkey, HotInv, compositor, sync, HotkeysType, SetSound
  <2>4. BindInv'
    BY <1>2 DEF RemoveHotkey, BindInv
  <2> QED
    BY <2>3, <2>4
<1>3. ASSUME NEW S \in SUBSET clips, Remove(S) /\ UNCHANGED then PROVE HotInv' /\ BindInv'
  BY <1>0, <1>3, RemoveStep DEF HotkeysType
<1>4. ASSUME NEW c \in Uuid \ clips, Arrive(c) PROVE HotInv' /\ BindInv'
  <2>1. Ghosts' = {} /\ Wanted(others)' = Wanted(others)
    BY <1>0, <1>4 DEF Arrive, compositor, Ghosts, Wanted
  <2>2. HotInv'
    BY <1>0, <1>4, <2>1 DEF Arrive, HotInv, compositor, sync, HotkeysType, SetSound
  <2>3. BindInv'
    BY <1>4, <2>1 DEF Arrive, BindInv, compositor, sync
  <2> QED
    BY <2>2, <2>3
<1> QED
  BY <1>1, <1>2, <1>3, <1>4

\* The steps of the daemon, for the hotkeys.
LEMMA HotStep == HotInv /\ BindInv /\ [Next]_vars => HotInv' /\ BindInv'
<1> SUFFICES ASSUME HotInv, BindInv, [Next]_vars PROVE HotInv' /\ BindInv'
  OBVIOUS
<1>0. HotkeysType /\ SetSound /\ then \in {"none", "rearm", "sync", "start", "pause"}
  BY DEF HotInv, HotkeysType
<1>a. CASE UNCHANGED hot
  BY <1>0, <1>a, HotAlone DEF hot
<1>1. CASE Start
  <2>1. UNCHANGED <<clips, rows, ours, others, news, set, plan, unsure>> /\ link' \in BOOLEAN
        /\ pc' = "prune" /\ then' = "sync"
    BY <1>1 DEF Start, compositor, sync
  <2> QED
    BY <1>0, <2>1 DEF HotInv, HotkeysType, SetSound, BindInv
<1>2. CASE Resumed
  BY <1>0, <1>2, HotAlone DEF Resumed, Idle
<1>3. CASE Ready
  BY <1>0, <1>3, HotAlone DEF Ready, Idle
<1>4. CASE Die
  BY <1>0, <1>4 DEF Die, HotInv, HotkeysType, SetSound, BindInv
<1>5. CASE Request
  <2>1. pc = "idle"
    BY <1>5 DEF Request, Hear, Calm, Idle
  <2>2. CASE UNCHANGED hot
    BY <1>a, <2>2
  <2>3. CASE \/ \E i \in 0..MaxHotkey, a \in Accel, act \in Act : SetHotkey(i, a, act)
             \/ \E i \in DOMAIN rows : RemoveHotkey(i)
             \/ \E S \in SUBSET clips : Remove(S) /\ UNCHANGED then
             \/ \E c \in Uuid \ clips : Arrive(c)
    BY <2>1, <2>3, RequestStep
  <2> QED
    BY <1>5, <2>2, <2>3 DEF Request, Pausing
<1>6. CASE \E b \in ours : Press(b)
  BY <1>6, <1>a DEF Press, Pausing
<1>7. ASSUME NEW t \in timers, PauseEnds(t) PROVE HotInv' /\ BindInv'
  BY <1>7, <1>a DEF PauseEnds
<1>8. ASSUME NEW t \in timers, NEW S \in SUBSET clips, Retain(t, S) PROVE HotInv' /\ BindInv'
  <2>1. pc = "idle" /\ then' = "rearm"
    BY <1>8 DEF Retain, Ring, Calm, Idle
  <2>2. CASE S = {}
    BY <1>8, <2>1, <2>2, HotAlone DEF Retain
  <2>3. CASE S # {}
    BY <1>8, <2>1, <2>3, RemoveStep DEF Retain
  <2> QED
    BY <2>2, <2>3
<1>9. CASE Closed
  <2>1. UNCHANGED <<clips, rows, ours, others, pc, then, set, sync>> /\ link' = FALSE /\ news' = {}
    BY <1>9 DEF Closed
  <2>2. Ghosts' = Ghosts
    BY <2>1 DEF Ghosts
  <2> QED
    BY <1>0, <2>1, <2>2 DEF HotInv, HotkeysType, SetSound, BindInv, sync
<1>10. CASE Reloaded
  <2>1. /\ UNCHANGED <<clips, rows, ours, others, link, then, set, sync>> /\ news' = {} /\ pc' = "query"
        /\ pc = "idle"
    BY <1>10 DEF Reloaded, Calm, Idle
  <2>2. Ghosts' = Ghosts
    BY <2>1 DEF Ghosts
  <2> QED
    BY <1>0, <2>1, <2>2 DEF HotInv, HotkeysType, SetSound, BindInv, sync
<1>11. ASSUME NEW t \in timers, Reconnect(t) PROVE HotInv' /\ BindInv'
  <2>1. /\ pc = "idle" /\ UNCHANGED <<clips, rows, compositor, then, set, sync>>
        /\ UNCHANGED <<link, pc>> \/ (link' = TRUE /\ pc' = "query")
    BY <1>11 DEF Reconnect, Ring, Calm, Idle
  <2>2. CASE UNCHANGED <<link, pc>>
    BY <1>0, <2>1, <2>2, HotAlone
  <2>3. CASE link' = TRUE /\ pc' = "query"
    <3>1. Ghosts' = Ghosts
      BY <2>1 DEF Ghosts
    <3> QED
      BY <1>0, <2>1, <2>3, <3>1 DEF HotInv, HotkeysType, SetSound, BindInv, sync, compositor
  <2> QED
    BY <2>1, <2>2, <2>3
<1>12. CASE Selection \/ Readable \/ (\E t \in timers : Debounced(t) \/ TimedOut(t)) \/ (Round /\ Still)
  BY <1>12, <1>a DEF Selection, Readable, Debounced, TimedOut, Still
<1>13. CASE (Tick /\ UNCHANGED hot) \/ Sleep
  BY <1>13, <1>a DEF Sleep
<1>14. CASE Query \/ Eval \/ Prune \/ Refuse \/ Write
  BY <1>14, SyncStep
<1>15. ASSUME NEW K \in SUBSET Accel, Reload(K) PROVE HotInv' /\ BindInv'
  <2>1. /\ UNCHANGED <<clips, rows, link, pc, then, set, sync>> /\ others' = K /\ ours' = {}
        /\ news' = IF link THEN news \cup {"reload"} ELSE news
    BY <1>15 DEF Reload
  <2>2. Ghosts' = Ghosts
    BY <2>1 DEF Ghosts
  <2>3. HotInv'
    BY <1>0, <2>1, <2>2 DEF HotInv, HotkeysType, SetSound, sync
  <2>4. BindInv'
    BY <2>1 DEF BindInv
  <2> QED
    BY <2>3, <2>4
<1>16. CASE LinkLost
  <2>1. /\ UNCHANGED <<clips, rows, others, link, pc, then, set, sync>> /\ news' = news \cup {"eof"}
        /\ ours' \in {ours, {}}
    BY <1>16 DEF LinkLost
  <2>2. Ghosts' = Ghosts
    BY <2>1 DEF Ghosts
  <2>3. HotInv'
    BY <1>0, <2>1, <2>2 DEF HotInv, HotkeysType, SetSound, sync
  <2>4. BindInv'
    BY <2>1 DEF BindInv
  <2> QED
    BY <2>3, <2>4
<1>17. CASE UNCHANGED vars
  BY <1>17, <1>a DEF vars
<1> QED
  BY <1>1, <1>2, <1>3, <1>4, <1>5, <1>6, <1>7, <1>8, <1>9, <1>10, <1>11, <1>12, <1>13, <1>14,
     <1>15, <1>16, <1>17 DEF Next

LEMMA HotInit == Init => HotInv /\ BindInv
<1> SUFFICES ASSUME Init PROVE HotInv /\ BindInv
  OBVIOUS
<1>1. HotkeysType
  BY HotkeysAssumption DEF Init, HotkeysInit, HotkeysType
<1> QED
  BY <1>1 DEF Init, HotkeysInit, HotInv, SetSound, BindInv

LEMMA HotInductive == Spec => [](HotInv /\ BindInv)
  BY HotInit, HotStep, PTL DEF Spec

\* No hotkey is ever left that pastes a clip that is gone, over any number of
\* removals, retentions, imports and deaths between the two transactions.
THEOREM NoGhosts == Spec => []NoGhostHotkeys
<1>1. HotInv => NoGhostHotkeys
  BY DEF HotInv, NoGhostHotkeys
<1> QED
  BY <1>1, HotInductive, PTL

\* The compositor's binds are those the table wants whenever nothing has gone
\* unheard: no reload, lost socket or death leaves a bind behind or a key dead.
THEOREM BindsAreWanted == Spec => []BindsMatch
<1>1. BindInv => BindsMatch
  BY DEF BindInv, BindsMatch
<1> QED
  BY <1>1, HotInductive, PTL

\* Every reachable state of the daemon is well typed.
THEOREM DaemonTyped == Spec => []TypeOK
<1>1. Init => TypeOK
  <2> SUFFICES ASSUME Init PROVE TypeOK
    OBVIOUS
  <2>1. HotkeysType
    BY HotInit DEF HotInv
  <2>2. <<>> \in Seq(Event) /\ "wait" \in Phase
    BY DEF Phase
  <2>3. LoopType
    BY <2>2 DEF Init, Empty, LoopType
  <2>4. SessionType /\ budget \in 0..MaxNews
    <3>1. SessionType
      BY DEF Init, SessionInit, SessionType, Wish
    <3>2. budget = MaxNews /\ MaxNews \in Nat
      BY DaemonAssumption DEF Init
    <3> QED
      BY <3>1, <3>2
  <2> QED
    BY <2>1, <2>3, <2>4 DEF TypeOK
<1>2. TypeOK /\ [Next]_vars => budget' \in 0..MaxNews
  <2> SUFFICES ASSUME budget \in 0..MaxNews, [Next]_vars PROVE budget' \in 0..MaxNews
    BY DEF TypeOK
  <2>1. CASE UNCHANGED budget
    BY <2>1
  <2>2. CASE Spend
    BY <2>2, DaemonAssumption DEF Spend
  <2>3. CASE Round
    <3>1. CASE UNCHANGED budget
      BY <3>1
    <3>2. ASSUME NEW n \in 0..MaxBatch, NEW ready,
                 budget' = budget - Cardinality({i \in 1..n : ready[i].who \in {"ipc", "board"}}),
                 budget' >= 0
          PROVE  budget' \in 0..MaxNews
      <4> DEFINE Spent == {i \in 1..n : ready[i].who \in {"ipc", "board"}}
      <4>1. IsFiniteSet(1..n)
        BY FS_Interval DEF MaxBatch
      <4>2. Spent \in SUBSET (1..n)
        OBVIOUS
      <4> HIDE DEF Spent
      <4>3. Cardinality(Spent) \in Nat
        BY <4>1, <4>2, FS_Subset, FS_CardinalityType
      <4> QED
        BY <3>2, <4>3, DaemonAssumption DEF Spent
    <3> QED
      BY <2>3, <3>1, <3>2 DEF Round, Free
  <2>4. CASE Start \/ Resumed \/ Ready \/ Request \/ Closed \/ Reloaded \/ Selection \/ Readable
             \/ (\E b \in ours : Press(b)) \/ (Tick /\ Free /\ UNCHANGED hot)
             \/ ((Query \/ Eval \/ Prune \/ Refuse \/ Write) /\ Free /\ UNCHANGED <<loop, session>>)
    BY <2>1, <2>4 DEF Start, Resumed, Ready, Request, Closed, Reloaded, Selection, Readable, Press, Hear, Free
  <2>5. CASE \/ \E t \in timers : PauseEnds(t) \/ Reconnect(t) \/ Debounced(t) \/ TimedOut(t)
             \/ \E t \in timers, S \in SUBSET clips : Retain(t, S)
    BY <2>1, <2>5 DEF PauseEnds, Reconnect, Debounced, TimedOut, Retain, Free
  <2>6. CASE Die \/ Sleep
    BY <2>2, <2>6 DEF Die, Sleep
  <2>7. CASE UNCHANGED vars
    BY <2>1, <2>7 DEF vars
  <2> QED
    BY <2>2, <2>3, <2>4, <2>5, <2>6, <2>7 DEF Next
<1>3. TypeOK /\ HotInv' /\ [Next]_vars => TypeOK'
  BY <1>2, LoopTypeStep DEF TypeOK, HotInv
<1> QED
  BY <1>1, <1>3, HotInductive, PTL DEF Spec
=============================================================================
