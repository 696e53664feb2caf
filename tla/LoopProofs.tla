----------------------------- MODULE LoopProofs -----------------------------
(***************************************************************************)
(* The daemon's timers, watches and pauses (Daemon), for any number of     *)
(* addresses and whichever free one calloc gives out: no pointer comes to  *)
(* name another's block, and a timed pause always has its timer.           *)
(***************************************************************************)
EXTENDS DaemonProofs

-----------------------------------------------------------------------------
(* Moves of the timers: those of the users U go, and one of them may get a  *)
(* new one.  Under HandlesOwn every handler's change of the list is one.    *)

Left(U) == {t \in timers : t.who \notin U}

Gone(U) == timers' = Left(U) /\ handle' = [u \in TimerUser |-> IF u \in U THEN Null ELSE handle[u]]

New(U, v, d) ==
  \E a \in Addr \ {t.at : t \in Left(U)} :
    /\ timers' = Left(U) \cup {[at |-> a, due |-> d, who |-> v]}
    /\ handle' = [u \in TimerUser |-> IF u = v THEN a ELSE IF u \in U THEN Null ELSE handle[u]]

LEMMA GoneMove ==
  ASSUME LoopType, HandlesOwn, NEW U \in SUBSET TimerUser, Gone(U)
  PROVE  /\ HandlesOwn'
         /\ \A t \in timers' : t \in timers /\ t.who \notin U
         /\ \A t \in timers : t.who \notin U => t \in timers'
         /\ \A u \in TimerUser : handle'[u] = IF u \in U THEN Null ELSE handle[u]
<1>1. \A u \in TimerUser : handle'[u] = IF u \in U THEN Null ELSE handle[u]
  BY DEF Gone
<1>2. timers' = {t \in timers : t.who \notin U}
  BY DEF Gone, Left
<1>3. \A t \in timers : t.who \in TimerUser
  BY DEF LoopType
<1>4. HandlesOwn'
  BY <1>1, <1>2, <1>3 DEF HandlesOwn
<1> QED
  BY <1>1, <1>2, <1>4

\* What a new timer of v leaves of the list and of the pointers.
Renewed(U, v, d) ==
  /\ \A t \in timers' : (t \in timers /\ t.who \notin U) \/ (t.who = v /\ t.due = d)
  /\ \A t \in timers : t.who \notin U => t \in timers'
  /\ \A u \in TimerUser : u # v => handle'[u] = IF u \in U THEN Null ELSE handle[u]
  /\ \E t \in timers' : t.who = v /\ t.at = handle'[v] /\ t.due = d

LEMMA NewMove ==
  ASSUME LoopType, HandlesOwn, NEW U \in SUBSET TimerUser, NEW v \in U, NEW d \in Nat, New(U, v, d)
  PROVE  HandlesOwn' /\ Renewed(U, v, d)
<1>1. PICK a \in Addr \ {t.at : t \in Left(U)} :
        /\ timers' = Left(U) \cup {[at |-> a, due |-> d, who |-> v]}
        /\ handle' = [u \in TimerUser |-> IF u = v THEN a ELSE IF u \in U THEN Null ELSE handle[u]]
  BY DEF New
<1> DEFINE n == [at |-> a, due |-> d, who |-> v]
<1>2. \A u \in TimerUser : handle'[u] = IF u = v THEN a ELSE IF u \in U THEN Null ELSE handle[u]
  BY <1>1
<1>3. timers' = {t \in timers : t.who \notin U} \cup {n}
  BY <1>1 DEF Left
<1>4. \A t \in timers : t.who \in TimerUser /\ (t.who \notin U => t.at # a)
  BY <1>1 DEF LoopType, Left
<1>5. n.at = a /\ n.who = v /\ n.due = d
  OBVIOUS
<1> HIDE DEF n
<1>6. ASSUME NEW s \in timers', NEW t \in timers', s.at = t.at PROVE s = t
  BY <1>3, <1>4, <1>5, <1>6 DEF HandlesOwn
<1>7. ASSUME NEW t \in timers' PROVE handle'[t.who] = t.at
  BY <1>2, <1>3, <1>4, <1>5, <1>7 DEF HandlesOwn
<1>8. ASSUME NEW u \in TimerUser, handle'[u] # Null
      PROVE  \E t \in timers' : t.at = handle'[u] /\ t.who = u
  <2>1. CASE u = v
    BY <1>2, <1>3, <1>5, <2>1
  <2>2. CASE u # v
    <3>1. u \notin U /\ handle'[u] = handle[u]
      BY <1>2, <1>8, <2>2
    <3>2. PICK t \in timers : t.at = handle[u] /\ t.who = u
      BY <1>8, <3>1 DEF HandlesOwn
    <3> QED
      BY <1>3, <3>1, <3>2
  <2> QED
    BY <2>1, <2>2
<1>9. HandlesOwn'
  BY <1>6, <1>7, <1>8 DEF HandlesOwn
<1> QED
  BY <1>2, <1>3, <1>5, <1>9 DEF Renewed

\* The list a handler goes on with is the one without its user's timer: the
\* timer that fired, the one the handle names, or none as there is none.
LEMMA LeftIs ==
  ASSUME LoopType, HandlesOwn, NEW u \in TimerUser
  PROVE  /\ Without(handle[u]) = Left({u})
         /\ \A t \in timers : t.who = u => timers \ {t} = Left({u})
         /\ (\A t \in timers : t.who # u) => timers = Left({u})
<1>1. \A t \in timers : t.at \in Addr /\ t.at # Null
  BY LoopAssumption DEF LoopType
<1>2. \A t \in timers : t.at = handle[u] <=> t.who = u
  BY <1>1 DEF HandlesOwn
<1>3. \A s, t \in timers : s.who = u /\ t.who = u => s = t
  BY DEF HandlesOwn
<1> QED
  BY <1>2, <1>3 DEF Without, Left

LEMMA DisarmIs ==
  ASSUME LoopType, NEW u \in TimerUser, Disarm(Left({u}), u)
  PROVE  Gone({u})
  BY DEF Disarm, Gone, LoopType

LEMMA ArmIs ==
  ASSUME LoopType, NEW u \in TimerUser, NEW d, Arm(Left({u}), u, d)
  PROVE  New({u}, u, d)
<1>1. {t.at : t \in Left({u})} \in SUBSET Addr
  BY DEF LoopType, Left
<1>2. PICK a \in Alloc({t.at : t \in Left({u})}) :
        /\ timers' = Left({u}) \cup {[at |-> a, due |-> d, who |-> u]}
        /\ handle' = [handle EXCEPT ![u] = a]
  BY DEF Arm
<1>3. a \in Addr \ {t.at : t \in Left({u})}
  BY <1>1, <1>2, AllocFresh
<1>4. handle' = [x \in TimerUser |-> IF x = u THEN a ELSE IF x \in {u} THEN Null ELSE handle[x]]
  BY <1>2 DEF LoopType
<1> QED
  BY <1>2, <1>3, <1>4 DEF New

\* The pipe's limit takes the place of the user's timer that led to it.
LEMMA OpenPipeIs ==
  ASSUME LoopType, NEW U \in SUBSET TimerUser, NEW u \in U, "format" \in U,
         U = {u, "format"}, NEW W, OpenPipe(Left(U), u, W)
  PROVE  New(U, "format", 1) /\ Watching("pipe", W)
<1>1. {t.at : t \in Left(U)} \in SUBSET Addr
  BY DEF LoopType, Left
<1>2. PICK a \in Alloc({t.at : t \in Left(U)}) :
        /\ timers' = Left(U) \cup {[at |-> a, due |-> 1, who |-> "format"]}
        /\ handle' = [handle EXCEPT ![u] = Null, !["format"] = a]
  BY DEF OpenPipe
<1>3. a \in Addr \ {t.at : t \in Left(U)}
  BY <1>1, <1>2, AllocFresh
<1>4. handle' = [x \in TimerUser |-> IF x = "format" THEN a ELSE IF x \in U THEN Null ELSE handle[x]]
  BY <1>2 DEF LoopType
<1>5. New(U, "format", 1)
  BY <1>2, <1>3, <1>4 DEF New
<1> QED
  BY <1>5 DEF OpenPipe

-----------------------------------------------------------------------------
(* Which timers there can be together, and what a pause needs. *)

Apart ==
  /\ link => \A t \in timers : t.who # "reconnect"
  /\ then # "none" => \A t \in timers : t.who # "retention"
  /\ handle["debounce"] # Null => handle["format"] = Null
  /\ pc = "down" => timers = {}

Held == AsAsked /\ ((Up /\ then \notin {"sync", "start"}) => PauseArmed)

\* A live watch is the one its user's pointer names; the one of the event
\* socket means that it is open, and no pipe is read while a capture waits.
Live(W, h) == \A w \in W : ~w.dead => h[w.who] = w.at

Watched ==
  /\ Live(watches, whandle)
  /\ \A w \in watches : (~w.dead /\ w.who = "hypr") => link
  /\ handle["debounce"] # Null => whandle["pipe"] = Null
  /\ pc = "down" => batch = <<>>

LoopInv == LoopSound /\ Apart /\ Watched

\* A move of other users' timers leaves the pause its timer.
LEMMA PauseStays ==
  ASSUME \A t \in timers : t.who = "pause" => t \in timers',
         handle'["pause"] = handle["pause"], UNCHANGED session, PauseArmed
  PROVE  PauseArmed'
  BY DEF PauseArmed, AsAsked, session

\* Requests, hotkeys, the timer and the start: a pause that is begun has its
\* timer, one that is over needs none.
LEMMA PauseIs ==
  ASSUME LoopType, HandlesOwn,
         \/ \E m \in Nat : AppPause(Left({"pause"}), m)
         \/ AppResume(Left({"pause"}))
  PROVE  /\ PauseArmed'
         /\ Gone({"pause"}) \/ \E d \in Nat : New({"pause"}, "pause", d)
<1>1. ASSUME NEW m \in Nat, AppPause(Left({"pause"}), m)
      PROVE  PauseArmed' /\ (Gone({"pause"}) \/ \E d \in Nat : New({"pause"}, "pause", d))
  <2>1. CASE m = 0
    BY <1>1, <2>1, DisarmIs, DaemonAssumption DEF AppPause, PauseArmed, AsAsked
  <2>2. CASE m # 0
    <3>0. m * Minute \in Nat /\ m * Minute # NoEnd
      BY SessionAssumption DEF NoEnd
    <3>1. asked' = "garbled" \/ (asked' = "timed" /\ paused' /\ until' = m * Minute)
      BY <1>1, <2>2 DEF AppPause
    <3>2. New({"pause"}, "pause", m * Minute)
      BY <1>1, <2>2, ArmIs, DaemonAssumption DEF AppPause
    <3>3. \E t \in timers' : t.who = "pause" /\ t.at = handle'["pause"] /\ t.due = m * Minute
      <4>1. {"pause"} \in SUBSET TimerUser /\ "pause" \in {"pause"}
        BY DaemonAssumption
      <4>2. ASSUME NEW d \in Nat, New({"pause"}, "pause", d)
            PROVE  \E t \in timers' : t.who = "pause" /\ t.at = handle'["pause"] /\ t.due = d
        <5>1. Renewed({"pause"}, "pause", d)
          BY <4>1, <4>2, NewMove
        <5> QED
          BY <5>1 DEF Renewed
      <4> QED
        BY <3>0, <3>2, <4>2, Zenon
    <3>4. PauseArmed'
      BY <3>0, <3>1, <3>3 DEF PauseArmed, AsAsked
    <3> QED
      BY <3>0, <3>2, <3>4
  <2> QED
    BY <2>1, <2>2
<1>2. CASE AppResume(Left({"pause"}))
  BY <1>2, DisarmIs, DaemonAssumption DEF AppResume, PauseArmed, AsAsked
<1> QED
  BY <1>1, <1>2

\* The timers after the move of one user other than the pause's, or of the two
\* of a capture.
LEMMA MoveApart ==
  ASSUME LoopType, HandlesOwn, PauseArmed, UNCHANGED session,
         NEW U \in SUBSET TimerUser, "pause" \notin U, NEW v \in U, NEW d \in Nat,
         Gone(U) \/ New(U, v, d)
  PROVE  /\ HandlesOwn' /\ PauseArmed'
         /\ \A t \in timers' : (t \in timers /\ t.who \notin U) \/ t.who = v
         /\ \A u \in TimerUser : u \notin U => handle'[u] = handle[u]
         /\ \A u \in U : u # v => handle'[u] = Null
<1>1. /\ HandlesOwn'
      /\ \A t \in timers' : (t \in timers /\ t.who \notin U) \/ t.who = v
      /\ \A t \in timers : t.who \notin U => t \in timers'
      /\ \A u \in TimerUser : u # v => handle'[u] = IF u \in U THEN Null ELSE handle[u]
  <2>1. CASE Gone(U)
    BY <2>1, GoneMove
  <2>2. CASE New(U, v, d)
    <3>1. HandlesOwn' /\ Renewed(U, v, d)
      BY <2>2, NewMove
    <3> QED
      BY <3>1 DEF Renewed
  <2> QED
    BY <2>1, <2>2
<1>2. "pause" \in TimerUser
  BY DaemonAssumption
<1>3. PauseArmed'
  BY <1>1, <1>2, PauseStays
<1> QED
  BY <1>1, <1>3

-----------------------------------------------------------------------------
(* Every step, for the timers. *)

TimersStep == HandlesOwn' /\ Apart' /\ Held'

LEMMA TimersStill ==
  ASSUME LoopInv, Held, UNCHANGED <<timing, session>>, UNCHANGED whandle,
         link' => link, then' # "none" => then # "none",
         pc' = "down" => pc = "down",
         pc' = "down" \/ then' \in {"sync", "start"} \/ (pc # "down" /\ then \notin {"sync", "start"})
  PROVE  TimersStep
<1>1. UNCHANGED <<timers, handle>>
  BY DEF timing
<1>2. HandlesOwn'
  BY <1>1 DEF LoopInv, LoopSound, HandlesOwn
<1>3. Apart'
  BY <1>1 DEF LoopInv, Apart
<1>4. PauseArmed => PauseArmed'
  BY <1>1 DEF PauseArmed, AsAsked, session
<1>5. Held'
  BY <1>4 DEF Held, Up, AsAsked, session
<1> QED
  BY <1>2, <1>3, <1>5 DEF TimersStep

\* Requests and hotkeys that pause or resume, a pause that ends, and the
\* start's look at the settings.
LEMMA TimersPause ==
  ASSUME LoopType, SessionType, LoopInv, UNCHANGED <<link, pc>>, pc # "down",
         then' # "none" => then # "none",
         \/ \E m \in Nat : AppPause(Left({"pause"}), m)
         \/ AppResume(Left({"pause"}))
  PROVE  TimersStep
<1>0. HandlesOwn /\ Apart /\ {"pause"} \in SUBSET TimerUser /\ "pause" \in {"pause"}
  BY DaemonAssumption DEF LoopInv, LoopSound
<1>1. PauseArmed' /\ (Gone({"pause"}) \/ \E d \in Nat : New({"pause"}, "pause", d))
  BY <1>0, PauseIs
<1>2. /\ HandlesOwn' /\ \A t \in timers' : t \in timers \/ t.who = "pause"
      /\ \A u \in TimerUser : u # "pause" => handle'[u] = handle[u]
  <2>1. CASE Gone({"pause"})
    BY <1>0, <2>1, GoneMove
  <2>2. ASSUME NEW d \in Nat, New({"pause"}, "pause", d)
        PROVE  /\ HandlesOwn' /\ \A t \in timers' : t \in timers \/ t.who = "pause"
               /\ \A u \in TimerUser : u # "pause" => handle'[u] = handle[u]
    <3>1. HandlesOwn' /\ Renewed({"pause"}, "pause", d)
      BY <1>0, <2>2, NewMove
    <3> QED
      BY <3>1 DEF Renewed
  <2> QED
    BY <1>1, <2>1, <2>2
<1>3. Apart'
  BY <1>0, <1>2, DaemonAssumption DEF Apart
<1>4. Held'
  BY <1>1 DEF Held, PauseArmed
<1> QED
  BY <1>2, <1>3, <1>4 DEF TimersStep

\* Time passes for all timers alike, and for the date no faster.
LEMMA TimersPass ==
  ASSUME LoopType, SessionType, LoopInv, PauseArmed, Pass, Nearer, UNCHANGED <<paused, asked, hot>>
  PROVE  TimersStep
<1>1. \A t \in timers : t.due \in Nat /\ t.due > 0
  BY DEF LoopType, Pass
<1>2. /\ timers' = {[t EXCEPT !.due = @ - 1] : t \in timers} /\ UNCHANGED handle
      /\ UNCHANGED <<link, then, pc>>
  BY DEF Pass, hot
<1>3. \A t \in timers : LET s == [t EXCEPT !.due = @ - 1] IN
        s \in timers' /\ s.at = t.at /\ s.who = t.who /\ s.due = t.due - 1
  BY <1>2 DEF LoopType
<1>4. \A s \in timers' : \E t \in timers : s = [t EXCEPT !.due = @ - 1] /\ s.at = t.at /\ s.who = t.who
  BY <1>2 DEF LoopType
<1>5. HandlesOwn /\ Apart
  BY DEF LoopInv, LoopSound
<1>6. HandlesOwn'
  <2>1. ASSUME NEW s \in timers', NEW t \in timers', s.at = t.at PROVE s = t
    BY <1>4, <1>5, <2>1 DEF HandlesOwn
  <2>2. ASSUME NEW t \in timers' PROVE handle'[t.who] = t.at
    BY <1>2, <1>4, <1>5, <2>2 DEF HandlesOwn
  <2>3. ASSUME NEW u \in TimerUser, handle'[u] # Null
        PROVE  \E t \in timers' : t.at = handle'[u] /\ t.who = u
    <3>1. PICK t \in timers : t.at = handle[u] /\ t.who = u
      BY <1>2, <1>5, <2>3 DEF HandlesOwn
    <3> QED
      BY <1>2, <1>3, <3>1
  <2> QED
    BY <2>1, <2>2, <2>3 DEF HandlesOwn
<1>7. Apart'
  <2>1. timers = {} => timers' = {}
    BY <1>2
  <2> QED
    BY <1>2, <1>4, <1>5, <2>1 DEF Apart
<1>8. PauseArmed'
  <2>0. AsAsked'
    BY DEF PauseArmed, AsAsked, Nearer, NoEnd, SessionType
  <2> SUFFICES ASSUME asked' = "timed"
               PROVE  \E t \in timers' : t.who = "pause" /\ t.at = handle'["pause"] /\ t.due >= until'
    BY <2>0 DEF PauseArmed
  <2>1. asked = "timed" /\ until # NoEnd /\ until \in Nat
    BY DEF PauseArmed, AsAsked, SessionType
  <2>2. PICK t \in timers : t.who = "pause" /\ t.at = handle["pause"] /\ t.due >= until
    BY <2>1 DEF PauseArmed
  <2>3. t.due - 1 >= until'
    BY <1>1, <2>1, <2>2 DEF Nearer
  <2> QED
    BY <1>2, <1>3, <2>2, <2>3
<1> QED
  BY <1>6, <1>7, <1>8 DEF TimersStep, Held, PauseArmed

\* A handler pauses or resumes (requests and hotkeys).
LEMMA TimersCalm ==
  ASSUME TypeOK, LoopInv, Held, Calm, UNCHANGED hot,
         AppResume(Unpaused) \/ \E m \in Nat : AppPause(Unpaused, m)
  PROVE  TimersStep
<1>1. LoopType /\ SessionType /\ HandlesOwn
  BY DEF TypeOK, LoopInv, LoopSound
<1>2. Unpaused = Left({"pause"})
  BY <1>1, LeftIs, DaemonAssumption DEF Unpaused
<1>3. UNCHANGED <<link, pc>> /\ pc # "down" /\ (then' # "none" => then # "none")
  BY DEF hot, Calm, Idle
<1>4. AppResume(Left({"pause"})) \/ \E m \in Nat : AppPause(Left({"pause"}), m)
  BY <1>2
<1> QED
  BY <1>1, <1>3, <1>4, TimersPause

LEMMA TimersStart ==
  ASSUME TypeOK, LoopInv, Held, Start \/ Resumed \/ Ready \/ Die
  PROVE  TimersStep
<1>1. LoopType /\ SessionType /\ HandlesOwn /\ Apart /\ "reconnect" # "retention"
  BY DEF TypeOK, LoopInv, LoopSound
<1>2. CASE Start
  <2>1. timers = {} /\ pc' = "prune" /\ then' = "sync"
    BY <1>1, <1>2 DEF Start, Apart
  <2>2. Held'
    BY <1>2, <2>1 DEF Start, Held, AsAsked, session
  <2>3. CASE UNCHANGED timing
    BY <1>1, <2>1, <2>2, <2>3 DEF timing, TimersStep, HandlesOwn, Apart
  <2>4. CASE ~link' /\ Arm(timers, "reconnect", Backoff)
    <3>1. timers = Left({"reconnect"})
      BY <2>1 DEF Left
    <3>2. Arm(Left({"reconnect"}), "reconnect", Backoff)
      BY <2>4, <3>1
    <3>3. New({"reconnect"}, "reconnect", Backoff)
      BY <1>1, <3>2, ArmIs, DaemonAssumption
    <3>4. {"reconnect"} \in SUBSET TimerUser /\ "reconnect" \in {"reconnect"} /\ Backoff \in Nat
      BY DaemonAssumption
    <3>5. HandlesOwn' /\ Renewed({"reconnect"}, "reconnect", Backoff)
      BY <1>1, <3>3, <3>4, NewMove
    <3>6. /\ \A t \in timers' : t.who = "reconnect"
          /\ handle'["debounce"] = handle["debounce"] /\ handle'["format"] = handle["format"]
      BY <2>1, <3>5, DaemonAssumption DEF Renewed
    <3>7. Apart'
      BY <1>1, <2>1, <2>4, <3>6 DEF Apart
    <3> QED
      BY <2>2, <3>5, <3>7 DEF TimersStep
  <2> QED
    BY <1>2, <2>3, <2>4 DEF Start
<1>3. CASE Resumed
  <2>1. UNCHANGED <<link, pc>> /\ pc # "down" /\ then = "start" /\ then' = "pause" /\ StartPause
    BY <1>3 DEF Resumed, Idle
  <2>2. Unpaused = Left({"pause"})
    BY <1>1, LeftIs, DaemonAssumption DEF Unpaused
  <2>3. CASE AppResume(Unpaused)
    BY <1>1, <2>1, <2>2, <2>3, TimersPause
  <2>4. CASE until # NoEnd /\ AppPause(Unpaused, Remaining)
    <3>1. until \in Nat
      BY <1>1, <2>4 DEF SessionType
    <3>2. Remaining \in Nat
      BY <3>1, RoundUp DEF Remaining
    <3>3. \E m \in Nat : AppPause(Left({"pause"}), m)
      BY <2>2, <2>4, <3>2
    <3> QED
      BY <1>1, <2>1, <3>3, TimersPause
  <2>5. CASE ~(paused /\ until # NoEnd) /\ UNCHANGED <<session, timing>>
    <3>1. UNCHANGED <<timers, handle>> /\ AsAsked /\ asked # "timed"
      BY <2>5 DEF timing, Held, AsAsked
    <3>2. PauseArmed'
      BY <2>5, <3>1 DEF session, AsAsked, PauseArmed
    <3> QED
      BY <1>1, <2>1, <3>1, <3>2 DEF TimersStep, HandlesOwn, Apart, Held, PauseArmed
  <2>6. until = 0 => until # NoEnd
    BY DEF NoEnd
  <2> QED
    BY <2>1, <2>3, <2>4, <2>5, <2>6 DEF StartPause
<1>4. CASE Ready
  <2>1. /\ then \in {"pause", "rearm"} /\ then' = "none" /\ UNCHANGED <<link, pc, session>> /\ pc # "down"
        /\ \E d \in Nat : Arm(timers, "retention", d)
    BY <1>4, DaemonAssumption DEF Ready, Idle
  <2>2. PauseArmed
    BY <2>1 DEF Held, Up
  <2>3. timers = Left({"retention"})
    BY <1>1, <2>1 DEF Apart, Left
  <2>4. PICK d \in Nat : Arm(Left({"retention"}), "retention", d)
    BY <2>1, <2>3
  <2>5. New({"retention"}, "retention", d)
    BY <1>1, <2>4, ArmIs, DaemonAssumption
  <2>6. {"retention"} \in SUBSET TimerUser /\ "pause" \notin {"retention"} /\ "retention" \in {"retention"}
    BY DaemonAssumption
  <2>7. /\ HandlesOwn' /\ PauseArmed' /\ \A t \in timers' : t \in timers \/ t.who = "retention"
        /\ \A u \in TimerUser : u \notin {"retention"} => handle'[u] = handle[u]
    BY <1>1, <2>1, <2>2, <2>5, <2>6, MoveApart
  <2>8. Apart'
    BY <1>1, <2>1, <2>7, DaemonAssumption DEF Apart
  <2> QED
    BY <2>7, <2>8 DEF TimersStep, Held, PauseArmed
<1>5. CASE Die
  <2>1. /\ timers' = {} /\ handle' = [u \in TimerUser |-> Null] /\ pc' = "down" /\ then' = "none"
    BY <1>5 DEF Die, Lost
  <2>2. HandlesOwn'
    BY <2>1 DEF HandlesOwn
  <2>3. Apart'
    BY <2>1, DaemonAssumption DEF Apart
  <2>4. Held'
    BY <1>5, <2>1 DEF Die, Held, Up, AsAsked, session
  <2> QED
    BY <2>2, <2>3, <2>4 DEF TimersStep
<1> QED
  BY <1>2, <1>3, <1>4, <1>5

\* The timers of the retention and of the event socket.
LEMMA TimersRing ==
  ASSUME TypeOK, LoopInv, Held,
         \/ \E t \in timers : PauseEnds(t) \/ Reconnect(t)
         \/ \E t \in timers, S \in SUBSET clips : Retain(t, S)
         \/ Closed
  PROVE  TimersStep
<1>1. /\ LoopType /\ SessionType /\ HandlesOwn /\ Apart
      /\ \A w \in watches : (~w.dead /\ w.who = "hypr") => link
  BY DEF TypeOK, LoopInv, LoopSound, Watched
<1>a. Calm => PauseArmed /\ pc # "down" /\ then = "none"
  BY DEF Calm, Idle, Held, Up
<1>2. ASSUME NEW t \in timers, PauseEnds(t) PROVE TimersStep
  <2>1. Calm /\ t.who = "pause" /\ UNCHANGED hot
    BY <1>2 DEF PauseEnds, PauseOver, Fires
  <2>2. timers \ {t} = Left({"pause"})
    BY <1>1, <2>1, LeftIs, DaemonAssumption
  <2>3. UNCHANGED <<link, pc, then>>
    BY <2>1 DEF hot
  <2>4. CASE AppResume(timers \ {t})
    BY <1>1, <1>a, <2>1, <2>2, <2>3, <2>4, TimersPause
  <2>5. CASE ~(paused /\ until # NoEnd) /\ Disarm(timers \ {t}, "pause") /\ UNCHANGED session
    <3>1. Gone({"pause"})
      BY <1>1, <2>2, <2>5, DisarmIs, DaemonAssumption
    <3>2. {"pause"} \in SUBSET TimerUser
      BY DaemonAssumption
    <3>3. /\ HandlesOwn' /\ \A s \in timers' : s \in timers
          /\ \A u \in TimerUser : handle'[u] = IF u \in {"pause"} THEN Null ELSE handle[u]
      BY <1>1, <3>1, <3>2, GoneMove
    <3>4. Apart'
      BY <1>1, <1>a, <2>1, <2>3, <3>3, DaemonAssumption DEF Apart
    <3>5. PauseArmed'
      BY <1>a, <2>1, <2>5 DEF PauseArmed, AsAsked, session
    <3> QED
      BY <3>3, <3>4, <3>5 DEF TimersStep, Held, PauseArmed
  <2> QED
    BY <1>2, <2>4, <2>5 DEF PauseEnds, PauseOver
<1>3. ASSUME NEW t \in timers, NEW S \in SUBSET clips, Retain(t, S) PROVE TimersStep
  <2>1. /\ Calm /\ t.who = "retention" /\ then' = "rearm" /\ UNCHANGED <<session, link>>
        /\ Disarm(timers \ {t}, "retention") /\ pc' # "down"
    BY <1>3, <1>a DEF Retain, Ring, Fires, Remove, compositor
  <2>2. timers \ {t} = Left({"retention"})
    BY <1>1, <2>1, LeftIs, DaemonAssumption
  <2>3. Gone({"retention"})
    BY <1>1, <2>1, <2>2, DisarmIs, DaemonAssumption
  <2>4. {"retention"} \in SUBSET TimerUser /\ "pause" \notin {"retention"}
    BY DaemonAssumption
  <2>5. /\ HandlesOwn' /\ \A s \in timers' : s \in timers /\ s.who \notin {"retention"}
        /\ \A s \in timers : s.who \notin {"retention"} => s \in timers'
        /\ \A u \in TimerUser : handle'[u] = IF u \in {"retention"} THEN Null ELSE handle[u]
    BY <1>1, <2>3, <2>4, GoneMove
  <2>6. PauseArmed'
    <3>1. \A s \in timers : s.who = "pause" => s \in timers'
      BY <2>5
    <3>2. handle'["pause"] = handle["pause"]
      BY <2>5, DaemonAssumption
    <3> QED
      BY <1>a, <2>1, <3>1, <3>2, PauseStays
  <2>7. Apart'
    BY <1>1, <2>1, <2>5, DaemonAssumption DEF Apart
  <2> QED
    BY <2>5, <2>6, <2>7 DEF TimersStep, Held, PauseArmed
<1>b. ASSUME Calm, UNCHANGED <<session, then>>, pc' # "down",
             \/ ~link' /\ Arm(Left({"reconnect"}), "reconnect", Backoff)
             \/ Disarm(Left({"reconnect"}), "reconnect")
      PROVE  TimersStep
  <2>1. {"reconnect"} \in SUBSET TimerUser /\ "pause" \notin {"reconnect"} /\ Backoff \in Nat
    BY DaemonAssumption
  <2>2. (~link' /\ New({"reconnect"}, "reconnect", Backoff)) \/ Gone({"reconnect"})
    BY <1>1, <1>b, ArmIs, DisarmIs, DaemonAssumption
  <2>3. /\ HandlesOwn' /\ PauseArmed'
        /\ \A s \in timers' : (s \in timers /\ s.who \notin {"reconnect"}) \/ s.who = "reconnect"
        /\ \A u \in TimerUser : u \notin {"reconnect"} => handle'[u] = handle[u]
    BY <1>1, <1>a, <1>b, <2>1, <2>2, MoveApart
  <2>4. link' => \A s \in timers' : s.who # "reconnect"
    <3>1. CASE ~link'
      BY <3>1
    <3>2. CASE Gone({"reconnect"})
      BY <3>2 DEF Gone, Left
    <3> QED
      BY <2>2, <3>1, <3>2
  <2>5. Apart'
    BY <1>1, <1>a, <1>b, <2>3, <2>4, DaemonAssumption DEF Apart
  <2> QED
    BY <2>3, <2>5 DEF TimersStep, Held, PauseArmed
<1>4. ASSUME NEW t \in timers, Reconnect(t) PROVE TimersStep
  <2>1. Calm /\ t.who = "reconnect" /\ UNCHANGED <<session, then>> /\ pc' # "down"
    BY <1>4, <1>a DEF Reconnect, Ring, Fires
  <2>2. timers \ {t} = Left({"reconnect"}) /\ ~link
    BY <1>1, <2>1, LeftIs, DaemonAssumption DEF Apart
  <2>3. \/ ~link' /\ Arm(Left({"reconnect"}), "reconnect", Backoff)
        \/ Disarm(Left({"reconnect"}), "reconnect")
    BY <1>4, <2>2 DEF Reconnect
  <2> QED
    BY <1>b, <2>1, <2>3
<1>5. CASE Closed
  <2>1. /\ Calm /\ UNCHANGED <<session, then, pc>> /\ ~link' /\ Handles("hypr")
        /\ Arm(timers, "reconnect", Backoff)
    BY <1>5 DEF Closed
  <2>2. link
    BY <1>1, <2>1 DEF Handles
  <2>3. timers = Left({"reconnect"})
    BY <1>1, <2>2 DEF Apart, Left
  <2> QED
    BY <1>a, <1>b, <2>1, <2>3
<1> QED
  BY <1>2, <1>3, <1>4, <1>5

\* The timers of a capture: the wait and the limit are never both armed.
LEMMA TimersCapture ==
  ASSUME TypeOK, LoopInv, Held,
         \/ Selection \/ Readable
         \/ \E t \in timers : Debounced(t) \/ TimedOut(t)
  PROVE  TimersStep
<1>1. /\ LoopType /\ HandlesOwn /\ Apart
      /\ Live(watches, whandle)
      /\ handle["debounce"] # Null => whandle["pipe"] = Null
  BY DEF TypeOK, LoopInv, LoopSound, Watched
<1>2. Calm /\ UNCHANGED <<session, link, then, pc>>
  BY DEF Selection, Readable, Debounced, TimedOut, Ring, Hear, Still, hot
<1>3. PauseArmed /\ pc # "down" /\ then = "none"
  BY <1>2 DEF Calm, Idle, Held, Up
<1> DEFINE Both == {"debounce", "format"}
<1>4. /\ Both \in SUBSET TimerUser /\ "pause" \notin Both
      /\ \A t \in timers : t.at \in Addr /\ t.at # Null /\ handle[t.who] = t.at /\ t.who \in TimerUser
  BY <1>1, DaemonAssumption, LoopAssumption DEF LoopType, HandlesOwn
<1>a. ASSUME NEW v \in Both, NEW d \in Nat, New(Both, v, d) PROVE TimersStep
  <2>1. /\ HandlesOwn' /\ PauseArmed'
        /\ \A t \in timers' : (t \in timers /\ t.who \notin Both) \/ t.who = v
        /\ \A u \in Both : u # v => handle'[u] = Null
    <3> HIDE DEF Both
    <3> QED
      BY <1>1, <1>2, <1>3, <1>4, <1>a, MoveApart
  <2>2. Apart'
    BY <1>1, <1>2, <1>3, <2>1 DEF Apart
  <2> QED
    BY <2>1, <2>2 DEF TimersStep, Held, PauseArmed
<1>b. ASSUME handle["debounce"] = Null, EndFormat(Left({"format"})) PROVE TimersStep
  <2>1. {"format"} \in SUBSET TimerUser /\ "pause" \notin {"format"} /\ "format" \in {"format"}
    BY <1>4
  <2>2. New({"format"}, "format", 1) \/ Gone({"format"})
    <3>1. {"format"} = {"format", "format"}
      OBVIOUS
    <3> QED
      BY <1>1, <1>b, <2>1, <3>1, OpenPipeIs, DisarmIs DEF EndFormat
  <2>3. /\ HandlesOwn' /\ PauseArmed'
        /\ \A t \in timers' : (t \in timers /\ t.who \notin {"format"}) \/ t.who = "format"
        /\ \A u \in TimerUser : u \notin {"format"} => handle'[u] = handle[u]
    BY <1>1, <1>2, <1>3, <2>1, <2>2, MoveApart
  <2>4. handle'["debounce"] = Null
    BY <1>4, <1>b, <2>3
  <2>5. Apart'
    BY <1>1, <1>2, <1>3, <2>3, <2>4 DEF Apart
  <2> QED
    BY <2>3, <2>5 DEF TimersStep, Held, PauseArmed
<1>5. CASE Selection
  <2> DEFINE Rest == {t \in timers : t.at \notin {handle["debounce"], handle["format"]}}
  <2>1. PICK a \in Alloc({t.at : t \in Rest}) :
          /\ timers' = Rest \cup {[at |-> a, due |-> 0, who |-> "debounce"]}
          /\ handle' = [handle EXCEPT !["debounce"] = a, !["format"] = Null]
    BY <1>5 DEF Selection
  <2>2. \A t \in timers, u \in Both : t.at = handle[u] <=> t.who = u
    BY <1>1, <1>4 DEF HandlesOwn
  <2>3. Rest = Left(Both)
    BY <2>2 DEF Left
  <2>4. {t.at : t \in Left(Both)} \in SUBSET Addr
    BY <1>4 DEF Left
  <2>5. a \in Addr \ {t.at : t \in Left(Both)}
    BY <2>1, <2>3, <2>4, AllocFresh
  <2>6. handle' = [u \in TimerUser |-> IF u = "debounce" THEN a ELSE IF u \in Both THEN Null ELSE handle[u]]
    BY <1>1, <2>1 DEF LoopType
  <2>7. New(Both, "debounce", 0)
    BY <2>1, <2>3, <2>5, <2>6 DEF New
  <2> QED
    BY <1>a, <2>7
<1>6. ASSUME NEW t \in timers, Debounced(t) PROVE TimersStep
  <2>1. t.who = "debounce" /\ OpenPipe(timers \ {t}, "debounce", watches)
    BY <1>6 DEF Debounced, Ring, Fires
  <2>2. handle["format"] = Null
    BY <1>1, <1>4, <2>1 DEF Apart
  <2>3. \A s \in timers : s.who # "format"
    BY <1>4, <2>2
  <2>4. timers \ {t} = Left({"debounce"})
    BY <1>1, <1>4, <2>1, LeftIs
  <2>5. Left({"debounce"}) = Left(Both)
    BY <2>3 DEF Left
  <2>6. New(Both, "format", 1)
    BY <1>1, <1>4, <2>1, <2>4, <2>5, OpenPipeIs
  <2> QED
    BY <1>a, <2>6
<1>7. ASSUME NEW t \in timers, TimedOut(t) PROVE TimersStep
  <2>1. t.who = "format" /\ EndFormat(timers \ {t})
    BY <1>7 DEF TimedOut, Ring, Fires
  <2>2. handle["debounce"] = Null
    BY <1>1, <1>4, <2>1 DEF Apart
  <2>3. timers \ {t} = Left({"format"})
    BY <1>1, <1>4, <2>1, LeftIs
  <2> QED
    BY <1>b, <2>1, <2>2, <2>3
<1>8. CASE Readable
  <2>1. Handles("pipe") /\ EndFormat(Without(handle["format"]))
    BY <1>8 DEF Readable
  <2>2. whandle["pipe"] # Null
    <3>1. PICK w \in watches : ~w.dead /\ w.who = "pipe"
      BY <2>1 DEF Handles
    <3>2. w.at \in Addr
      BY <1>1 DEF LoopType
    <3> QED
      BY <1>1, <3>1, <3>2, LoopAssumption DEF Live
  <2>3. Without(handle["format"]) = Left({"format"})
    BY <1>1, <1>4, LeftIs
  <2> QED
    BY <1>1, <1>b, <2>1, <2>2, <2>3
<1> QED
  BY <1>5, <1>6, <1>7, <1>8

LEMMA TimersNext == ASSUME TypeOK, LoopInv, Held, [Next]_vars PROVE TimersStep
<1>1. SessionType /\ LoopType
  BY DEF TypeOK
<1>2. Calm => pc # "down" /\ then = "none" /\ PauseArmed
  BY DEF Calm, Idle, Held, Up
<1>3. CASE Start \/ Resumed \/ Ready \/ Die
  BY <1>3, TimersStart
<1>4. CASE Request
  <2>1. Calm
    BY <1>4 DEF Request, Hear
  <2>2. CASE UNCHANGED hot /\ (AppResume(Unpaused) \/ \E m \in 0..MaxPause : AppPause(Unpaused, m))
    <3>1. \A m \in 0..MaxPause : m \in Nat
      BY SessionAssumption
    <3> QED
      BY <2>1, <2>2, <3>1, TimersCalm
  <2>3. CASE UNCHANGED <<hot, timing>> /\ asked' = "garbled"
    <3>1. UNCHANGED <<timers, handle, link, then, pc>>
      BY <2>3 DEF timing, hot
    <3> QED
      BY <2>3, <3>1 DEF LoopInv, LoopSound, TimersStep, HandlesOwn, Apart, Held, PauseArmed, AsAsked
  <2>4. CASE UNCHANGED <<session, timing, watching, link, then>> /\ pc' # "down"
    BY <1>2, <2>1, <2>4, TimersStill DEF watching
  <2>5. CASE \/ \E i \in 0..MaxHotkey, a \in Accel, act \in Act : SetHotkey(i, a, act)
             \/ \E i \in DOMAIN rows : RemoveHotkey(i)
             \/ \E S \in SUBSET clips : Remove(S) /\ UNCHANGED then
             \/ \E c \in Uuid \ clips : Arrive(c)
    <3>1. UNCHANGED <<link, then>> /\ (pc' = pc \/ pc' # "down")
      BY <2>5 DEF SetHotkey, RemoveHotkey, Remove, Arrive, compositor
    <3> QED
      BY <1>2, <1>4, <2>1, <2>2, <2>3, <2>4, <3>1 DEF Request, Pausing, RawPaused, RawUntil
  <2> QED
    BY <1>4, <2>2, <2>3, <2>5 DEF Request, Pausing, RawPaused, RawUntil
<1>5. ASSUME NEW b \in ours, Press(b) PROVE TimersStep
  BY <1>5, TimersCalm DEF Press, Hear, Pausing
<1>6. CASE \/ \E t \in timers : PauseEnds(t) \/ Reconnect(t)
           \/ \E t \in timers, S \in SUBSET clips : Retain(t, S)
           \/ Closed
  BY <1>6, TimersRing
<1>7. CASE \/ Selection \/ Readable
           \/ \E t \in timers : Debounced(t) \/ TimedOut(t)
  BY <1>7, TimersCapture
<1>8. CASE Reloaded
  <2>1. Calm /\ UNCHANGED <<timing, watching, session, link, then>> /\ pc' = "query"
    BY <1>8 DEF Reloaded
  <2> QED
    BY <1>2, <2>1, TimersStill DEF watching
<1>9. CASE (Query \/ Eval \/ Prune \/ Refuse \/ Write) /\ UNCHANGED <<loop, session>>
  <2>1. UNCHANGED <<timing, session, whandle, link>> /\ pc # "down" /\ pc' # "down"
    BY <1>9 DEF Query, Eval, Prune, Refuse, Write, loop, watching, compositor
  <2>2. then' = then \/ (then = "sync" /\ then' = "start")
    BY <1>9 DEF Query, Eval, Prune, Refuse, Write
  <2> QED
    BY <2>1, <2>2, TimersStill
<1>10. CASE (LinkLost \/ \E K \in SUBSET Accel : Reload(K)) /\ UNCHANGED <<loop, session>>
  <2>1. UNCHANGED <<timing, session, whandle, link, pc, then>>
    BY <1>10 DEF LinkLost, Reload, loop, watching
  <2> QED
    BY <2>1, TimersStill
<1>11. CASE Round /\ Still
  <2>1. UNCHANGED <<timing, session, whandle, link, pc, then>>
    BY <1>11 DEF Round, Still, Wait, Skip, Bury, Settle, watching, hot
  <2> QED
    BY <2>1, TimersStill
<1>a. ASSUME Nearer, UNCHANGED <<paused, asked, loop, hot>> PROVE TimersStep
  <2>1. UNCHANGED <<timers, handle, link, then, pc>>
    BY <1>a DEF loop, timing, hot
  <2>2. (AsAsked => AsAsked') /\ (PauseArmed => PauseArmed')
    <3>1. until \in Nat \/ until = NoEnd
      BY <1>1 DEF SessionType
    <3>2. \A t \in timers : t.due \in Nat
      BY <1>1 DEF LoopType
    <3>3. until # NoEnd => until' <= until /\ until' \in Nat /\ until \in Nat
      BY <1>a, <3>1 DEF Nearer, NoEnd
    <3>4. until = NoEnd => until' = NoEnd
      BY <1>a DEF Nearer, NoEnd
    <3>5. AsAsked => AsAsked'
      BY <1>a, <3>3, <3>4 DEF AsAsked, NoEnd
    <3> QED
      BY <1>a, <2>1, <3>2, <3>3, <3>5 DEF PauseArmed, AsAsked
  <2> QED
    BY <2>1, <2>2 DEF LoopInv, LoopSound, TimersStep, HandlesOwn, Apart, Held, Up
<1>12. CASE Tick /\ UNCHANGED hot
  BY <1>1, <1>2, <1>12, <1>a, TimersPass DEF Tick
<1>13. CASE Sleep
  BY <1>13, <1>a DEF Sleep
<1>14. CASE UNCHANGED vars
  <2>1. UNCHANGED <<timing, session, whandle, link, pc, then>>
    BY <1>14 DEF vars, loop, watching, hot
  <2> QED
    BY <2>1, TimersStill
<1> QED
  BY <1>3, <1>4, <1>5, <1>6, <1>7, <1>8, <1>9, <1>10, <1>11, <1>12, <1>13, <1>14 DEF Next

-----------------------------------------------------------------------------
(* Watches. *)

Unique(W) == \A v, w \in W : v.at = w.at => v = w
Covers(b, W) == \A i \in 1..Len(b) : \E w \in W : w.at = b[i].at /\ w.who = b[i].who

\* Deleting a user's watch marks its block; its live watches are then gone.
LEMMA DropMove ==
  ASSUME LoopType, Unique(watches), Live(watches, whandle), NEW u \in WatchUser,
         NEW b \in Seq(Event), Covers(b, watches)
  PROVE  LET W == Dropped(whandle[u]) IN
         /\ W \subseteq Watch /\ Unique(W) /\ Covers(b, W)
         /\ \A w \in W : ~w.dead => w \in watches /\ w.who # u
<1> DEFINE h == whandle[u]
           Mark(w) == IF w.at = h THEN [w EXCEPT !.dead = TRUE] ELSE w
           W == Dropped(h)
<1>1. \A w \in watches : Mark(w).at = w.at /\ Mark(w).who = w.who /\ (w.at = h => Mark(w).dead)
  BY DEF LoopType
<1>2. W = {Mark(w) : w \in watches}
  BY DEF Dropped
<1>3. \A w \in watches : w.at # h => Mark(w) = w
  OBVIOUS
<1> HIDE DEF Mark, W
<1>4. Unique(W)
  BY <1>1, <1>2 DEF Unique
<1>5. Covers(b, W)
  BY <1>1, <1>2 DEF Covers
<1>6. ASSUME NEW x \in W, ~x.dead PROVE x \in watches /\ x.who # u
  <2>1. PICK w \in watches : x = Mark(w)
    BY <1>2
  <2>2. w.at # h /\ x = w
    BY <1>1, <1>3, <1>6, <2>1
  <2> QED
    BY <1>6, <2>2 DEF Live
<1>7. W \subseteq Watch
  BY DroppedTyped DEF W
<1> QED
  BY <1>4, <1>5, <1>6, <1>7 DEF W

\* A new watch of a user with no live one.
LEMMA AddMove ==
  ASSUME LoopType, NEW W \in SUBSET Watch, Unique(W), NEW b, Covers(b, W), NEW u \in WatchUser,
         \A w \in W : ~w.dead => w.who # u /\ whandle[w.who] = w.at, Watching(u, W)
  PROVE  /\ Unique(watches') /\ Covers(b, watches') /\ Live(watches', whandle')
         /\ \A w \in watches' : ~w.dead => w \in W \/ w.who = u
         /\ \A x \in WatchUser : x # u => whandle'[x] = whandle[x]
<1>1. {w.at : w \in W} \in SUBSET Addr
  BY DEF Watch
<1>2. PICK a \in Alloc({w.at : w \in W}) :
        /\ watches' = W \cup {[at |-> a, who |-> u, dead |-> FALSE]}
        /\ whandle' = [whandle EXCEPT ![u] = a]
  BY DEF Watching
<1>3. a \in Addr /\ \A w \in W : w.at # a
  BY <1>1, <1>2, AllocFresh
<1>4. \A w \in W : w.who \in WatchUser
  BY DEF Watch
<1>5. \A x \in WatchUser : whandle'[x] = IF x = u THEN a ELSE whandle[x]
  BY <1>2 DEF LoopType
<1>6. Unique(watches')
  <2> DEFINE n == [at |-> a, who |-> u, dead |-> FALSE]
  <2>1. watches' = W \cup {n} /\ n.at = a
    BY <1>2
  <2> HIDE DEF n
  <2> QED
    BY <1>3, <2>1 DEF Unique
<1>7. Covers(b, watches')
  BY <1>2 DEF Covers
<1>8. Live(watches', whandle')
  BY <1>2, <1>4, <1>5 DEF Live
<1> QED
  BY <1>2, <1>5, <1>6, <1>7, <1>8

\* What is left of a batch is still covered.
LEMMA TailCovered ==
  ASSUME NEW W, NEW b \in Seq(Event), b # <<>>, Covers(b, W)
  PROVE  Tail(b) \in Seq(Event) /\ Covers(Tail(b), W)
<1>1. Tail(b) \in Seq(Event) /\ Len(Tail(b)) = Len(b) - 1 /\ Len(b) \in Nat
  OBVIOUS
<1>2. \A i \in 1..Len(Tail(b)) : Tail(b)[i] = b[i + 1] /\ i + 1 \in 1..Len(b)
  BY <1>1
<1> QED
  BY <1>1, <1>2 DEF Covers

WatchesStep ==
  /\ Unique(watches') /\ Covers(batch', watches') /\ Live(watches', whandle')
  /\ \A w \in watches' : (~w.dead /\ w.who = "hypr") => link'
  /\ handle'["debounce"] # Null => whandle'["pipe"] = Null
  /\ pc' = "down" => batch' = <<>>

LEMMA WatchesStill ==
  ASSUME TypeOK, LoopInv, UNCHANGED <<watching, link>>, pc' = "down" => pc = "down",
         batch' = batch \/ (batch # <<>> /\ batch' = Tail(batch)),
         handle'["debounce"] # Null => handle["debounce"] # Null
  PROVE  WatchesStep
<1>1. /\ UNCHANGED <<watches, whandle>> /\ batch \in Seq(Event)
      /\ Unique(watches) /\ Covers(batch, watches) /\ Watched
  BY DEF watching, TypeOK, LoopType, LoopInv, LoopSound, BatchSound, Unique, Covers
<1>2. Covers(batch', watches)
  BY <1>1, TailCovered
<1>3. pc' = "down" => batch' = <<>>
  BY <1>1 DEF Watched
<1> QED
  BY <1>1, <1>2, <1>3 DEF WatchesStep, Watched

\* The handlers that delete or add watches.
LEMMA WatchesMove ==
  ASSUME TypeOK, LoopInv, HandlesOwn',
         \/ Closed \/ Selection \/ Readable
         \/ \E t \in timers : Reconnect(t) \/ Debounced(t) \/ TimedOut(t)
  PROVE  WatchesStep
<1>1. /\ LoopType /\ batch \in Seq(Event) /\ watches \subseteq Watch
      /\ Unique(watches) /\ Covers(batch, watches) /\ Live(watches, whandle)
      /\ HandlesOwn /\ Apart /\ Watched
  BY DEF TypeOK, LoopType, LoopInv, LoopSound, BatchSound, Unique, Covers, Watch, Watched
<1>2. Calm /\ pc # "down"
  BY DEF Closed, Selection, Readable, Reconnect, Debounced, TimedOut, Ring, Hear, Calm, Idle
<1>3. \A t \in timers : handle[t.who] # Null
  BY <1>1, LoopAssumption DEF HandlesOwn, LoopType
<1>4. "pipe" \in WatchUser /\ "hypr" \in WatchUser /\ "debounce" \in TimerUser /\ "format" \in TimerUser
  BY DaemonAssumption
<1>a. ASSUME NEW u, Handles(u) PROVE batch' \in Seq(Event) /\ Covers(batch', watches)
  BY <1>1, <1>a, TailCovered DEF Handles
<1>b. ASSUME NEW u \in WatchUser, Unwatch(u), batch' \in Seq(Event), Covers(batch', watches)
      PROVE  /\ Unique(watches') /\ Covers(batch', watches') /\ Live(watches', whandle')
             /\ \A w \in watches' : ~w.dead => w \in watches /\ w.who # u
             /\ \A x \in WatchUser : whandle'[x] = IF x = u THEN Null ELSE whandle[x]
  <2>1. watches' = Dropped(whandle[u]) /\ whandle' = [whandle EXCEPT ![u] = Null]
    BY <1>b DEF Unwatch
  <2>2. /\ Unique(watches') /\ Covers(batch', watches')
        /\ \A w \in watches' : ~w.dead => w \in watches /\ w.who # u
    BY <1>1, <1>b, <2>1, DropMove
  <2>3. \A x \in WatchUser : whandle'[x] = IF x = u THEN Null ELSE whandle[x]
    BY <1>1, <2>1 DEF LoopType
  <2>4. Live(watches', whandle')
    BY <1>1, <2>2, <2>3 DEF Live, LoopType
  <2> QED
    BY <2>2, <2>3, <2>4
<1>5. CASE Closed
  <2>1. Handles("hypr") /\ Unwatch("hypr") /\ pc' = pc /\ Arm(timers, "reconnect", Backoff)
    BY <1>5 DEF Closed
  <2>2. /\ Unique(watches') /\ Covers(batch', watches') /\ Live(watches', whandle')
        /\ \A w \in watches' : ~w.dead => w \in watches /\ w.who # "hypr"
        /\ \A x \in WatchUser : whandle'[x] = IF x = "hypr" THEN Null ELSE whandle[x]
    BY <1>4, <1>a, <1>b, <2>1
  <2>3. handle'["debounce"] = handle["debounce"]
    BY <1>1, <1>4, <2>1 DEF Arm, LoopType
  <2> QED
    BY <1>1, <1>2, <1>4, <2>1, <2>2, <2>3 DEF WatchesStep, Watched
<1>6. CASE Selection
  <2>1. Handles("board") /\ Unwatch("pipe") /\ UNCHANGED <<pc, link>>
    BY <1>6 DEF Selection, Hear, Still, hot
  <2>2. /\ Unique(watches') /\ Covers(batch', watches') /\ Live(watches', whandle')
        /\ \A w \in watches' : ~w.dead => w \in watches /\ w.who # "pipe"
        /\ \A x \in WatchUser : whandle'[x] = IF x = "pipe" THEN Null ELSE whandle[x]
    BY <1>4, <1>a, <1>b, <2>1
  <2> QED
    BY <1>1, <1>2, <1>4, <2>1, <2>2 DEF WatchesStep, Watched
<1>7. ASSUME NEW t \in timers, Reconnect(t) PROVE WatchesStep
  <2>1. /\ UNCHANGED batch /\ t.who = "reconnect" /\ ~link /\ pc' # "down"
        /\ handle'["debounce"] = handle["debounce"]
    BY <1>1, <1>2, <1>4, <1>7 DEF Reconnect, Ring, Fires, Apart, Arm, Disarm, LoopType
  <2>2. CASE UNCHANGED <<watching, link>>
    BY <1>2, <2>1, <2>2, WatchesStill
  <2>3. CASE Watching("hypr", watches) /\ link' = TRUE
    <3>1. \A w \in watches : ~w.dead => w.who # "hypr" /\ whandle[w.who] = w.at
      BY <1>1, <2>1 DEF Watched, Live
    <3>2. /\ Unique(watches') /\ Covers(batch, watches') /\ Live(watches', whandle')
          /\ \A x \in WatchUser : x # "hypr" => whandle'[x] = whandle[x]
      BY <1>1, <1>4, <2>3, <3>1, AddMove
    <3> QED
      BY <1>1, <1>4, <2>1, <2>3, <3>2 DEF WatchesStep, Watched
  <2> QED
    BY <1>7, <2>2, <2>3 DEF Reconnect
\* A pipe is opened beside W, which has no live one, or none is.
<1>c. ASSUME NEW W \in SUBSET Watch, Unique(W), Covers(batch', W), UNCHANGED <<link, pc>>,
             \A w \in W : ~w.dead => w \in watches /\ w.who # "pipe", Watching("pipe", W),
             handle'["debounce"] = Null
      PROVE  WatchesStep
  <2>1. \A w \in W : ~w.dead => w.who # "pipe" /\ whandle[w.who] = w.at
    BY <1>1, <1>c DEF Live
  <2>2. /\ Unique(watches') /\ Covers(batch', watches') /\ Live(watches', whandle')
        /\ \A w \in watches' : ~w.dead => w \in W \/ w.who = "pipe"
    BY <1>1, <1>4, <1>c, <2>1, AddMove
  <2> QED
    BY <1>1, <1>2, <1>c, <2>2 DEF WatchesStep, Watched
<1>8. ASSUME NEW t \in timers, Debounced(t) PROVE WatchesStep
  <2>1. /\ UNCHANGED <<batch, link, pc>> /\ t.who = "debounce"
        /\ OpenPipe(timers \ {t}, "debounce", watches)
    BY <1>8 DEF Debounced, Ring, Fires, Still, hot
  <2>2. whandle["pipe"] = Null
    BY <1>1, <1>3, <2>1 DEF Watched
  <2>3. \A w \in watches : ~w.dead => w.who # "pipe"
    BY <1>1, <2>2, LoopAssumption DEF Live, LoopType
  <2>4. handle'["debounce"] = Null
    BY <1>1, <1>4, <2>1 DEF OpenPipe, LoopType
  <2> QED
    BY <1>1, <1>c, <2>1, <2>3, <2>4 DEF OpenPipe
<1>d. ASSUME NEW L, EndFormat(L), handle["debounce"] = Null, UNCHANGED <<link, pc>>,
             batch' \in Seq(Event), Covers(batch', watches)
      PROVE  WatchesStep
  <2> DEFINE W == Dropped(whandle["pipe"])
  <2>1. /\ W \subseteq Watch /\ Unique(W) /\ Covers(batch', W)
        /\ \A w \in W : ~w.dead => w \in watches /\ w.who # "pipe"
    BY <1>1, <1>4, <1>d, DropMove
  <2>2. handle'["debounce"] = Null
    BY <1>1, <1>4, <1>d DEF EndFormat, OpenPipe, Disarm, LoopType
  <2>3. CASE OpenPipe(L, "format", W)
    <3> HIDE DEF W
    <3> QED
      BY <1>c, <1>d, <2>1, <2>2, <2>3 DEF OpenPipe
  <2>4. CASE watches' = W /\ whandle' = [whandle EXCEPT !["pipe"] = Null]
    <3>1. Unwatch("pipe")
      BY <2>4 DEF Unwatch
    <3>2. /\ Unique(watches') /\ Covers(batch', watches') /\ Live(watches', whandle')
          /\ \A w \in watches' : ~w.dead => w \in watches /\ w.who # "pipe"
      BY <1>4, <1>b, <1>d, <3>1
    <3> QED
      BY <1>1, <1>2, <1>d, <2>2, <3>2 DEF WatchesStep, Watched
  <2> QED
    BY <1>d, <2>3, <2>4 DEF EndFormat
<1>9. ASSUME NEW t \in timers, TimedOut(t) PROVE WatchesStep
  <2>1. t.who = "format" /\ EndFormat(timers \ {t}) /\ UNCHANGED <<batch, link, pc>>
    BY <1>9 DEF TimedOut, Ring, Fires, Still, hot
  <2>2. handle["debounce"] = Null
    BY <1>1, <1>3, <2>1 DEF Apart
  <2> QED
    BY <1>1, <1>d, <2>1, <2>2
<1>10. CASE Readable
  <2>1. Handles("pipe") /\ EndFormat(Without(handle["format"])) /\ UNCHANGED <<link, pc>>
    BY <1>10 DEF Readable, Still, hot
  <2>2. PICK w \in watches : ~w.dead /\ w.who = "pipe"
    BY <2>1 DEF Handles
  <2>3. handle["debounce"] = Null
    BY <1>1, <2>2, LoopAssumption DEF Live, LoopType, Watched
  <2> QED
    BY <1>a, <1>d, <2>1, <2>3
<1> QED
  BY <1>5, <1>6, <1>7, <1>8, <1>9, <1>10

LEMMA WatchesNext == ASSUME TypeOK, LoopInv, TimersStep, [Next]_vars PROVE WatchesStep
<1>1. /\ LoopType /\ Unique(watches) /\ Covers(batch, watches) /\ Watched /\ HandlesOwn'
      /\ batch \in Seq(Event)
  BY DEF TypeOK, LoopType, LoopInv, LoopSound, BatchSound, Unique, Covers, TimersStep
<1>2. "debounce" \in TimerUser /\ "pause" \in TimerUser /\ "retention" \in TimerUser
  BY DaemonAssumption
<1>3. CASE Start
  <2>1. PICK at \in [{"board", "ipc"} \cup (IF link' THEN {"hypr"} ELSE {}) -> Addr] :
          /\ \E a \in Alloc({}) : \E b \in Alloc({a}) : at["board"] = a /\ at["ipc"] = b
          /\ link' => at["hypr"] \in Alloc({at["board"], at["ipc"]})
          /\ watches' = {[at |-> at[u], who |-> u, dead |-> FALSE] : u \in DOMAIN at}
          /\ whandle' = [u \in WatchUser |-> IF u \in DOMAIN at THEN at[u] ELSE Null]
    BY <1>3 DEF Start
  <2>2. batch' = <<>> /\ pc' = "prune"
    BY <1>1, <1>3 DEF Start, Watched
  <2>3. at["board"] \in Addr /\ at["ipc"] \in Addr
    BY <2>1
  <2>4. at["ipc"] # at["board"] /\ (link' => at["hypr"] \notin {at["board"], at["ipc"]})
    <3>1. PICK a \in Alloc({}) : \E b \in Alloc({a}) : at["board"] = a /\ at["ipc"] = b
      BY <2>1
    <3>2. at["ipc"] \in Alloc({at["board"]})
      BY <3>1
    <3>3. {at["board"]} \in SUBSET Addr /\ {at["board"], at["ipc"]} \in SUBSET Addr
      BY <2>3
    <3> QED
      BY <2>1, <3>2, <3>3, AllocFresh
  <2>5. \A u, v \in DOMAIN at : at[u] = at[v] => u = v
    BY <2>4
  <2>6. Unique(watches')
    <3>1. ASSUME NEW v \in watches', NEW w \in watches', v.at = w.at PROVE v = w
      <4>1. PICK x \in DOMAIN at : v = [at |-> at[x], who |-> x, dead |-> FALSE]
        BY <2>1
      <4>2. PICK y \in DOMAIN at : w = [at |-> at[y], who |-> y, dead |-> FALSE]
        BY <2>1
      <4>3. at[x] = at[y]
        BY <3>1, <4>1, <4>2
      <4>4. x = y
        BY <2>5, <4>3
      <4> QED
        BY <4>1, <4>2, <4>4
    <3> QED
      BY <3>1 DEF Unique
  <2>7. Live(watches', whandle')
    <3>1. DOMAIN at \subseteq WatchUser
      BY DaemonAssumption
    <3>2. \A w \in watches' : w.who \in DOMAIN at /\ w.at = at[w.who]
      BY <2>1
    <3> QED
      BY <2>1, <3>1, <3>2 DEF Live
  <2>8. \A w \in watches' : (~w.dead /\ w.who = "hypr") => link'
    BY <2>1
  <2>9. handle'["debounce"] = Null
    <3>1. \A t \in timers' : t.who = "reconnect"
      <4>1. timers = {}
        BY <1>3 DEF Start, LoopInv, Apart
      <4> QED
        BY <1>3, <4>1 DEF Start, Arm, timing
    <3> QED
      BY <1>1, <1>2, <3>1 DEF HandlesOwn
  <2> QED
    BY <2>2, <2>6, <2>7, <2>8, <2>9 DEF WatchesStep, Covers
<1>4. CASE Die
  <2>1. /\ watches' = {} /\ batch' = <<>> /\ handle' = [u \in TimerUser |-> Null]
    BY <1>4 DEF Die, Lost
  <2> QED
    BY <1>2, <2>1 DEF WatchesStep, Unique, Covers, Live
\* The moves of other timers.
<1>5. CASE Resumed \/ Ready
  <2>1. UNCHANGED <<watching, link, pc, batch>>
    BY <1>5 DEF Resumed, Ready
  <2>2. handle'["debounce"] = handle["debounce"]
    BY <1>1, <1>2, <1>5 DEF Resumed, Ready, StartPause, AppResume, AppPause, Arm, Disarm, timing, LoopType
  <2> QED
    BY <2>1, <2>2, WatchesStill
<1>6. CASE Request \/ \E b \in ours : Press(b)
  <2>1. \E u : Hear(u)
    BY <1>6 DEF Request, Press
  <2>2. batch # <<>> /\ batch' = Tail(batch) /\ pc # "down"
    BY <2>1 DEF Hear, Handles, Calm, Idle
  <2>3. UNCHANGED <<watching, link>> /\ (pc' = pc \/ pc' # "down")
    BY <1>6 DEF Request, Press, Pausing, hot, SetHotkey, RemoveHotkey, Remove, Arrive, compositor
  <2>4. handle'["debounce"] = handle["debounce"]
    <3>1. \/ \E m : AppPause(Unpaused, m)
          \/ AppResume(Unpaused)
          \/ UNCHANGED timing
      BY <1>6 DEF Request, Press, Pausing, RawPaused, RawUntil
    <3> QED
      BY <1>1, <1>2, <3>1 DEF AppResume, AppPause, Arm, Disarm, timing, LoopType
  <2> QED
    BY <2>2, <2>3, <2>4, WatchesStill
<1>7. ASSUME NEW t \in timers, PauseEnds(t) PROVE WatchesStep
  <2>1. UNCHANGED <<watching, link, pc, batch>>
    BY <1>7 DEF PauseEnds, hot
  <2>2. handle'["debounce"] = handle["debounce"]
    BY <1>1, <1>2, <1>7 DEF PauseEnds, PauseOver, AppResume, Disarm, LoopType
  <2> QED
    BY <2>1, <2>2, WatchesStill
<1>8. ASSUME NEW t \in timers, NEW S, Retain(t, S) PROVE WatchesStep
  <2>1. UNCHANGED <<watching, link, batch>> /\ pc' # "down"
    BY <1>8 DEF Retain, Ring, Calm, Idle, Remove, compositor
  <2>2. handle'["debounce"] = handle["debounce"]
    BY <1>1, <1>2, <1>8 DEF Retain, Disarm, LoopType
  <2> QED
    BY <2>1, <2>2, WatchesStill
<1>9. CASE \/ Closed \/ Selection \/ Readable
           \/ \E t \in timers : Reconnect(t) \/ Debounced(t) \/ TimedOut(t)
  BY <1>1, <1>9, WatchesMove
<1>10. CASE Reloaded
  <2>1. UNCHANGED <<timing, watching, link>> /\ pc' # "down" /\ batch # <<>> /\ batch' = Tail(batch)
    BY <1>10 DEF Reloaded, Handles
  <2> QED
    BY <2>1, WatchesStill DEF timing
<1>a. ASSUME UNCHANGED <<loop, link>>, pc' = "down" => pc = "down" PROVE WatchesStep
  BY <1>a, WatchesStill DEF loop, timing
<1>11. CASE \/ (Query \/ Eval \/ Prune \/ Refuse \/ Write) /\ UNCHANGED <<loop, session>>
            \/ (LinkLost \/ \E K \in SUBSET Accel : Reload(K)) /\ UNCHANGED <<loop, session>>
  BY <1>11, <1>a DEF Query, Eval, Prune, Refuse, Write, LinkLost, Reload, compositor
<1>12. CASE Sleep \/ UNCHANGED vars
  BY <1>12, <1>a DEF Sleep, hot, vars
<1>13. CASE Tick /\ UNCHANGED hot
  <2>1. CASE UNCHANGED loop
    BY <1>13, <2>1, <1>a DEF hot
  <2>2. CASE Pass
    BY <1>13, <2>2, WatchesStill DEF Pass, hot
  <2> QED
    BY <1>13, <2>1, <2>2 DEF Tick
<1>14. CASE Round /\ Still
  <2>1. UNCHANGED <<link, pc>> /\ Calm /\ pc # "down"
    BY <1>14 DEF Round, Still, hot, Calm, Idle
  <2>2. CASE \E n \in 0..MaxBatch : \E ready \in [1..n -> Known] : Wait(ready)
    <3>1. PICK n \in 0..MaxBatch : \E ready \in [1..n -> Known] : Wait(ready)
      BY <2>2
    <3>2. PICK ready \in [1..n -> Known] : Wait(ready)
      BY <3>1
    <3>3. Covers(batch', watches) /\ UNCHANGED <<timing, watching>>
      BY <3>2 DEF Wait, Covers
    <3> QED
      BY <1>1, <2>1, <3>3 DEF WatchesStep, Watched, timing, watching
  <2>3. CASE Skip \/ Settle
    BY <2>1, <2>3, WatchesStill DEF Skip, Settle, timing
  <2>4. CASE Bury
    <3>1. /\ batch = <<>> /\ batch' = <<>> /\ watches' = {w \in watches : ~w.dead}
          /\ UNCHANGED <<handle, whandle>>
      BY <2>4 DEF Bury, timing
    <3>2. Unique(watches') /\ Covers(batch', watches') /\ Live(watches', whandle')
      BY <1>1, <3>1 DEF Unique, Covers, Live, Watched
    <3> QED
      BY <1>1, <2>1, <3>1, <3>2 DEF WatchesStep, Watched
  <2> QED
    BY <1>14, <2>2, <2>3, <2>4 DEF Round
<1> QED
  BY <1>3, <1>4, <1>5, <1>6, <1>7, <1>8, <1>9, <1>10, <1>11, <1>12, <1>13, <1>14 DEF Next

-----------------------------------------------------------------------------
LEMMA LoopInit == Init => LoopInv /\ Held
<1> SUFFICES ASSUME Init PROVE LoopInv /\ Held
  OBVIOUS
<1>1. /\ timers = {} /\ handle = [u \in TimerUser |-> Null] /\ batch = <<>> /\ watches = {}
      /\ pc = "down" /\ then = "none" /\ link = FALSE /\ whandle = [u \in WatchUser |-> Null]
  BY DEF Init, Empty, HotkeysInit
<1>2. LoopSound
  BY <1>1 DEF LoopSound, HandlesOwn, BatchSound
<1>3. Apart /\ Watched
  BY <1>1, DaemonAssumption DEF Apart, Watched, Live
<1>4. Held
  BY <1>1 DEF Init, SessionInit, AsAsked, Held, Up
<1> QED
  BY <1>2, <1>3, <1>4 DEF LoopInv

LEMMA LoopInductive == Spec => [](LoopInv /\ Held)
<1>1. TypeOK /\ LoopInv /\ Held /\ [Next]_vars => (LoopInv /\ Held)'
  <2> SUFFICES ASSUME TypeOK, LoopInv, Held, [Next]_vars PROVE (LoopInv /\ Held)'
    OBVIOUS
  <2>1. TimersStep
    BY TimersNext
  <2>2. WatchesStep
    BY <2>1, WatchesNext
  <2>3. LoopSound' /\ Watched'
    BY <2>1, <2>2 DEF TimersStep, WatchesStep, LoopSound, BatchSound, Unique, Covers, Watched, Live
  <2> QED
    BY <2>1, <2>3 DEF TimersStep, LoopInv
<1> QED
  BY <1>1, LoopInit, DaemonTyped, PTL DEF Spec

\* No cancelled or fired timer's pointer, and no event of a batch, ever comes to
\* name another's block, whichever free address calloc gives out.
THEOREM LoopIsSound == Spec => []LoopSound
<1>1. LoopInv => LoopSound
  BY DEF LoopInv
<1> QED
  BY <1>1, LoopInductive, PTL

\* While the daemon serves, the settings say what app_pause and app_resume last meant,
\* and a pause with an end has a timer that will end it and not early, for any lengths
\* of time and any deaths and sleeps, unless a write of the two was lost or a death came
\* between them (asked = "garbled").
THEOREM PausesEnd == Spec => []TimedPauseEnds
<1>1. Held => TimedPauseEnds
  BY DEF Held, TimedPauseEnds, Calm, Idle, Up
<1> QED
  BY <1>1, LoopInductive, PTL

\* A restart never shortens a timed pause, and lengthens it by less than a
\* minute, for any length of the pause and of the minute.
THEOREM RestartRounds == Spec => RestartExtends
<1>1. ASSUME TypeOK, Resumed, paused
      PROVE  IF until = 0 THEN ~paused' \/ asked' = "garbled"
             ELSE paused' /\ until' >= until /\ (until # NoEnd => until' - until < Minute)
  <2>1. StartPause /\ (until \in Nat \/ until = NoEnd) /\ NoEnd = -1
    BY <1>1 DEF Resumed, TypeOK, SessionType, NoEnd
  <2>2. CASE until = 0
    BY <1>1, <2>1, <2>2 DEF StartPause, AppResume
  <2>3. CASE until = NoEnd
    BY <1>1, <2>1, <2>3 DEF StartPause, session
  <2>4. CASE until \in Nat \ {0}
    <3>1. AppPause(Unpaused, Remaining)
      BY <1>1, <2>1, <2>4 DEF StartPause
    <3>2. Remaining \in Nat /\ Remaining * Minute >= until /\ Remaining * Minute < until + Minute
      BY <2>4, RoundUp DEF Remaining
    <3>3. Remaining # 0
      BY <2>4, <3>2, SessionAssumption
    <3>4. paused' /\ until' \in {until, Remaining * Minute}
      BY <1>1, <3>1, <3>3 DEF AppPause, Put
    <3>5. Remaining * Minute \in Nat /\ Minute \in Nat \ {0}
      BY <3>2, SessionAssumption
    <3> HIDE DEF Remaining
    <3>6. CASE until' = until
      BY <2>4, <3>4, <3>5, <3>6
    <3>7. CASE until' = Remaining * Minute
      BY <2>4, <3>2, <3>4, <3>5, <3>7
    <3> QED
      BY <3>4, <3>6, <3>7
  <2> QED
    BY <2>1, <2>2, <2>3, <2>4
<1>2. TypeOK /\ [Next]_vars =>
        [(Resumed /\ paused) =>
           IF until = 0 THEN ~paused' \/ asked' = "garbled"
           ELSE paused' /\ until' >= until /\ (until # NoEnd => until' - until < Minute)]_vars
  BY <1>1
<1> QED
  BY <1>2, DaemonTyped, PTL DEF Spec, RestartExtends
=============================================================================
