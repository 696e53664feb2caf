------------------------------ MODULE Session -------------------------------
(***************************************************************************)
(* Pausing the capture (app.c): the settings "paused" and "paused_until"   *)
(* in the database and the timer that ends a timed pause.  paused_until is *)
(* a date; here it is the ticks left until that date.                      *)
(***************************************************************************)
EXTENDS Loop

CONSTANTS
  Minute,     \* ticks in a minute
  MaxPause    \* bound: minutes a client pauses for

ASSUME SessionAssumption == Minute \in Nat \ {0} /\ MaxPause \in Nat

VARIABLES
  paused,     \* setting "paused"
  until,      \* setting "paused_until", or NoEnd for 0
  asked       \* history: what the two settings were last meant to say, as far as
              \* they do say it

session == <<paused, until, asked>>

NoEnd == -1

\* "garbled": a client wrote one of the two with settings.set, or a write was lost.
Wish == {"none", "endless", "timed", "garbled"}

SessionType == paused \in BOOLEAN /\ until \in Nat \cup {NoEnd} /\ asked \in Wish

SessionInit == paused = FALSE /\ until = NoEnd /\ asked = "none"

\* app_paused asks the clock, not the timer.
AppPaused == paused /\ until # 0

\* The timer a pause or a resume finds in app->pause_timer is cancelled first.
Unpaused == Without(handle["pause"])

\* put_bool, put_int: two transactions of their own, and nobody looks at how they
\* ended: either may be lost.  A death between them is the second one lost, and Die.
Put(b, end) == paused' \in {b, paused} /\ until' \in {end, until}

\* app_pause: the timer is armed whatever became of the settings.
AppPause(Left, minutes) ==
  LET end == IF minutes = 0 THEN NoEnd ELSE minutes * Minute IN
  /\ Put(TRUE, end)
  /\ asked' = IF ~paused' \/ until' # end THEN "garbled" ELSE IF minutes = 0 THEN "endless" ELSE "timed"
  /\ IF minutes = 0 THEN Disarm(Left, "pause") ELSE Arm(Left, "pause", minutes * Minute)

\* app_resume: a date left behind does no harm.
AppResume(Left) ==
  /\ Put(FALSE, NoEnd)
  /\ asked' = IF paused' THEN "garbled" ELSE "none"
  /\ Disarm(Left, "pause")

\* Mutant: the pointer to the timer that fired is kept.
PauseOverKept(t) ==
  /\ Fires(t, "pause")
  /\ timers' = timers \ {t} /\ paused' = FALSE /\ until' = NoEnd /\ asked' = "none"
  /\ UNCHANGED handle

\* on_pause_expired: the pause may have been made endless meanwhile.
PauseOver(t) ==
  /\ Fires(t, "pause")
  /\ IF paused /\ until # NoEnd THEN AppResume(timers \ {t})
     ELSE Disarm(timers \ {t}, "pause") /\ UNCHANGED session

\* Mutant: a minute more than what is left.
RemainingPlus == (until + Minute) \div Minute

\* Start (main.c): a timed pause that ran out meanwhile is over, another is
\* begun again, rounded up to whole minutes.
Remaining == (until + Minute - 1) \div Minute

\* Mutant: a pause found at the start is only left to the clock.
StartPauseLazy == IF paused /\ until = 0 THEN AppResume(Unpaused) ELSE UNCHANGED <<session, timing>>

StartPause ==
  IF paused /\ until = 0 THEN AppResume(Unpaused)
  ELSE IF paused /\ until # NoEnd THEN AppPause(Unpaused, Remaining)
  ELSE UNCHANGED <<session, timing>>

\* settings.set accepts the two settings like any other and tells nobody.
RawPaused(b) == paused' = b /\ asked' = "garbled" /\ UNCHANGED <<until, timing>>
RawUntil(n) == until' = n /\ asked' = "garbled" /\ UNCHANGED <<paused, timing>>

\* The date comes nearer, whether or not the daemon runs or the machine wakes.
Nearer == until' = IF until > 0 THEN until - 1 ELSE until

-----------------------------------------------------------------------------
\* The settings say what was asked.  A garbled pair is left out: "paused" written and
\* "paused_until" lost is a pause without end, which neither the timer nor a start takes
\* for a timed one.
AsAsked ==
  /\ asked = "none" => ~paused
  /\ asked = "endless" => paused /\ until = NoEnd
  /\ asked = "timed" => paused /\ until # NoEnd

\* They do, and a pause asked for with an end has a timer that will end it, never before
\* its time: after any pauses, resumes and toggles, and after a restart, which takes the
\* timer with it.
PauseArmed ==
  /\ AsAsked
  /\ asked = "timed" =>
       \E t \in timers : t.who = "pause" /\ t.at = handle["pause"] /\ t.due >= until
=============================================================================
