------------------------------ MODULE Presence ------------------------------
(***************************************************************************)
(* The bc_presence row of a BC engaged on the fabro tier, tick by          *)
(* tick: the heartbeat loop of the watcher supervisor                      *)
(*                                                                         *)
(*   ( heartbeat; while kill -0 SERVER; do sleep I; heartbeat; done ) &    *)
(*                                                                         *)
(* where a heartbeat is a `shop-msg watch` that `timeout` kills after its  *)
(* bound, beside the foreground `shop-msg watch`.  The first action of     *)
(* either watch is the UPSERT of last_seen_at; it may come at any moment   *)
(* of a heartbeat, or not at all when the database does not answer.        *)
(* bc-status calls a BC online while the age of its row is below the       *)
(* window.                                                                 *)
(*                                                                         *)
(* Time is a number of ticks.  The shell's own work takes no time: a       *)
(* heartbeat ends at its bound and a sleep at its interval, never later.   *)
(***************************************************************************)
EXTENDS Integers

CONSTANTS
  Interval,  \* FABRO_WATCH_HEARTBEAT_INTERVAL_SECS
  Bound,     \* FABRO_WATCH_HEARTBEAT_BOUND_SECS
  Window     \* PRESENCE_ONLINE_MAX_SECONDS

ASSUME PresenceNumbers == Interval \in Nat /\ Bound \in Nat /\ Window \in Nat

VARIABLES
  age,     \* ticks since the row's last_seen_at, no more than Window
  server,  \* the shared fabro server
  beat,    \* the heartbeat loop: none (no container), beat, sleep, over
  spent,   \* ticks of the current heartbeat or sleep
  done,    \* the current heartbeat has made its UPSERT
  watch,   \* the foreground watch: none, starting, listening, pause
  lost,    \* history: heartbeats that ended without UPSERT since the last one, to 2
  fresh,   \* history: an UPSERT since the supervisor was engaged
  dead,    \* history: ticks since the server died, no more than ShownBy
  quiet    \* history: no UPSERT by the foreground watch since then

loopVars == <<beat, spent, done, lost>>
vars == <<age, server, loopVars, watch, fresh, dead, quiet>>

Smaller(m, n) == IF m <= n THEN m ELSE n

Online  == age < Window
Beating == beat \in {"beat", "sleep"}

\* _fabro_engage_script refuses any other cadence
Builds == 0 < Interval + Bound /\ Interval + Bound < Window

\* when a dead server is to be seen in the row
ShownBy == Interval + Bound + Window

Init ==
  /\ age = Window /\ server = "down"
  /\ beat = "none" /\ spent = 0 /\ done = FALSE /\ watch = "none"
  /\ lost = 0 /\ fresh = FALSE /\ dead = 0 /\ quiet = TRUE

-----------------------------------------------------------------------------
(* Mutants: the mistakes the properties are there to catch *)

\* the loop sleeps twice between heartbeats (sleep at both ends of its body)
SleepEndsTwice ==
  /\ beat = "sleep" /\ spent = Interval
  /\ \/ beat' = "beat" /\ UNCHANGED lost
     \/ beat' = "sleep" /\ UNCHANGED lost
  /\ spent' = 0
  /\ UNCHANGED <<age, server, done, watch, fresh, dead, quiet>>

\* while true instead of while kill -0
BeatEndsUngated ==
  /\ beat = "beat"
  /\ beat' = "sleep"
  /\ lost' = IF done THEN 0 ELSE Smaller(lost + 1, 2)
  /\ spent' = 0 /\ done' = FALSE
  /\ UNCHANGED <<age, server, watch, fresh, dead, quiet>>

\* a heartbeat that is started on the host and outlives the container
UpsertOutlives ==
  /\ beat \in {"beat", "none"} /\ ~done
  /\ age' = 0 /\ done' = (beat = "beat") /\ fresh' = TRUE /\ lost' = 0
  /\ UNCHANGED <<server, beat, spent, watch, dead, quiet>>

-----------------------------------------------------------------------------
Tick ==
  /\ beat = "beat" => spent < Bound
  /\ beat = "sleep" => spent < Interval
  /\ age' = Smaller(age + 1, Window)
  /\ spent' = IF Beating THEN spent + 1 ELSE 0
  /\ dead' = IF server = "down" /\ beat # "none" THEN Smaller(dead + 1, ShownBy) ELSE dead
  /\ UNCHANGED <<server, beat, done, watch, lost, fresh, quiet>>

\* The supervisor is past its bootstrap.  The server may never have come up.
Engage ==
  /\ Builds /\ beat = "none"
  /\ server' \in {"up", "down"}
  /\ beat' = "beat" /\ spent' = 0 /\ done' = FALSE
  /\ watch' = "pause"
  /\ lost' = 0 /\ fresh' = FALSE /\ dead' = 0 /\ quiet' = TRUE
  /\ UNCHANGED age

Upsert ==
  /\ beat = "beat" /\ ~done
  /\ age' = 0 /\ done' = TRUE /\ fresh' = TRUE /\ lost' = 0
  /\ UNCHANGED <<server, beat, spent, watch, dead, quiet>>

\* `timeout` kills the watch at the bound, or the watch ends before, with its
\* UPSERT or without.  Then the loop looks at the server.
BeatEnds ==
  /\ beat = "beat"
  /\ beat' = IF server = "up" THEN "sleep" ELSE "over"
  /\ lost' = IF done THEN 0 ELSE Smaller(lost + 1, 2)
  /\ spent' = 0 /\ done' = FALSE
  /\ UNCHANGED <<age, server, watch, fresh, dead, quiet>>

\* after the sleep comes a heartbeat, whatever has become of the server
SleepEnds ==
  /\ beat = "sleep" /\ spent = Interval
  /\ beat' = "beat" /\ spent' = 0
  /\ UNCHANGED <<age, server, done, watch, lost, fresh, dead, quiet>>

ServerDies ==
  /\ server = "up" /\ server' = "down"
  /\ dead' = 0 /\ quiet' = TRUE
  /\ UNCHANGED <<age, loopVars, watch, fresh>>

\* The foreground watch makes its UPSERT when it starts, and perhaps with a
\* message.  Nothing gates it on the server.
WatchUpsert ==
  /\ watch \in {"starting", "listening"} /\ watch' = "listening"
  /\ age' = 0 /\ fresh' = TRUE /\ lost' = 0 /\ quiet' = FALSE
  /\ UNCHANGED <<server, beat, spent, done, dead>>

\* it cannot connect, or loses its connection; drain and sleep 2 follow
WatchEnds ==
  /\ watch \in {"starting", "listening"} /\ watch' = "pause"
  /\ UNCHANGED <<age, server, loopVars, fresh, dead, quiet>>

WatchStarts ==
  /\ watch = "pause" /\ watch' = "starting"
  /\ UNCHANGED <<age, server, loopVars, fresh, dead, quiet>>

\* `bc-container stop`, or the container ends: the row stays in the database
Stop ==
  /\ beat # "none"
  /\ server' = "down" /\ beat' = "none" /\ spent' = 0 /\ done' = FALSE
  /\ watch' = "none" /\ dead' = 0 /\ quiet' = TRUE
  /\ UNCHANGED <<age, lost, fresh>>

Next ==
  \/ Tick \/ Engage \/ Upsert \/ BeatEnds \/ SleepEnds
  \/ ServerDies \/ WatchUpsert \/ WatchEnds \/ WatchStarts \/ Stop

Spec == Init /\ [][Next]_vars

\* time goes on, and the shell with it
FairSpec == Spec /\ WF_vars(Tick) /\ WF_vars(BeatEnds) /\ WF_vars(SleepEnds)

-----------------------------------------------------------------------------
CountsOK ==
  /\ age \in 0..Window
  /\ server \in {"up", "down"}
  /\ beat \in {"none", "beat", "sleep", "over"}
  /\ spent \in Nat
  /\ watch \in {"none", "starting", "listening", "pause"}
  /\ lost \in 0..2
  /\ dead \in 0..ShownBy

FlagsOK == done \in BOOLEAN /\ fresh \in BOOLEAN /\ quiet \in BOOLEAN

\* The variables have their types.
TypeOK == CountsOK /\ FlagsOK

\* "a live BC never flaps to offline between heartbeats" (feature 90e6b9fae7a63eb8):
\* as long as every heartbeat makes its UPSERT, early or late within its bound, an
\* engaged BC whose loop runs is online, without help of the foreground watch.
LiveStaysOnline == Beating /\ fresh /\ lost = 0 => Online

\* One heartbeat that the database does not take is not enough to take the BC
\* offline.
OneLostBeatTolerated == Beating /\ fresh /\ lost <= 1 => Online

\* "a genuinely DEAD BC ages past the window" (liveness.py): a server that has been
\* dead for interval, bound and window is seen, unless the foreground watch, which
\* does not depend on it, has made the row fresh.
DeadServerShows ==
  beat # "none" /\ server = "down" /\ quiet /\ dead = ShownBy => ~Online

\* A container that is gone is offline in the end, whatever it did last.
StoppedGoesOffline == beat = "none" ~> ~Online \/ beat # "none"

-----------------------------------------------------------------------------
(* Inductive strengthenings: what the row can be at each point of the loop *)

Timed ==
  /\ beat = "beat" => spent <= Bound
  /\ beat = "sleep" => spent <= Interval /\ ~done
  /\ done => beat = "beat"

\* With every UPSERT made the row is at most one bound old when a sleep begins.
AgeInv ==
  fresh =>
    /\ beat = "sleep" /\ lost = 0 => age <= Bound + spent
    /\ beat = "beat" /\ done => age <= spent
    /\ beat = "beat" /\ lost = 0 => age <= Interval + Bound + spent
    /\ beat = "sleep" /\ lost = 1 => age <= Interval + 2 * Bound + spent
    /\ beat = "beat" /\ lost = 1 => age <= 2 * Interval + 2 * Bound + spent

\* A dead server stops the loop at its next look, at most one heartbeat later.
DeathInv ==
  server = "down" /\ beat # "none" =>
    /\ beat = "sleep" => dead <= spent
    /\ beat = "beat" => dead <= Interval + spent
    /\ quiet /\ Online => dead <= age + Interval + Bound
=============================================================================
