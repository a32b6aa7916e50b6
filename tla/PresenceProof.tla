--------------------------- MODULE PresenceProof ---------------------------
(***************************************************************************)
(* Proofs about Presence.  The age of the row is bounded at each point of  *)
(* the heartbeat loop by what the loop has yet to wait (AgeInv), and the   *)
(* time a dead server has gone unseen by the age of the row (DeathInv).    *)
(* From these follow, for every interval, bound and window, what the       *)
(* cadence must satisfy for a row that stays fresh, and that a dead server *)
(* is seen.                                                                *)
(***************************************************************************)
EXTENDS Presence, TLAPS

LEMMA AreNat == ShownBy \in Nat /\ Interval \in Nat /\ Bound \in Nat /\ Window \in Nat
  BY PresenceNumbers DEF ShownBy

LEMMA SmallerIsNat ==
  ASSUME NEW m \in Nat, NEW n \in Nat
  PROVE  Smaller(m, n) \in 0..n /\ Smaller(m, n) <= m /\ (m <= n => Smaller(m, n) = m)
  BY DEF Smaller

LEMMA InitType == Init => TypeOK
<1>1. Init => CountsOK
  BY AreNat DEF Init, CountsOK
<1>2. Init => FlagsOK
  BY DEF Init, FlagsOK
<1>3. QED
  BY <1>1, <1>2 DEF TypeOK

LEMMA FlagsStep == FlagsOK /\ [Next]_vars => FlagsOK'
<1> SUFFICES ASSUME FlagsOK, [Next]_vars PROVE FlagsOK'
  OBVIOUS
<1> USE DEF FlagsOK
<1>1. CASE UNCHANGED vars
  BY <1>1, Zenon DEF vars, loopVars
<1>2. CASE Tick
  BY <1>2, Zenon DEF Tick
<1>3. CASE Engage
  BY <1>3, Zenon DEF Engage
<1>4. CASE Upsert
  BY <1>4, Zenon DEF Upsert
<1>5. CASE BeatEnds
  BY <1>5, Zenon DEF BeatEnds
<1>6. CASE SleepEnds
  BY <1>6, Zenon DEF SleepEnds
<1>7. CASE ServerDies
  BY <1>7, Zenon DEF ServerDies, loopVars
<1>8. CASE WatchUpsert
  BY <1>8, Zenon DEF WatchUpsert
<1>9. CASE WatchEnds
  BY <1>9, Zenon DEF WatchEnds, loopVars
<1>10. CASE WatchStarts
  BY <1>10, Zenon DEF WatchStarts, loopVars
<1>11. CASE Stop
  BY <1>11, Zenon DEF Stop
<1>12. QED
  BY <1>1, <1>2, <1>3, <1>4, <1>5, <1>6, <1>7, <1>8, <1>9, <1>10, <1>11, Zenon DEF Next

LEMMA CountsStep == CountsOK /\ [Next]_vars => CountsOK'
<1> SUFFICES ASSUME CountsOK, [Next]_vars PROVE CountsOK'
  OBVIOUS
<1> USE AreNat DEF CountsOK
<1>1. CASE UNCHANGED vars
  BY <1>1 DEF vars, loopVars
<1>2. CASE Tick
  <2>1. age' \in 0..Window
    BY <1>2, SmallerIsNat, age + 1 \in Nat DEF Tick
  <2>2. dead' \in 0..ShownBy
    BY <1>2, SmallerIsNat, dead + 1 \in Nat DEF Tick
  <2>3. spent' \in Nat
    BY <1>2 DEF Tick
  <2>4. QED
    BY <1>2, <2>1, <2>2, <2>3 DEF Tick
<1>3. CASE Engage
  BY <1>3 DEF Engage
<1>4. CASE Upsert
  BY <1>4 DEF Upsert
<1>5. CASE BeatEnds
  BY <1>5 DEF BeatEnds, Smaller
<1>6. CASE SleepEnds
  BY <1>6 DEF SleepEnds
<1>7. CASE ServerDies
  BY <1>7 DEF ServerDies, loopVars
<1>8. CASE WatchUpsert
  BY <1>8 DEF WatchUpsert
<1>9. CASE WatchEnds
  BY <1>9 DEF WatchEnds, loopVars
<1>10. CASE WatchStarts
  BY <1>10 DEF WatchStarts, loopVars
<1>11. CASE Stop
  BY <1>11 DEF Stop
<1>12. QED
  BY <1>1, <1>2, <1>3, <1>4, <1>5, <1>6, <1>7, <1>8, <1>9, <1>10, <1>11 DEF Next

LEMMA TypeStep == TypeOK /\ [Next]_vars => TypeOK'
  BY FlagsStep, CountsStep DEF TypeOK

\* Every variable keeps its type, for every cadence and window.
THEOREM TypeCorrect == Spec => []TypeOK
<1>1. QED
  BY InitType, TypeStep, PTL DEF Spec

-----------------------------------------------------------------------------
LoopInv == Timed /\ AgeInv /\ DeathInv

LEMMA InitInv == Init => LoopInv
  BY DEF Init, LoopInv, Timed, AgeInv, DeathInv

LEMMA TimedStep == CountsOK /\ Timed /\ [Next]_vars => Timed'
<1> SUFFICES ASSUME CountsOK, Timed, [Next]_vars PROVE Timed'
  OBVIOUS
<1> USE AreNat DEF CountsOK, Timed
<1>1. CASE UNCHANGED vars
  BY <1>1 DEF vars, loopVars
<1>2. CASE Tick
  BY <1>2 DEF Tick, Beating
<1>3. CASE Engage
  BY <1>3 DEF Engage
<1>4. CASE Upsert \/ BeatEnds \/ SleepEnds
  BY <1>4 DEF Upsert, BeatEnds, SleepEnds
<1>5. CASE ServerDies \/ WatchUpsert \/ WatchEnds \/ WatchStarts
  BY <1>5 DEF ServerDies, WatchUpsert, WatchEnds, WatchStarts, loopVars
<1>6. CASE Stop
  BY <1>6 DEF Stop
<1>7. QED
  BY <1>1, <1>2, <1>3, <1>4, <1>5, <1>6 DEF Next

\* The row ages with the loop, and a heartbeat that is lost costs one more round.
LEMMA AgeStep == CountsOK /\ Timed /\ AgeInv /\ [Next]_vars => AgeInv'
<1> SUFFICES ASSUME CountsOK, Timed, AgeInv, [Next]_vars PROVE AgeInv'
  OBVIOUS
<1> USE AreNat DEF CountsOK, Timed, AgeInv
<1>1. CASE UNCHANGED vars
  BY <1>1 DEF vars, loopVars
<1>2. CASE Tick
  <2>1. age' <= age + 1 /\ age' \in Nat
    BY <1>2, SmallerIsNat, age + 1 \in Nat DEF Tick
  <2>2. Beating => spent' = spent + 1
    BY <1>2 DEF Tick
  <2>3. QED
    BY <1>2, <2>1, <2>2 DEF Tick, Beating
<1>3. CASE Engage
  BY <1>3 DEF Engage
<1>4. CASE Upsert
  BY <1>4 DEF Upsert
<1>5. CASE BeatEnds
  <2>1. CASE done
    BY <1>5, <2>1 DEF BeatEnds
  <2>2. CASE ~done
    <3>1. lost' = IF lost = 0 THEN 1 ELSE 2
      BY <1>5, <2>2 DEF BeatEnds, Smaller
    <3>2. QED
      BY <1>5, <2>2, <3>1 DEF BeatEnds
  <2>3. QED
    BY <2>1, <2>2
<1>6. CASE SleepEnds
  BY <1>6 DEF SleepEnds
<1>7. CASE ServerDies \/ WatchEnds \/ WatchStarts
  BY <1>7 DEF ServerDies, WatchEnds, WatchStarts, loopVars
<1>8. CASE WatchUpsert
  BY <1>8 DEF WatchUpsert
<1>9. CASE Stop
  BY <1>9 DEF Stop
<1>10. QED
  BY <1>1, <1>2, <1>3, <1>4, <1>5, <1>6, <1>7, <1>8, <1>9 DEF Next

\* A dead server lets the loop make one more heartbeat, and from then on the row ages.
LEMMA DeathStep == CountsOK /\ Timed /\ DeathInv /\ [Next]_vars => DeathInv'
<1> SUFFICES ASSUME CountsOK, Timed, DeathInv, [Next]_vars PROVE DeathInv'
  OBVIOUS
<1> USE AreNat DEF CountsOK, Timed, DeathInv
<1>1. CASE UNCHANGED vars
  BY <1>1 DEF vars, loopVars, Online
<1>2. CASE Tick
  <2>1. dead' <= dead + 1 /\ dead' \in Nat
    <3>1. dead + 1 \in Nat /\ ShownBy \in Nat
      BY DEF CountsOK
    <3>2. Smaller(dead + 1, ShownBy) \in Nat /\ Smaller(dead + 1, ShownBy) <= dead + 1
      BY <3>1, SmallerIsNat
    <3>3. dead' = Smaller(dead + 1, ShownBy) \/ dead' = dead
      BY <1>2 DEF Tick
    <3>4. QED
      BY <3>1, <3>2, <3>3
  <2>2. Online' => Online /\ age' = age + 1
    BY <1>2 DEF Tick, Online, Smaller
  <2>3. QED
    BY <1>2, <2>1, <2>2 DEF Tick, Beating
<1>3. CASE Engage
  BY <1>3 DEF Engage
<1>4. CASE Upsert
  BY <1>4 DEF Upsert
<1>5. CASE BeatEnds
  BY <1>5 DEF BeatEnds, Online
<1>6. CASE SleepEnds
  BY <1>6 DEF SleepEnds, Online
<1>7. CASE ServerDies
  BY <1>7 DEF ServerDies, loopVars
<1>8. CASE WatchUpsert
  BY <1>8 DEF WatchUpsert
<1>9. CASE WatchEnds \/ WatchStarts
  BY <1>9 DEF WatchEnds, WatchStarts, loopVars, Online
<1>10. CASE Stop
  BY <1>10 DEF Stop
<1>11. QED
  BY <1>1, <1>2, <1>3, <1>4, <1>5, <1>6, <1>7, <1>8, <1>9, <1>10 DEF Next

\* How old the row can be at each point of the heartbeat loop that engage.py builds.
THEOREM LoopCorrect == Spec => [](TypeOK /\ LoopInv)
<1>1. TypeOK /\ LoopInv /\ [Next]_vars => (TypeOK /\ LoopInv)'
  BY TypeStep, TimedStep, AgeStep, DeathStep DEF LoopInv, TypeOK
<1>2. QED
  BY <1>1, InitType, InitInv, PTL DEF Spec

\* A BC whose heartbeats all reach the database stays online if the window is longer
\* than the interval and TWO bounds: an UPSERT at the start of one heartbeat and the
\* next at the end of the following one.  The guard of _fabro_engage_script counts one.
THEOREM LiveBCStaysOnline ==
  ASSUME Interval + 2 * Bound < Window
  PROVE  Spec => []LiveStaysOnline
<1>1. CountsOK /\ LoopInv => LiveStaysOnline
  BY AreNat DEF CountsOK, LoopInv, Timed, AgeInv, LiveStaysOnline, Beating, Online
<1>2. QED
  BY <1>1, LoopCorrect, PTL DEF TypeOK

\* A window longer than two intervals and three bounds lets the database miss a
\* heartbeat; the shipped 30, 5 and 90 seconds satisfy it (75 < 90).
THEOREM ALostBeatIsTolerated ==
  ASSUME 2 * Interval + 3 * Bound < Window
  PROVE  Spec => []OneLostBeatTolerated
<1>1. CountsOK /\ LoopInv => OneLostBeatTolerated
  <2> SUFFICES ASSUME CountsOK, LoopInv, Beating, fresh, lost <= 1 PROVE Online
    BY DEF OneLostBeatTolerated
  <2> USE AreNat DEF CountsOK, LoopInv, Timed, AgeInv, Beating, Online
  <2>1. CASE lost = 0
    BY <2>1
  <2>2. CASE lost = 1
    BY <2>2
  <2>3. QED
    BY <2>1, <2>2
<1>2. QED
  BY <1>1, LoopCorrect, PTL DEF TypeOK

\* For every cadence and window, a server that has been dead for interval, bound and
\* window is seen as offline unless the foreground watch has made the row fresh.
THEOREM ADeadServerShows == Spec => []DeadServerShows
<1>1. CountsOK /\ LoopInv => DeadServerShows
  BY AreNat DEF CountsOK, LoopInv, DeathInv, DeadServerShows, Online, ShownBy
<1>2. QED
  BY <1>1, LoopCorrect, PTL DEF TypeOK
=============================================================================
