--------------------------- MODULE BowlerPriority ---------------------------
(***************************************************************************)
(* The two scores by which Scheduler ranks bowlers: the dynamic priority   *)
(* and the score of the opener rule.  A bowler has his skill, speed and    *)
(* speciality from init_bowlers or init_allrounders.  A speed is a whole   *)
(* number of kilometres per hour, which is enough for every number of      *)
(* points the conversion to int can come to.                               *)
(***************************************************************************)
EXTENDS Integers

CONSTANTS
    NBowlers,     \* bowlers of the fielding side (5 in the program)
    Quota,        \* Player.max_overs (4)
    Skill,        \* skill_rating of each bowler
    Speed,        \* bowling_speed of each bowler
    Speciality    \* bowl_spec of each bowler

Bowlers == 0 .. NBowlers - 1

ASSUME BowlersAssumption == NBowlers \in Nat /\ NBowlers >= 2

\* What init_bowlers and init_allrounders draw for the bowlers of a team.  The
\* all-rounders of swing and death bowling are never picked (TeamsAreBalanced).
ASSUME FormAssumption ==
    /\ Speciality \in [Bowlers -> {"SWING", "SPIN", "DEATH", "MEDIUM"}]
    /\ Skill \in [Bowlers -> Nat] /\ Speed \in [Bowlers -> Nat]
    /\ \A b \in Bowlers :
        CASE Speciality[b] = "SWING"  -> Skill[b] \in 75 .. 95 /\ Speed[b] \in 132 .. 152
          [] Speciality[b] = "DEATH"  -> Skill[b] \in 72 .. 92 /\ Speed[b] \in 128 .. 148
          [] Speciality[b] = "SPIN"   -> Skill[b] \in 65 .. 93 /\ Speed[b] \in 90 .. 125
          [] Speciality[b] = "MEDIUM" -> Skill[b] \in 68 .. 85 /\ Speed[b] \in 120 .. 140

\* (int) of tenths, which drops the fraction on either side of zero
Whole(tenths) == IF tenths >= 0 THEN tenths \div 10 ELSE -((-tenths) \div 10)

\* The signal of the economy: runs for each of the overs, 7.5 if there is none.
Economy(overs, conceded) ==
    IF overs = 0 THEN 0
    ELSE IF conceded < 6 * overs      THEN 20
    ELSE IF 2 * conceded < 15 * overs THEN 10
    ELSE IF conceded < 9 * overs      THEN 0
    ELSE IF conceded < 11 * overs     THEN -14
    ELSE -28

PowerplayPoints(b) ==
    Whole((Speed[b] - 125) * 3) +
        CASE Speciality[b] = "SWING"  -> 25
          [] Speciality[b] = "MEDIUM" -> 8
          [] Speciality[b] = "SPIN"   -> -18
          [] Speciality[b] = "DEATH"  -> -8

\* Death specialists are saved while there are more than four overs to come.
MiddlePoints(b, left) ==
    CASE Speciality[b] = "SPIN"   -> 20
      [] Speciality[b] = "MEDIUM" -> 8
      [] Speciality[b] = "SWING"  -> -5
      [] Speciality[b] = "DEATH"  -> IF left > 4 THEN -17 ELSE -5

DeathPoints(b, left) ==
    CASE Speciality[b] = "DEATH"  -> IF left <= 2 THEN 43 ELSE 28
      [] Speciality[b] = "MEDIUM" -> 5
      [] Speciality[b] = "SPIN"   -> -10
      [] Speciality[b] = "SWING"  -> -8

\* Mutant: the bonus of the middle overs in every phase.
NoSpecialists(b, phase, left) == MiddlePoints(b, left)

PhasePoints(b, phase, left) ==
    IF phase = "POWERPLAY"   THEN PowerplayPoints(b)
    ELSE IF phase = "MIDDLE" THEN MiddlePoints(b, left)
    ELSE DeathPoints(b, left)

\* compute_dynamic_priority for a bowler with these figures.
Priority(b, overs, conceded, taken, phase, left) ==
    Skill[b] - 5 * overs + Economy(overs, conceded) + 9 * taken
        + PhasePoints(b, phase, left)
        - (IF Quota - overs = 1 /\ left > 3 THEN 8 ELSE 0)

OpenerScore(b) ==
    Skill[b] + Whole((Speed[b] - 125) * 4) + (IF Speciality[b] = "SWING" THEN 20 ELSE 0)
=============================================================================
