---------------------------- MODULE MatchPhases ----------------------------
(***************************************************************************)
(* The arithmetic of an over's place in the innings: update_phase and      *)
(* compute_phase_intensity of the match engine, update_intensity of the    *)
(* scheduler, which has the boundaries of the phases a second time.        *)
(***************************************************************************)
EXTENDS Integers

\* p hundredths of m overs, rounded up
Percent(p, m) == (m * p + 99) \div 100

pp_end(m)      == Percent(30, m)
death_start(m) == m - Percent(20, m)

\* update_phase
PhaseOf(over, m) ==
    IF over < pp_end(m) THEN "POWERPLAY"
    ELSE IF over < death_start(m) THEN "MIDDLE"
    ELSE "DEATH"

\* Mutant: the last over of the middle is taken for the first of the death.
EarlyIntensity(over, m) ==
    IF over + 1 >= death_start(m) THEN "HIGH"
    ELSE IF over >= pp_end(m) THEN "MEDIUM"
    ELSE "LOW"

\* update_intensity, which asks in the other order
IntensityOf(over, m) ==
    IF over >= death_start(m) THEN "HIGH"
    ELSE IF over >= pp_end(m) THEN "MEDIUM"
    ELSE "LOW"

-----------------------------------------------------------------------------
(* compute_phase_intensity.                                                *)

Clamp(n) == IF n < 1 THEN 1 ELSE IF n > 50 THEN 50 ELSE n

OversToCome(over, m) == IF m - over + 1 < 1 THEN 1 ELSE m - over + 1

\* Twice the rate required, the wickets that have fallen, and the last overs.
ChasePressure(over, need, wickets, m) ==
    LET rem == OversToCome(over, m)
    IN  (2 * need) \div rem + wickets + (IF rem <= Percent(15, m) THEN 20 ELSE 0)

FirstInningsPressure(over, wickets, m) ==
    ((over * 100) \div m) \div 5 + 2 * wickets

\* The score from 1 to 50 at the start of an over.
PhaseIntensity(over, target, runs, wickets, m) ==
    Clamp(IF target > 0
          THEN ChasePressure(over, IF target > runs THEN target - runs ELSE 0,
                             wickets, m)
          ELSE FirstInningsPressure(over, wickets, m))
=============================================================================
