---------------------------- MODULE ShotOutcome ----------------------------
(***************************************************************************)
(* What becomes of a ball: generate_shot, the times of the fielders, the   *)
(* scan of the last voter and resolve_fielding_outcome, for one batsman,   *)
(* ball after ball.  When votes are cast and counted is FielderRace; here  *)
(* any slots may be set when the scan begins, at least one of them, and a  *)
(* fielder may have run for the ball before.                               *)
(*                                                                         *)
(* Times are in tenths of a millisecond and the power of a shot in         *)
(* hundredths; what happens with some probability may happen or not.       *)
(***************************************************************************)
EXTENDS Integers

CONSTANTS
    Fielders,           \* indices of the fielder threads, the keeper's is 0
    Zones,              \* direction zones of the model, of 0 .. 9
    Skills,             \* skill ratings
    Jitters,            \* rng_range(-45, 45)
    AerialPowers,       \* powers of a shot in the air, 25 .. 65
    GroundPowers,       \* powers of a shot along the ground, 10 .. 92
    EnableDeadlockSim,  \* config.enable_deadlock_sim
    LateShots           \* what a late voter may have read: the ball before,
                        \* or a board that was being reset

ASSUME FieldAssumption == Fielders \subseteq 0 .. 9 /\ Zones \subseteq 0 .. 9
ASSUME TimesAssumption == Skills \subseteq 0 .. 100 /\ Jitters \subseteq -45 .. 45
ASSUME PowersAssumption ==
    AerialPowers \subseteq 25 .. 65 /\ GroundPowers \subseteq 10 .. 92
ASSUME SimAssumption == EnableDeadlockSim \in BOOLEAN

Keeper   == 0
NoWinner == -1
Unset    == 999990        \* 99999.0f

Raced    == {"AERIAL", "GROUND"}
Unbowled == {"WIDE", "NOBALL"}       \* nobody fields them

ASSUME LateAssumption ==
    LateShots \subseteq [type : STRING, zone : 0 .. 9, power : 0 .. 100]

VARIABLES
    shot,            \* the ShotResult of the batsman, published on the board
    reach_ms,        \* the slots of the board
    winner_idx, winner_reach_ms, winner_caught,
    outcome,         \* the BallOutcome, "none" before it is known
    ball             \* "bowled", "fielded", "resolved" or "over"

vars == <<shot, reach_ms, winner_idx, winner_reach_ms, winner_caught, outcome,
          ball>>

-----------------------------------------------------------------------------
(* generate_shot.                                                          *)

ShotsOf(types, zones, powers) == [type : types, zone : zones, power : powers]

\* The run-out is a shot only under the deadlock simulation.
Shots ==
    ShotsOf(Unbowled \cup {"DOT_BLOCK"}, {0}, {0})
      \cup ShotsOf({"AERIAL"}, Zones, AerialPowers)
      \cup ShotsOf({"BOWLED", "LBW"}
                      \cup (IF EnableDeadlockSim THEN {"RUNOUT"} ELSE {}),
                   Zones, {0})
      \cup ShotsOf({"GROUND"}, Zones, GroundPowers)
      \cup ShotsOf({"BOUNDARY_6"}, Zones, {92})

\* 300 + power * 500, and 0 of a shot that is not in the air
FlightTime(s) == IF s.type = "AERIAL" THEN 3000 + 50 * s.power ELSE 0

-----------------------------------------------------------------------------
(* fielder_thread_func: the time a fielder needs.                          *)

Abs(n) == IF n < 0 THEN -n ELSE n

\* The ten zones are a circle.
AroundCircle(d) == IF d > 5 THEN 10 - d ELSE d

\* Mutant: the keeper runs from zone 0.
KeeperRuns(f, zone) == AroundCircle(Abs(f - zone))

\* The keeper is always there.
ZoneDist(f, zone) ==
    IF f = Keeper THEN 0 ELSE AroundCircle(Abs(f - zone))

\* ZONE_BASE_MS
BaseReach(dist) ==
    CASE dist = 0 -> 800
      [] dist = 1 -> 2100
      [] dist = 2 -> 3600
      [] dist = 3 -> 5100
      [] dist = 4 -> 6500
      [] OTHER    -> 7900

ReachTime(f, zone, skill, jitter) ==
    LET reach == BaseReach(ZoneDist(f, zone)) - 8 * skill + 10 * jitter
    IN  IF reach < 400 THEN 400 ELSE reach

-----------------------------------------------------------------------------
(* resolve_fielding_outcome, and the shots that are decided without it.    *)

BoundaryTime(power) == 8000 - 60 * power

GroundOutcome(reach, power) ==
    IF reach >= BoundaryTime(power) THEN "FOUR"
    ELSE IF reach >= 4000 THEN "THREE"
    ELSE IF reach >= 2000 THEN "TWO"
    ELSE "SINGLE"

Decided(type) ==
    CASE type = "WIDE"       -> "WIDE"
      [] type = "NOBALL"     -> "NOBALL"
      [] type = "BOWLED"     -> "WICKET"
      [] type = "LBW"        -> "LBW"
      [] type = "RUNOUT"     -> "RUNOUT"
      [] type = "BOUNDARY_6" -> "SIX"
      [] OTHER               -> "DOT"

\* The winner's time; 99999.0f when there is none.
WinningTime == IF winner_idx # NoWinner THEN winner_reach_ms ELSE Unset

OutcomeOf(s) ==
    CASE s.type = "GROUND" -> GroundOutcome(WinningTime, s.power)
      [] s.type = "AERIAL" ->
             IF winner_idx # NoWinner /\ WinningTime < FlightTime(s)
                   /\ winner_caught
             THEN "CAUGHT" ELSE "TWO"
      [] OTHER -> Decided(s.type)

-----------------------------------------------------------------------------
Init ==
    /\ shot \in Shots
    /\ reach_ms = [f \in Fielders |-> Unset]
    /\ winner_idx = NoWinner /\ winner_reach_ms = Unset
    /\ winner_caught = FALSE
    /\ outcome = "none"
    /\ ball = "bowled"

\* The next ball; shot_state_reset.
NextBall ==
    /\ ball = "over"
    /\ shot' \in Shots
    /\ reach_ms' = [f \in Fielders |-> Unset]
    /\ winner_idx' = NoWinner /\ winner_reach_ms' = Unset
    /\ winner_caught' = FALSE
    /\ outcome' = "none"
    /\ ball' = "bowled"

\* The batsman broadcasts, unless nobody fields the ball.
HitBall ==
    /\ ball = "bowled"
    /\ ball' = IF shot.type \in Unbowled THEN "resolved" ELSE "fielded"
    /\ UNCHANGED <<shot, reach_ms, winner_idx, winner_reach_ms, winner_caught,
                   outcome>>

\* A fielder votes, perhaps again, perhaps for the ball before.  A vote written
\* after the scan is left out: nobody reads the slot before the next reset
\* wipes it, and reach_ms stays what the scan has seen.
Vote(f) ==
    /\ ball = "fielded"
    /\ \E seen \in {shot} \cup LateShots, skill \in Skills, jitter \in Jitters :
           reach_ms' = [reach_ms EXCEPT
                            ![f] = ReachTime(f, seen.zone, skill, jitter)]
    /\ UNCHANGED <<shot, winner_idx, winner_reach_ms, winner_caught, outcome,
                   ball>>

\* Mutant: the scan takes any slot that is set.
AnyVoter(f) == reach_ms[f] < Unset

\* The first of the fastest.
Fastest(f) ==
    /\ reach_ms[f] < Unset
    /\ \A g \in Fielders :
           reach_ms[f] < reach_ms[g] \/ (reach_ms[f] = reach_ms[g] /\ f <= g)

\* The scan of the last voter, who goes by the type that he has read and by
\* the flight time on the board.  A ball that is reached may be dropped.
ScanSlots ==
    /\ ball = "fielded"
    /\ \E f \in Fielders, seen \in {shot} \cup LateShots :
        /\ Fastest(f)
        /\ IF seen.type \in Raced
              THEN /\ winner_idx' = f /\ winner_reach_ms' = reach_ms[f]
                   /\ winner_caught' \in
                          IF seen.type = "AERIAL"
                                /\ reach_ms[f] < FlightTime(shot)
                          THEN BOOLEAN ELSE {FALSE}
              ELSE UNCHANGED <<winner_idx, winner_reach_ms, winner_caught>>
    /\ ball' = "resolved"
    /\ UNCHANGED <<shot, reach_ms, outcome>>

ResolveOutcome ==
    /\ ball = "resolved"
    /\ outcome' = OutcomeOf(shot)
    /\ ball' = "over"
    /\ UNCHANGED <<shot, reach_ms, winner_idx, winner_reach_ms, winner_caught>>

Next ==
    \/ NextBall \/ HitBall \/ (\E f \in Fielders : Vote(f)) \/ ScanSlots
    \/ ResolveOutcome

Spec == Init /\ [][Next]_vars

-----------------------------------------------------------------------------
TypeOK ==
    /\ shot \in Shots
    /\ reach_ms \in [Fielders -> 400 .. Unset]
    /\ winner_idx \in Fielders \cup {NoWinner}
    /\ winner_reach_ms \in 400 .. Unset
    /\ winner_caught \in BOOLEAN
    /\ outcome \in {"none", "DOT", "SINGLE", "TWO", "THREE", "FOUR", "SIX",
                    "WIDE", "NOBALL", "WICKET", "LBW", "CAUGHT", "RUNOUT"}
    /\ ball \in {"bowled", "fielded", "resolved", "over"}

\* Fielders that have a time on the board.
Voted == {f \in Fielders : reach_ms[f] < Unset}

\* The keeper is everywhere: in a race he has taken part in, a shot along the
\* ground is a single, whatever its power and whoever else has run.  Twos,
\* threes and fours come of races that were counted out before he voted.
KeeperMakesSingles ==
    outcome # "none" /\ shot.type = "GROUND"
      /\ winner_idx # NoWinner /\ Keeper \in Voted
        => outcome = "SINGLE"

\* A batsman caught is caught off a shot in the air, by the fastest of the
\* fielders that voted, who was there before the ball came down.
CatchIsFair ==
    outcome = "CAUGHT" =>
        /\ shot.type = "AERIAL"
        /\ winner_idx \in Voted
        /\ reach_ms[winner_idx] < FlightTime(shot)
        /\ \A f \in Voted : reach_ms[winner_idx] <= reach_ms[f]
=============================================================================
