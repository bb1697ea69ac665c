------------------------- MODULE ShotOutcomeProofs -------------------------
(***************************************************************************)
(* The safety properties of ShotOutcome for all fielders, zones, ratings,  *)
(* powers and late shots.  The argument is arithmetic: the keeper's        *)
(* distance is 0, so his time is at most 800 + 450 tenths, while a single  *)
(* is given up to 2000 and the rope is never nearer than 2480.             *)
(***************************************************************************)
EXTENDS ShotOutcome, TLAPS

\* The keeper's time is bounded, wherever the ball goes.
KeeperInv == Keeper \in Voted => reach_ms[Keeper] <= 1250

WinnerInv ==
    winner_idx # NoWinner =>
        /\ ball \in {"resolved", "over"}
        /\ winner_idx \in Voted
        /\ winner_reach_ms = reach_ms[winner_idx]
        /\ \A f \in Voted : reach_ms[winner_idx] <= reach_ms[f]

CatchInv ==
    winner_caught => winner_idx # NoWinner /\ winner_reach_ms < FlightTime(shot)

OutcomeInv == outcome # "none" => ball = "over" /\ outcome = OutcomeOf(shot)

BallInv == TypeOK /\ KeeperInv /\ WinnerInv /\ CatchInv /\ OutcomeInv

-----------------------------------------------------------------------------
\* The empty slot is later than every time.
LEMMA UnsetIsLate == Unset \in Int /\ Unset > 8350
BY SMT DEF Unset

\* What generate_shot can return.
LEMMA ShotFacts ==
    ASSUME NEW s \in Shots
    PROVE  /\ s.zone \in 0 .. 9 /\ s.power \in 0 .. 100
           /\ s.type = "GROUND" => s.power \in 10 .. 92
           /\ s.type = "AERIAL" => s.power \in 25 .. 65
<1>1. CASE s \in ShotsOf(Unbowled \cup {"DOT_BLOCK"}, {0}, {0})
    BY <1>1 DEF ShotsOf, Unbowled
<1>2. CASE s \in ShotsOf({"AERIAL"}, Zones, AerialPowers)
  <2>1. s.type = "AERIAL" /\ s.zone \in Zones /\ s.power \in AerialPowers
    BY <1>2 DEF ShotsOf
  <2>2. s.zone \in 0 .. 9 /\ s.power \in 25 .. 65
    BY <2>1, FieldAssumption, PowersAssumption
  <2> QED
    BY <2>1, <2>2
<1>3. CASE s \in ShotsOf({"BOWLED", "LBW"}
                           \cup (IF EnableDeadlockSim THEN {"RUNOUT"} ELSE {}),
                        Zones, {0})
  <2>1. s.type # "GROUND" /\ s.type # "AERIAL"
    BY <1>3 DEF ShotsOf
  <2>2. s.zone \in Zones /\ s.power = 0
    BY <1>3 DEF ShotsOf
  <2>3. s.zone \in 0 .. 9
    BY <2>2, FieldAssumption
  <2> QED
    BY <2>1, <2>2, <2>3
<1>4. CASE s \in ShotsOf({"GROUND"}, Zones, GroundPowers)
  <2>1. s.type = "GROUND" /\ s.zone \in Zones /\ s.power \in GroundPowers
    BY <1>4 DEF ShotsOf
  <2>2. s.zone \in 0 .. 9 /\ s.power \in 10 .. 92
    BY <2>1, FieldAssumption, PowersAssumption
  <2> QED
    BY <2>1, <2>2
<1>5. CASE s \in ShotsOf({"BOUNDARY_6"}, Zones, {92})
  <2>1. s.type = "BOUNDARY_6" /\ s.zone \in Zones /\ s.power = 92
    BY <1>5 DEF ShotsOf
  <2>2. s.zone \in 0 .. 9
    BY <2>1, FieldAssumption
  <2> QED
    BY <2>1, <2>2
<1> QED
    BY <1>1, <1>2, <1>3, <1>4, <1>5 DEF Shots

\* Every vote is a time, and the keeper's is short.
LEMMA ReachBounds ==
    ASSUME NEW f \in Fielders, NEW zone \in 0 .. 9, NEW skill \in Skills,
           NEW jitter \in Jitters
    PROVE  /\ ReachTime(f, zone, skill, jitter) \in 400 .. Unset - 1
           /\ f = Keeper => ReachTime(f, zone, skill, jitter) <= 1250
<1> DEFINE base == BaseReach(ZoneDist(f, zone))
<1>1. base \in 800 .. 7900 /\ (f = Keeper => base = 800)
  <2>1. f = Keeper => ZoneDist(f, zone) = 0
    BY DEF ZoneDist
  <2>2. base \in {800, 2100, 3600, 5100, 6500, 7900}
    BY DEF BaseReach
  <2>3. ZoneDist(f, zone) = 0 => base = 800
    BY DEF BaseReach
  <2> HIDE DEF base
  <2> QED
    BY <2>1, <2>2, <2>3, SMT
<1>2. skill \in 0 .. 100 /\ jitter \in (-45) .. 45
    BY TimesAssumption
<1> DEFINE reach == base - 8 * skill + 10 * jitter
<1>3. ReachTime(f, zone, skill, jitter) = IF reach < 400 THEN 400 ELSE reach
    BY DEF ReachTime
<1> HIDE DEF base
<1>4. reach \in (-450) .. 8350 /\ (f = Keeper => reach <= 1250)
    BY <1>1, <1>2, SMT
<1> HIDE DEF reach
<1> QED
    BY <1>3, <1>4, UnsetIsLate, SMT

\* A time below 2000 is a single off every shot along the ground.
LEMMA ShortTimesAreSingles ==
    ASSUME NEW reach \in Int, reach < 2000, NEW power \in 10 .. 92
    PROVE  GroundOutcome(reach, power) = "SINGLE"
<1>1. BoundaryTime(power) >= 2480
    BY DEF BoundaryTime
<1>2. BoundaryTime(power) \in Int
    BY DEF BoundaryTime
<1> QED
    BY <1>1, <1>2 DEF GroundOutcome

\* What can come of a shot, apart from the value of the outcome.
LEMMA OutcomeType ==
    ASSUME NEW s \in Shots
    PROVE  OutcomeOf(s) \in {"DOT", "SINGLE", "TWO", "THREE", "FOUR", "SIX",
                    "WIDE", "NOBALL", "WICKET", "LBW", "CAUGHT", "RUNOUT"}
BY DEF OutcomeOf, GroundOutcome, Decided

-----------------------------------------------------------------------------
\* The inductive invariant holds before the first ball.
LEMMA BallInit == Init => BallInv
<1> SUFFICES ASSUME Init PROVE BallInv
    OBVIOUS
<1>1. TypeOK
  <2>1. winner_caught \in BOOLEAN
    BY DEF Init
  <2> QED
    BY <2>1, UnsetIsLate DEF Init, TypeOK, NoWinner
<1>2. Voted = {}
    BY UnsetIsLate DEF Init, Voted
<1> QED
    BY <1>1, <1>2 DEF Init, BallInv, KeeperInv, WinnerInv, CatchInv, OutcomeInv

\* Every step of a ball keeps the inductive invariant.
LEMMA BallStep == BallInv /\ [Next]_vars => BallInv'
<1> SUFFICES ASSUME BallInv, [Next]_vars PROVE BallInv'
    OBVIOUS
<1> USE DEF BallInv
<1>1. CASE NextBall
  <2>1. TypeOK'
    <3>1. winner_caught' \in BOOLEAN
      BY <1>1 DEF NextBall
    <3> QED
      BY <1>1, <3>1, UnsetIsLate DEF NextBall, TypeOK, NoWinner
  <2>2. Voted' = {}
    BY <1>1, UnsetIsLate DEF NextBall, Voted
  <2> QED
    BY <1>1, <2>1, <2>2
       DEF NextBall, KeeperInv, WinnerInv, CatchInv, OutcomeInv
<1>2. CASE HitBall
  <2>1. TypeOK'
    BY <1>2 DEF HitBall, TypeOK
  <2>2. Voted' = Voted /\ FlightTime(shot)' = FlightTime(shot)
    BY <1>2 DEF HitBall, Voted, FlightTime
  <2> QED
    BY <1>2, <2>1, <2>2
       DEF HitBall, KeeperInv, WinnerInv, CatchInv, OutcomeInv
<1>3. ASSUME NEW f \in Fielders, Vote(f) PROVE BallInv'
  <2>1. PICK seen \in {shot} \cup LateShots, skill \in Skills, jitter \in Jitters :
            reach_ms' = [reach_ms EXCEPT
                             ![f] = ReachTime(f, seen.zone, skill, jitter)]
    BY <1>3 DEF Vote
  <2>2. seen.zone \in 0 .. 9
    BY ShotFacts, LateAssumption DEF TypeOK
  <2> DEFINE reach == ReachTime(f, seen.zone, skill, jitter)
  <2>3. reach \in 400 .. Unset - 1 /\ (f = Keeper => reach <= 1250)
    BY <2>2, ReachBounds
  <2> HIDE DEF reach
  <2>4. reach_ms' = [reach_ms EXCEPT ![f] = reach]
    BY <2>1 DEF reach
  <2>5. TypeOK'
    BY <1>3, <2>3, <2>4, UnsetIsLate DEF Vote, TypeOK
  <2>6. KeeperInv'
    BY <2>3, <2>4 DEF KeeperInv, Voted, TypeOK
  <2>7. winner_idx = NoWinner /\ outcome = "none"
    BY <1>3 DEF Vote, WinnerInv, OutcomeInv
  <2> QED
    BY <1>3, <2>5, <2>6, <2>7 DEF Vote, WinnerInv, CatchInv, OutcomeInv
<1>4. CASE ScanSlots
  <2>1. PICK f \in Fielders, seen \in {shot} \cup LateShots :
          /\ Fastest(f)
          /\ IF seen.type \in Raced
                THEN /\ winner_idx' = f /\ winner_reach_ms' = reach_ms[f]
                     /\ winner_caught' \in
                            IF seen.type = "AERIAL"
                                  /\ reach_ms[f] < FlightTime(shot)
                            THEN BOOLEAN ELSE {FALSE}
                ELSE UNCHANGED <<winner_idx, winner_reach_ms, winner_caught>>
    BY <1>4 DEF ScanSlots
  <2>2. Voted' = Voted /\ FlightTime(shot)' = FlightTime(shot)
    BY <1>4 DEF ScanSlots, Voted, FlightTime
  <2>3. f \in Voted /\ \A g \in Voted : reach_ms[f] <= reach_ms[g]
    BY <2>1 DEF Fastest, Voted, TypeOK
  <2>4. winner_idx = NoWinner /\ outcome = "none"
    BY <1>4 DEF ScanSlots, WinnerInv, OutcomeInv
  <2>5. TypeOK'
    <3>1. winner_caught' \in BOOLEAN
      BY <2>1, Zenon DEF TypeOK
    <3>2. winner_idx' \in Fielders \cup {NoWinner} /\ winner_reach_ms' \in 400 .. Unset
      <4>1. reach_ms[f] \in 400 .. Unset
        BY DEF TypeOK
      <4>2. winner_idx' \in {f, winner_idx} /\ winner_reach_ms' \in {reach_ms[f], winner_reach_ms}
        BY <2>1
      <4> QED
        BY <4>1, <4>2 DEF TypeOK
    <3> QED
      BY <1>4, <3>1, <3>2 DEF ScanSlots, TypeOK
  <2>6. KeeperInv'
    BY <1>4, <2>2 DEF ScanSlots, KeeperInv
  <2>7. WinnerInv'
    BY <1>4, <2>1, <2>2, <2>3, <2>4 DEF ScanSlots, WinnerInv
  <2>8. CatchInv'
    <3>1. CASE seen.type \in Raced
      <4>1. winner_idx' # NoWinner
        BY <2>1, <3>1, FieldAssumption DEF NoWinner
      <4>2. ~winner_caught' \/ reach_ms[f] < FlightTime(shot)
        BY <2>1, <3>1, Zenon
      <4> QED
        BY <2>1, <2>2, <3>1, <4>1, <4>2, Zenon DEF CatchInv
    <3>2. CASE seen.type \notin Raced
      BY <2>1, <2>2, <3>2, Zenon DEF CatchInv
    <3> QED
      BY <3>1, <3>2
  <2> QED
    BY <1>4, <2>4, <2>5, <2>6, <2>7, <2>8 DEF ScanSlots, OutcomeInv
<1>5. CASE ResolveOutcome
  <2>1. OutcomeOf(shot)' = OutcomeOf(shot)
    BY <1>5 DEF ResolveOutcome, OutcomeOf, GroundOutcome, BoundaryTime,
                WinningTime, FlightTime, Decided
  <2>2. Voted' = Voted /\ FlightTime(shot)' = FlightTime(shot)
    BY <1>5 DEF ResolveOutcome, Voted, FlightTime
  <2>3. TypeOK'
    BY <1>5, OutcomeType DEF ResolveOutcome, TypeOK
  <2> QED
    BY <1>5, <2>1, <2>2, <2>3
       DEF ResolveOutcome, KeeperInv, WinnerInv, CatchInv, OutcomeInv
<1>6. CASE UNCHANGED vars
  <2>1. Voted' = Voted /\ OutcomeOf(shot)' = OutcomeOf(shot)
          /\ FlightTime(shot)' = FlightTime(shot)
    BY <1>6 DEF vars, Voted, OutcomeOf, GroundOutcome, BoundaryTime,
                WinningTime, FlightTime, Decided
  <2> QED
    BY <1>6, <2>1
       DEF vars, TypeOK, KeeperInv, WinnerInv, CatchInv, OutcomeInv
<1> QED
    BY <1>1, <1>2, <1>3, <1>4, <1>5, <1>6 DEF Next

\* The inductive invariant of the ball.
THEOREM BallInvariant == Spec => []BallInv
BY BallInit, BallStep, PTL DEF Spec

\* Type correctness, for any fielders, ratings and shots.
THEOREM TypeCorrect == Spec => []TypeOK
BY BallInvariant, PTL DEF BallInv

\* When the keeper has voted, a shot along the ground that has a winner is a
\* single: the power of the shot does not matter.
THEOREM KeeperMakesSinglesHolds == Spec => []KeeperMakesSingles
<1>1. BallInv => KeeperMakesSingles
  <2> SUFFICES ASSUME BallInv, outcome # "none", shot.type = "GROUND",
                      winner_idx # NoWinner, Keeper \in Voted
               PROVE  outcome = "SINGLE"
    BY DEF KeeperMakesSingles
  <2> USE DEF BallInv
  <2>1. winner_reach_ms \in Int /\ winner_reach_ms < 2000
    BY DEF WinnerInv, KeeperInv, Voted, TypeOK
  <2>2. shot.power \in 10 .. 92
    BY ShotFacts DEF TypeOK
  <2>3. outcome = GroundOutcome(winner_reach_ms, shot.power)
    BY DEF OutcomeInv, OutcomeOf, WinningTime
  <2> QED
    BY <2>1, <2>2, <2>3, ShortTimesAreSingles
<1> QED
    BY <1>1, BallInvariant, PTL

\* A catch is taken off a shot in the air, by the fastest voter, in time.
THEOREM CatchIsFairHolds == Spec => []CatchIsFair
<1>1. BallInv => CatchIsFair
  <2> SUFFICES ASSUME BallInv, outcome = "CAUGHT" PROVE CatchIsFair
    BY DEF CatchIsFair
  <2> USE DEF BallInv
  <2>1. OutcomeOf(shot) = "CAUGHT"
    BY DEF OutcomeInv
  <2>2. shot.type = "AERIAL" /\ winner_idx # NoWinner
          /\ WinningTime < FlightTime(shot)
    BY <2>1 DEF OutcomeOf, GroundOutcome, Decided
  <2> QED
    BY <2>2 DEF CatchIsFair, WinnerInv, WinningTime
<1> QED
    BY <1>1, BallInvariant, PTL
=============================================================================
