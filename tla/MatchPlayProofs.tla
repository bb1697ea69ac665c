-------------------------- MODULE MatchPlayProofs --------------------------
(***************************************************************************)
(* MatchPlay for any number of bowlers, overs and quotas.  That nobody is  *)
(* asked for an over beyond his quota is a matter of counting: the overs   *)
(* done are never more than the overs of the innings, so somebody has one  *)
(* left while there is one to bowl.  Round robin keeps the bowlers level   *)
(* because those that are one over ahead are always the ones from some     *)
(* bowler on, round the queue, to the head.                                *)
(***************************************************************************)
EXTENDS MatchPlay, FiniteSets, FiniteSetTheorems, TLAPS

\* One pair for each over that a bowler has completed.
OversDone == {p \in Bowlers \X Nat : p[2] \in 1 .. overs_bowled[p[1]]}

CountInv ==
    /\ IsFiniteSet(OversDone)
    /\ Cardinality(OversDone) + (IF stage = "over" THEN 1 ELSE 0) <= current_over

\* A bowler at work has an over left to bowl.
QuotaInv ==
    /\ \A b \in Bowlers : overs_bowled[b] <= Quota
    /\ stage = "over" => /\ current_bowler_idx \in Bowlers
                         /\ HasOvers(current_bowler_idx)
    /\ current_over = 0 => overs_bowled = NoOvers /\ stage # "over"

\* How far b comes after s in the queue.
Gap(s, b) == IF b >= s THEN b - s ELSE b - s + NBowlers

\* The overs of a bowler with the one that he is bowling.
Given(b) == overs_bowled[b] +
                (IF stage = "over" /\ b = current_bowler_idx THEN 1 ELSE 0)

TurnInv ==
    type_ = "RR" /\ current_over > 0
      /\ (stage = "over" \/ (stage = "play" /\ ~match_over)) =>
        /\ rr_head = current_bowler_idx
        /\ \E s \in Bowlers, q \in Nat : \A b \in Bowlers :
               Given(b) = IF Gap(s, b) <= Gap(s, rr_head) THEN q + 1 ELSE q

ScheduleInv == SchedulerTypeOK /\ CountInv /\ QuotaInv

\* What the score says of a match that is over.
EndInv == match_over /\ stage \in {"play", "over"} => AllOut \/ Chased

ScoreInv ==
    /\ innings = 1 => target = 0 /\ stage # "result"
    /\ innings = 2 => target = innings1_runs + 1

PlayInv ==
    TypeOK /\ EndInv /\ ScoreInv /\ PhasesAgree /\ InningsAreWhole /\ ResultIsFair

-----------------------------------------------------------------------------
(* The arithmetic of the phases.                                           *)

\* The powerplay ends before the death overs begin, except that in a match of
\* one over there is no powerplay left to bowl.
LEMMA Boundaries ==
    ASSUME NEW m \in Nat
    PROVE  /\ pp_end(m) \in Int /\ death_start(m) \in Int
           /\ m > 1 => pp_end(m) <= death_start(m)
           /\ m = 1 => pp_end(m) = 1 /\ death_start(m) = 0
BY SMT DEF pp_end, death_start, Percent

\* The two sets of tests agree, in every format and at every over.
LEMMA TestsAgree ==
    ASSUME NEW m \in Nat, NEW over \in 1 .. m
    PROVE  /\ PhaseOf(over, m) = "DEATH"  <=> IntensityOf(over, m) = "HIGH"
           /\ PhaseOf(over, m) = "MIDDLE" <=> IntensityOf(over, m) = "MEDIUM"
BY Boundaries, SMT DEF PhaseOf, IntensityOf

\* The pressure is a number from 1 to 50.
LEMMA PressureBounded ==
    ASSUME NEW over \in Nat, NEW tgt \in Nat, NEW runs \in Nat,
           NEW wkts \in Nat, NEW m \in Nat \ {0}
    PROVE  PhaseIntensity(over, tgt, runs, wkts, m) \in 1 .. 50
<1> DEFINE score ==
        IF tgt > 0
        THEN ChasePressure(over, IF tgt > runs THEN tgt - runs ELSE 0, wkts, m)
        ELSE FirstInningsPressure(over, wkts, m)
<1>1. \A n \in Int : Clamp(n) \in 1 .. 50
    BY DEF Clamp
<1>2. FirstInningsPressure(over, wkts, m) \in Int
    BY DEF FirstInningsPressure
<1>3. \A need \in Nat : ChasePressure(over, need, wkts, m) \in Int
  <2> TAKE need \in Nat
  <2>1. OversToCome(over, m) \in Nat \ {0}
    BY DEF OversToCome
  <2>2. (2 * need) \div OversToCome(over, m) \in Int
    BY <2>1
  <2> QED
    BY <2>2 DEF ChasePressure
<1>4. score \in Int
    BY <1>2, <1>3
<1> QED
    BY <1>1, <1>4 DEF PhaseIntensity

-----------------------------------------------------------------------------
(* Counting the overs.                                                     *)

\* While there is an over to bowl, somebody has one left.
LEMMA SomebodyHasOvers ==
    ASSUME ScheduleInv, stage = "play", OversLeft
    PROVE  \E b \in Bowlers : HasOvers(b)
<1> SUFFICES ASSUME \A b \in Bowlers : ~HasOvers(b) PROVE FALSE
    OBVIOUS
<1> DEFINE Allowed == Bowlers \X (1 .. Quota)
<1>1. NBowlers \in Nat /\ Quota \in Nat /\ MaxOvers \in Nat
        /\ MaxOvers <= NBowlers * Quota
    BY BowlersAssumption, QuotaAssumption
<1>2. IsFiniteSet(Bowlers) /\ Cardinality(Bowlers) = NBowlers
    BY <1>1, FS_Interval DEF Bowlers
<1>3. IsFiniteSet(1 .. Quota) /\ Cardinality(1 .. Quota) = Quota
    BY <1>1, FS_Interval
<1>4. Cardinality(Allowed) = NBowlers * Quota
    BY <1>2, <1>3, FS_Product
<1>5. Allowed \in SUBSET OversDone
  <2> SUFFICES ASSUME NEW b \in Bowlers, NEW i \in 1 .. Quota
               PROVE  <<b, i>> \in OversDone
    OBVIOUS
  <2>1. overs_bowled[b] \in Nat /\ Quota <= overs_bowled[b]
    BY <1>1 DEF HasOvers, ScheduleInv, SchedulerTypeOK
  <2>2. i \in Nat /\ i \in 1 .. overs_bowled[b]
    BY <1>1, <2>1
  <2> QED
    BY <2>2 DEF OversDone
<1>6. IsFiniteSet(OversDone) /\ Cardinality(OversDone) <= current_over
    BY FS_CardinalityType DEF ScheduleInv, CountInv, SchedulerTypeOK
<1>7. Cardinality(Allowed) <= Cardinality(OversDone)
    BY <1>5, <1>6, FS_Subset
<1>8. Cardinality(OversDone) \in Nat /\ current_over \in Nat
    BY <1>1, <1>6, FS_CardinalityType DEF ScheduleInv, SchedulerTypeOK
<1> HIDE DEF Allowed
<1> QED
    BY <1>1, <1>4, <1>6, <1>7, <1>8 DEF OversLeft

\* Whoever is chosen is a bowler with an over left, by whatever policy, and is
\* not the bowler of the latest over unless nobody else has overs left.
LEMMA ChosenHasOvers ==
    ASSUME ScheduleInv, StartOver
    PROVE  /\ current_bowler_idx' \in Bowlers /\ HasOvers(current_bowler_idx')
           /\ rr_head' \in Bowlers
           /\ \/ current_bowler_idx' # current_bowler_idx
              \/ \A c \in Bowlers : ~Candidate(c)
<1>1. PICK b \in Bowlers :
        /\ IF type_ = "RR" THEN rr_next(b) ELSE priority_next(b)
        /\ current_bowler_idx' = b
    BY DEF StartOver, ScheduleNextBowler
<1>2. PICK c \in Bowlers : HasOvers(c)
    BY SomebodyHasOvers DEF StartOver
<1>3. Quota \in Nat /\ NBowlers \in Nat /\ NBowlers >= 2
    BY BowlersAssumption, QuotaAssumption
<1>4. rr_head \in Bowlers /\ overs_bowled \in [Bowlers -> Nat]
    BY DEF ScheduleInv, SchedulerTypeOK
<1>5. ASSUME rr_next(b)
      PROVE  /\ HasOvers(b) /\ rr_head' \in Bowlers
             /\ b # current_bowler_idx \/ \A x \in Bowlers : ~Candidate(x)
  <2>1. CASE \E k \in 1 .. NBowlers : IsNext(k) /\ b = Turn(k) /\ rr_head' = b
    BY <2>1 DEF IsNext, Candidate
  <2>2. CASE IsFallback(b) /\ UNCHANGED rr_head
    BY <1>2, <1>4, <2>2 DEF IsFallback
  <2> QED
    BY <1>5, <2>1, <2>2 DEF rr_next
<1>6. ASSUME type_ # "RR"
      PROVE  /\ HasOvers(b) /\ rr_head' \in Bowlers
             /\ b # current_bowler_idx \/ \A x \in Bowlers : ~Candidate(x)
  <2>1. CASE IsOpener(b) /\ UNCHANGED rr_head
    <3>1. overs_bowled[b] = 0 /\ b # current_bowler_idx
      BY <2>1 DEF IsOpener, MayOpen
    <3>2. 0 < Quota
      BY <1>2, <1>3, <1>4 DEF HasOvers
    <3> QED
      BY <1>4, <2>1, <3>1, <3>2 DEF HasOvers
  <2>2. CASE IsBest(b) /\ UNCHANGED rr_head
    BY <1>4, <2>2 DEF IsBest, Candidate
  <2>3. CASE rr_next(b)
    BY <1>5, <2>3
  <2> QED
    BY <1>1, <1>6, <2>1, <2>2, <2>3 DEF priority_next
<1> QED
    BY <1>1, <1>5, <1>6

\* The counts are kept by whatever leaves the scheduler and the over alone.
LEMMA ScheduleStutter ==
    ASSUME ScheduleInv,
           UNCHANGED <<type_, current_over, current_phase, schedulerVars>>,
           stage' = stage \/ (stage \notin {"over"} /\ stage' # "over")
    PROVE  ScheduleInv'
<1>1. OversDone' = OversDone
    BY DEF OversDone, schedulerVars, figures
<1> QED
    BY <1>1 DEF ScheduleInv, SchedulerTypeOK, CountInv, QuotaInv, HasOvers,
                schedulerVars, figures

\* Every step keeps the counts.
LEMMA ScheduleStep ==
    ASSUME ScheduleInv, [Next]_vars
    PROVE  ScheduleInv'
<1>0. MaxOvers \in Nat /\ Quota \in Nat /\ current_over \in 0 .. MaxOvers
    BY QuotaAssumption DEF ScheduleInv, SchedulerTypeOK
<1>1. CASE StartOver
  <2>1. /\ current_bowler_idx' \in Bowlers /\ HasOvers(current_bowler_idx')
        /\ rr_head' \in Bowlers
    BY <1>1, ChosenHasOvers
  <2>2. /\ UNCHANGED <<overs_bowled, runs_conceded, wickets_taken, pcb, type_>>
        /\ current_over' = current_over + 1 /\ current_over < MaxOvers
        /\ stage = "play" /\ stage' = "over"
    BY <1>1 DEF StartOver, ScheduleNextBowler, OversLeft, figures
  <2>3. SchedulerTypeOK'
    <3>1. current_phase' \in {"POWERPLAY", "MIDDLE", "DEATH"}
      BY <1>1 DEF StartOver, PhaseOf
    <3> QED
      BY <1>0, <2>1, <2>2, <3>1 DEF ScheduleInv, SchedulerTypeOK
  <2>4. CountInv'
    <3>1. OversDone' = OversDone
      BY <2>2 DEF OversDone
    <3>2. Cardinality(OversDone) \in Nat
      BY FS_CardinalityType DEF ScheduleInv, CountInv
    <3> QED
      BY <1>0, <2>2, <3>1, <3>2 DEF ScheduleInv, CountInv
  <2>5. QuotaInv'
    BY <1>0, <2>1, <2>2 DEF ScheduleInv, QuotaInv, HasOvers
  <2> QED
    BY <2>3, <2>4, <2>5 DEF ScheduleInv
<1>2. CASE EndOver
  <2> DEFINE b == current_bowler_idx
  <2>1. PICK full \in BOOLEAN : (full \/ match_over) /\ OverComplete(full)
    BY <1>2 DEF EndOver
  <2>2. /\ stage = "over" /\ stage' = "play" /\ type_' = type_
        /\ current_over' = current_over /\ current_phase' = current_phase
        /\ current_bowler_idx' = b /\ rr_head' = rr_head
    BY <1>2, <2>1 DEF EndOver, OverComplete, phaseVars
  <2>3. b \in Bowlers /\ HasOvers(b) /\ current_over # 0
    BY <2>2 DEF ScheduleInv, QuotaInv
  <2>4. overs_bowled \in [Bowlers -> Nat] /\ pcb \in [Bowlers -> Nat]
    BY DEF ScheduleInv, SchedulerTypeOK
  <2>5. \/ overs_bowled' = overs_bowled
        \/ overs_bowled' = [overs_bowled EXCEPT ![b] = overs_bowled[b] + 1]
    BY <2>1, <2>3, <2>4 DEF OverComplete
  <2>6. overs_bowled' \in [Bowlers -> Nat]
    BY <2>3, <2>4, <2>5
  <2>7. SchedulerTypeOK'
    <3>1. pcb' = [pcb EXCEPT ![b] = overs_bowled'[b]]
      BY <2>1 DEF OverComplete
    <3>2. pcb' \in [Bowlers -> Nat]
      BY <2>3, <2>4, <2>6, <3>1
    <3>3. runs_conceded' \in [Bowlers -> Nat] /\ wickets_taken' \in [Bowlers -> Nat]
      <4>1. PICK f \in OverFigures :
              /\ runs_conceded' = [runs_conceded EXCEPT ![b] = @ + f.runs]
              /\ wickets_taken' = [wickets_taken EXCEPT ![b] = @ + f.wickets]
        BY <2>1 DEF OverComplete
      <4>2. f.runs \in Nat /\ f.wickets \in Nat
        BY FiguresAssumption
      <4>3. runs_conceded \in [Bowlers -> Nat] /\ wickets_taken \in [Bowlers -> Nat]
        BY DEF ScheduleInv, SchedulerTypeOK
      <4>4. \A x \in Bowlers : /\ runs_conceded[x] + f.runs \in Nat
                               /\ wickets_taken[x] + f.wickets \in Nat
        BY <4>2, <4>3
      <4> QED
        BY <4>1, <4>3, <4>4
    <3> QED
      BY <2>2, <2>6, <3>2, <3>3 DEF ScheduleInv, SchedulerTypeOK
  <2>8. CountInv'
    <3>1. IsFiniteSet(OversDone) /\ Cardinality(OversDone) \in Nat
            /\ Cardinality(OversDone) + 1 <= current_over
      BY <2>2, FS_CardinalityType DEF ScheduleInv, CountInv
    <3>2. CASE overs_bowled' = overs_bowled
      <4>1. OversDone' = OversDone
        BY <3>2 DEF OversDone
      <4> QED
        BY <1>0, <2>2, <3>1, <4>1 DEF CountInv
    <3>3. CASE overs_bowled' = [overs_bowled EXCEPT ![b] = overs_bowled[b] + 1]
      <4> DEFINE new == <<b, overs_bowled[b] + 1>>
      <4>1. OversDone' = OversDone \cup {new}
        <5>1. \A x \in Bowlers, i \in Nat :
                 i \in 1 .. overs_bowled'[x]
                     <=> i \in 1 .. overs_bowled[x] \/ <<x, i>> = new
          BY <2>3, <2>4, <3>3
        <5>2. new \in Bowlers \X Nat
          BY <2>3, <2>4
        <5> HIDE DEF new
        <5> QED
          BY <5>1, <5>2 DEF OversDone
      <4>2. /\ IsFiniteSet(OversDone')
            /\ Cardinality(OversDone') <= Cardinality(OversDone) + 1
        BY <3>1, <4>1, FS_AddElement
      <4>3. Cardinality(OversDone') \in Nat
        BY <4>2, FS_CardinalityType
      <4> QED
        BY <1>0, <2>2, <3>1, <4>2, <4>3 DEF CountInv
    <3> QED
      BY <2>5, <3>2, <3>3
  <2>9. QuotaInv'
    BY <1>0, <2>2, <2>3, <2>4, <2>5 DEF ScheduleInv, QuotaInv, HasOvers
  <2> QED
    BY <2>7, <2>8, <2>9 DEF ScheduleInv
<1>3. CASE StartSecondInnings
  <2>1. /\ overs_bowled' = NoOvers /\ runs_conceded' = NoOvers
        /\ wickets_taken' = NoOvers /\ current_phase' = "POWERPLAY"
        /\ rr_head' = 0 /\ pcb' = NoOvers
        /\ current_bowler_idx' = Nobody /\ current_over' = 0
        /\ type_' = type_ /\ stage' = "play"
    BY <1>3 DEF StartSecondInnings
  <2>2. NoOvers \in [Bowlers -> Nat] /\ \A b \in Bowlers : NoOvers[b] = 0
    BY DEF NoOvers
  <2>3. 0 \in Bowlers
    BY BowlersAssumption DEF Bowlers
  <2>4. OversDone' = {}
    BY <2>1, <2>2 DEF OversDone
  <2>5. CountInv'
    BY <2>1, <2>4, FS_EmptySet DEF CountInv
  <2> QED
    BY <1>0, <2>1, <2>2, <2>3, <2>5 DEF ScheduleInv, SchedulerTypeOK, QuotaInv
<1>4. CASE ScoreRuns \/ WicketFalls \/ UmpireEndsMatch \/ FinishInnings
             \/ JoinThreads \/ PrintResult \/ UNCHANGED vars
  <2>1. UNCHANGED <<type_, current_over, current_phase, schedulerVars>>
    BY <1>4 DEF ScoreRuns, WicketFalls, UmpireEndsMatch, FinishInnings,
                JoinThreads, PrintResult, vars, phaseVars
  <2>2. stage' = stage \/ (stage \notin {"over"} /\ stage' # "over")
    BY <1>4 DEF ScoreRuns, WicketFalls, UmpireEndsMatch, FinishInnings,
                JoinThreads, PrintResult, vars
  <2> QED
    BY <2>1, <2>2, ScheduleStutter
<1> QED
    BY <1>1, <1>2, <1>3, <1>4 DEF Next

\* The counts hold before the first over.
LEMMA ScheduleInit == Init => ScheduleInv
<1> SUFFICES ASSUME Init PROVE ScheduleInv
    OBVIOUS
<1>1. NoOvers \in [Bowlers -> Nat] /\ \A b \in Bowlers : NoOvers[b] = 0
    BY DEF NoOvers
<1>2. OversDone = {}
    BY <1>1 DEF Init, InitScheduler, OversDone
<1>3. CountInv
    BY <1>2, FS_EmptySet DEF Init, CountInv
<1>4. 0 \in Bowlers /\ MaxOvers \in Nat /\ Quota \in Nat
    BY BowlersAssumption, QuotaAssumption DEF Bowlers
<1> QED
    BY <1>1, <1>3, <1>4
       DEF Init, InitScheduler, ScheduleInv, SchedulerTypeOK, QuotaInv

\* No bowler bowls more than his quota, under any policy, for any number of
\* bowlers, quota and length of the match that the quotas allow.
THEOREM QuotaKeptHolds == Spec => []QuotaKept
<1>1. ScheduleInv => QuotaKept
    BY DEF ScheduleInv, QuotaInv, QuotaKept
<1> QED
  BY <1>1, ScheduleInit, ScheduleStep, PTL DEF Spec

\* The same bowler comes again only when nobody else has overs left.
THEOREM ForcedToRepeatHolds == Spec => ForcedToRepeat
<1>1. ScheduleInv /\ [Next]_vars =>
        [StartOver /\ current_bowler_idx' = current_bowler_idx
            => \A b \in Bowlers \ {current_bowler_idx} : ~HasOvers(b)]_vars
  <2> SUFFICES ASSUME ScheduleInv, StartOver,
                      current_bowler_idx' = current_bowler_idx
               PROVE  \A b \in Bowlers \ {current_bowler_idx} : ~HasOvers(b)
    OBVIOUS
  <2> QED
    BY ChosenHasOvers DEF Candidate
<1> QED
  BY <1>1, ScheduleInit, ScheduleStep, PTL DEF Spec, ForcedToRepeat

-----------------------------------------------------------------------------
(* Priorities.                                                             *)

\* The points for the speed of a bowler, within the ranges that are drawn.
LEMMA WholeTenths ==
    /\ \A n \in 21 .. 1000 : Whole(n) \in Int /\ Whole(n) >= 2
    /\ \A n \in Int : n <= 69 => Whole(n) \in Int /\ Whole(n) <= 6
BY DEF Whole

\* In the death overs a specialist has more points than anybody else whose
\* figures are no better, by more than their skills can differ.
LEMMA DeathIsForSpecialists ==
    ASSUME NEW d \in Bowlers, NEW c \in Bowlers,
           NEW od \in Nat, NEW oc \in Nat, od <= oc,
           NEW rd \in Nat, NEW rc \in Nat, Economy(od, rd) >= Economy(oc, rc),
           NEW wd \in Nat, NEW wc \in Nat, wd >= wc, NEW left \in Int,
           Speciality[d] = "DEATH", Speciality[c] # "DEATH"
    PROVE  Priority(d, od, rd, wd, "DEATH", left)
               > Priority(c, oc, rc, wc, "DEATH", left)
<1>1. Quota \in Nat
    BY QuotaAssumption
<1>2. Economy(od, rd) \in Int /\ Economy(oc, rc) \in Int
    BY DEF Economy
<1>3. Skill[d] \in 72 .. 92
    BY FormAssumption
<1>4. PhasePoints(d, "DEATH", left) \in Int /\ PhasePoints(d, "DEATH", left) >= 28
    BY DEF PhasePoints, DeathPoints
<1>5. Speciality[c] \in {"SWING", "SPIN", "MEDIUM"}
    BY FormAssumption
<1>6. /\ Skill[c] \in Nat /\ PhasePoints(c, "DEATH", left) \in Int
      /\ Skill[c] + PhasePoints(c, "DEATH", left) <= 90
  <2>1. CASE Speciality[c] = "SWING"
    <3>1. Skill[c] \in 75 .. 95
      BY <2>1, FormAssumption
    <3>2. PhasePoints(c, "DEATH", left) = -8
      BY <2>1 DEF PhasePoints, DeathPoints
    <3> QED
      BY <3>1, <3>2
  <2>2. CASE Speciality[c] = "SPIN"
    <3>1. Skill[c] \in 65 .. 93
      BY <2>2, FormAssumption
    <3>2. PhasePoints(c, "DEATH", left) = -10
      BY <2>2 DEF PhasePoints, DeathPoints
    <3> QED
      BY <3>1, <3>2
  <2>3. CASE Speciality[c] = "MEDIUM"
    <3>1. Skill[c] \in 68 .. 85
      BY <2>3, FormAssumption
    <3>2. PhasePoints(c, "DEATH", left) = 5
      BY <2>3 DEF PhasePoints, DeathPoints
    <3> QED
      BY <3>1, <3>2
  <2> QED
    BY <1>5, <2>1, <2>2, <2>3
<1> QED
    BY <1>1, <1>2, <1>3, <1>4, <1>6 DEF Priority

\* The same for bowlers of swing in the powerplay, last overs apart.
LEMMA PowerplayIsForSwing ==
    ASSUME NEW d \in Bowlers, NEW c \in Bowlers,
           NEW od \in Nat, NEW oc \in Nat, od <= oc, Quota - od # 1,
           NEW rd \in Nat, NEW rc \in Nat, Economy(od, rd) >= Economy(oc, rc),
           NEW wd \in Nat, NEW wc \in Nat, wd >= wc, NEW left \in Int,
           Speciality[d] = "SWING", Speciality[c] # "SWING"
    PROVE  Priority(d, od, rd, wd, "POWERPLAY", left)
               > Priority(c, oc, rc, wc, "POWERPLAY", left)
<1>1. Quota \in Nat
    BY QuotaAssumption
<1>2. Economy(od, rd) \in Int /\ Economy(oc, rc) \in Int
    BY DEF Economy
<1>3. Skill[d] \in 75 .. 95 /\ Speed[d] \in 132 .. 152
    BY FormAssumption
<1>4. /\ PhasePoints(d, "POWERPLAY", left) \in Int
      /\ PhasePoints(d, "POWERPLAY", left) >= 27
  <2> DEFINE pace == Whole((Speed[d] - 125) * 3)
  <2>1. (Speed[d] - 125) * 3 \in 21 .. 1000
    BY <1>3
  <2>2. pace \in Int /\ pace >= 2
    BY <2>1, WholeTenths
  <2>3. PhasePoints(d, "POWERPLAY", left) = pace + 25
    BY DEF PhasePoints, PowerplayPoints
  <2> HIDE DEF pace
  <2> QED
    BY <2>2, <2>3
<1>5. Speciality[c] \in {"DEATH", "SPIN", "MEDIUM"}
    BY FormAssumption
<1>6. /\ Skill[c] \in Nat /\ PhasePoints(c, "POWERPLAY", left) \in Int
      /\ Skill[c] + PhasePoints(c, "POWERPLAY", left) <= 99
  <2> DEFINE pace == Whole((Speed[c] - 125) * 3)
  <2>1. Speed[c] \in Nat /\ Speed[c] <= 148
    <3>1. CASE Speciality[c] = "DEATH"
      <4>1. Speed[c] \in 128 .. 148
        BY <3>1, FormAssumption
      <4> QED
        BY <4>1
    <3>2. CASE Speciality[c] = "SPIN"
      <4>1. Speed[c] \in 90 .. 125
        BY <3>2, FormAssumption
      <4> QED
        BY <4>1
    <3>3. CASE Speciality[c] = "MEDIUM"
      <4>1. Speed[c] \in 120 .. 140
        BY <3>3, FormAssumption
      <4> QED
        BY <4>1
    <3> QED
      BY <1>5, <3>1, <3>2, <3>3
  <2>2. (Speed[c] - 125) * 3 \in Int /\ (Speed[c] - 125) * 3 <= 69
    BY <2>1
  <2>3. pace \in Int /\ pace <= 6
    BY <2>2, WholeTenths
  <2>4. CASE Speciality[c] = "DEATH"
    <3>1. Skill[c] \in 72 .. 92
      BY <2>4, FormAssumption
    <3>2. PhasePoints(c, "POWERPLAY", left) = pace + -8
      BY <2>4 DEF PhasePoints, PowerplayPoints
    <3> HIDE DEF pace
    <3> QED
      BY <2>3, <3>1, <3>2
  <2>5. CASE Speciality[c] = "SPIN"
    <3>1. Skill[c] \in 65 .. 93
      BY <2>5, FormAssumption
    <3>2. PhasePoints(c, "POWERPLAY", left) = pace + -18
      BY <2>5 DEF PhasePoints, PowerplayPoints
    <3> HIDE DEF pace
    <3> QED
      BY <2>3, <3>1, <3>2
  <2>6. CASE Speciality[c] = "MEDIUM"
    <3>1. Skill[c] \in 68 .. 85
      BY <2>6, FormAssumption
    <3>2. PhasePoints(c, "POWERPLAY", left) = pace + 8
      BY <2>6 DEF PhasePoints, PowerplayPoints
    <3> HIDE DEF pace
    <3> QED
      BY <2>3, <3>1, <3>2
  <2> QED
    BY <1>5, <2>4, <2>5, <2>6
<1> QED
    BY <1>1, <1>2, <1>3, <1>4, <1>6 DEF Priority

\* Specialists first, for any number of bowlers of any form that the program
\* draws, any quota and any length of the match.
THEOREM SpecialistsFirstHolds == Spec => SpecialistsFirst
<1>1. ScheduleInv /\ [Next]_vars =>
        [StartOver /\ type_ # "RR" /\ current_over' > 1 /\ current_phase' # "MIDDLE"
         => \A d \in Bowlers :
              /\ Candidate(d) /\ Speciality[d] = SpecialistOf(current_phase')
              /\ AsGood(d, current_bowler_idx')
              /\ current_phase' = "DEATH" \/ Quota - overs_bowled[d] # 1
              => Speciality[current_bowler_idx'] = SpecialistOf(current_phase')]_vars
  <2> SUFFICES ASSUME ScheduleInv, StartOver, type_ # "RR", current_over' > 1,
                      current_phase' # "MIDDLE",
                      NEW d \in Bowlers, Candidate(d),
                      Speciality[d] = SpecialistOf(current_phase'),
                      AsGood(d, current_bowler_idx'),
                      current_phase' = "DEATH" \/ Quota - overs_bowled[d] # 1,
                      Speciality[current_bowler_idx'] # SpecialistOf(current_phase')
               PROVE  FALSE
    OBVIOUS
  <2> DEFINE c == current_bowler_idx'
             left == MaxOvers - current_over' + 1
  <2>1. c \in Bowlers /\ IsBest(c)
    <3>1. PICK b \in Bowlers : priority_next(b) /\ current_bowler_idx' = b
      BY DEF StartOver, ScheduleNextBowler
    <3>2. \A x \in Bowlers : ~MayOpen(x)
      BY DEF MayOpen
    <3> QED
      BY <3>1, <3>2 DEF priority_next
  <2>2. /\ overs_bowled \in [Bowlers -> Nat] /\ runs_conceded \in [Bowlers -> Nat]
        /\ wickets_taken \in [Bowlers -> Nat]
    BY DEF ScheduleInv, SchedulerTypeOK
  <2>3. left \in Int
    BY QuotaAssumption DEF StartOver, ScheduleInv, SchedulerTypeOK
  <2>4. current_phase' \in {"POWERPLAY", "DEATH"}
    BY DEF StartOver, PhaseOf
  <2>5. /\ overs_bowled[d] \in Nat /\ overs_bowled[c] \in Nat
        /\ runs_conceded[d] \in Nat /\ runs_conceded[c] \in Nat
        /\ wickets_taken[d] \in Nat /\ wickets_taken[c] \in Nat
    BY <2>1, <2>2
  <2>6. PriorityOf(d) > PriorityOf(c)
    <3>1. CASE current_phase' = "DEATH"
      BY <2>1, <2>3, <2>5, <3>1, DeathIsForSpecialists
         DEF PriorityOf, AsGood, SpecialistOf
    <3>2. CASE current_phase' = "POWERPLAY"
      BY <2>1, <2>3, <2>5, <3>2, PowerplayIsForSwing
         DEF PriorityOf, AsGood, SpecialistOf
    <3> QED
      BY <2>4, <3>1, <3>2
  <2>7. PriorityOf(d) < PriorityOf(c) \/ PriorityOf(d) = PriorityOf(c)
    BY <2>1 DEF IsBest
  <2>8. PriorityOf(d) \in Int /\ PriorityOf(c) \in Int
    <3>1. Skill \in [Bowlers -> Nat] /\ Quota \in Nat
      BY FormAssumption, QuotaAssumption
    <3>2. \A n \in Int : Whole(n) \in Int
      BY DEF Whole
    <3>3. \A x \in Bowlers, p \in {"POWERPLAY", "DEATH"} : PhasePoints(x, p, left) \in Int
      <4> SUFFICES ASSUME NEW x \in Bowlers
                   PROVE  PowerplayPoints(x) \in Int /\ DeathPoints(x, left) \in Int
        BY DEF PhasePoints
      <4>1. Speciality[x] \in {"SWING", "SPIN", "DEATH", "MEDIUM"}
              /\ (Speed[x] - 125) * 3 \in Int
        BY FormAssumption
      <4>2. Whole((Speed[x] - 125) * 3) \in Int
        BY <3>2, <4>1
      <4> QED
        BY <4>1, <4>2 DEF PowerplayPoints, DeathPoints
    <3>4. \A o \in Nat, r \in Nat : Economy(o, r) \in Int
      BY DEF Economy
    <3> QED
      BY <2>1, <2>4, <2>5, <3>1, <3>3, <3>4 DEF PriorityOf, Priority
  <2> QED
    BY <2>6, <2>7, <2>8
<1> QED
  BY <1>1, ScheduleInit, ScheduleStep, PTL DEF Spec, SpecialistsFirst

-----------------------------------------------------------------------------
(* Round robin.                                                            *)

\* In his turn the next in the queue always has an over left, so he bowls; the
\* first over goes to somebody who is not the uninitialised bowler.
LEMMA NextInTurn ==
    ASSUME ScheduleInv, TurnInv, type_ = "RR", StartOver
    PROVE  TurnInv' /\ current_bowler_idx' # current_bowler_idx
<1>0. NBowlers \in Nat /\ NBowlers >= 2 /\ Quota \in Nat
    BY BowlersAssumption, QuotaAssumption
<1>1. PICK b \in Bowlers : rr_next(b) /\ current_bowler_idx' = b
    BY DEF StartOver, ScheduleNextBowler
<1>2. PICK c \in Bowlers : HasOvers(c)
    BY SomebodyHasOvers DEF StartOver
<1>3. /\ rr_head \in Bowlers /\ overs_bowled \in [Bowlers -> Nat]
      /\ current_over \in Nat
    BY QuotaAssumption DEF ScheduleInv, SchedulerTypeOK
<1>4. /\ overs_bowled' = overs_bowled /\ type_' = type_
      /\ current_over' = current_over + 1
      /\ stage = "play" /\ stage' = "over" /\ ~match_over
    BY DEF StartOver, ScheduleNextBowler, figures, InningsOver
<1>5. \A x \in Bowlers : x \in Nat /\ x < NBowlers
    BY <1>0 DEF Bowlers
<1>6. \A x \in Bowlers :
        Given(x)' = overs_bowled[x] + (IF x = b THEN 1 ELSE 0)
    BY <1>1, <1>4 DEF Given
<1>7. CASE current_over = 0
  <2>1. \A x \in Bowlers : overs_bowled[x] = 0
    BY <1>7 DEF ScheduleInv, QuotaInv, NoOvers
  <2>2. \A x \in Bowlers : HasOvers(x)
    BY <1>0, <1>2, <2>1 DEF HasOvers
  <2>3. \E x \in Bowlers : Candidate(x)
    <3>1. 0 \in Bowlers /\ 1 \in Bowlers
      BY <1>0 DEF Bowlers
    <3> QED
      BY <2>2, <3>1 DEF Candidate
  <2>4. rr_head' = b /\ Candidate(b)
    BY <1>1, <2>3 DEF rr_next, IsNext, IsFallback
  <2>5. \A x \in Bowlers :
          Given(x)' = IF Gap(b, x) <= Gap(b, b) THEN 0 + 1 ELSE 0
    BY <1>0, <1>5, <1>6, <2>1 DEF Gap
  <2> QED
    BY <1>1, <2>4, <2>5 DEF TurnInv, Candidate
<1>8. CASE current_over > 0
  <2> DEFINE h == rr_head
             n == Turn(1)
  <2>1. h = current_bowler_idx
    BY <1>4, <1>8 DEF TurnInv
  <2>2. PICK s \in Bowlers, q \in Nat : \A x \in Bowlers :
            overs_bowled[x] = IF Gap(s, x) <= Gap(s, h) THEN q + 1 ELSE q
    <3>1. \A x \in Bowlers : Given(x) = overs_bowled[x]
      BY <1>3, <1>4 DEF Given
    <3> QED
      BY <1>4, <1>8, <3>1 DEF TurnInv
  <2>3. n \in Bowlers /\ n = IF h + 1 < NBowlers THEN h + 1 ELSE 0
    BY <1>0, <1>3 DEF Turn, Bowlers
  <2>4. h \in Bowlers
    BY <1>3
  <2> HIDE DEF h, n
  <2>5. n # h
    BY <1>0, <1>5, <2>3, <2>4
  <2>6. \A x \in Bowlers : overs_bowled[n] <= overs_bowled[x]
    BY <1>0, <1>5, <2>2, <2>3, <2>4 DEF Gap
  <2>7. Candidate(n)
    BY <1>0, <1>2, <1>3, <2>1, <2>3, <2>5, <2>6 DEF Candidate, HasOvers
  <2>8. b = n /\ rr_head' = n
    <3>1. ~IsFallback(b)
      BY <2>3, <2>7 DEF IsFallback
    <3>2. PICK k \in 1 .. NBowlers : IsNext(k) /\ b = Turn(k) /\ rr_head' = b
      BY <1>1, <3>1 DEF rr_next
    <3>3. k = 1
      <4>1. k > 1 => 1 \in 1 .. k - 1
        BY <3>2
      <4> QED
        BY <2>7, <3>2, <4>1 DEF IsNext, n
    <3> QED
      BY <3>2, <3>3 DEF n
  <2>9. \E r \in Bowlers, p \in Nat : \A x \in Bowlers :
            Given(x)' = IF Gap(r, x) <= Gap(r, n) THEN p + 1 ELSE p
    <3>1. CASE n = s
      <4>1. \A x \in Bowlers :
              Given(x)' = IF Gap(s, x) <= Gap(s, n) THEN (q + 1) + 1 ELSE q + 1
        BY <1>0, <1>5, <1>6, <2>2, <2>3, <2>4, <2>8, <3>1 DEF Gap
      <4> QED
        BY <4>1
    <3>2. CASE n # s
      <4>1. \A x \in Bowlers :
              Given(x)' = IF Gap(s, x) <= Gap(s, n) THEN q + 1 ELSE q
        BY <1>0, <1>5, <1>6, <2>2, <2>3, <2>4, <2>8, <3>2 DEF Gap
      <4> QED
        BY <4>1
    <3> QED
      BY <3>1, <3>2
  <2> QED
    BY <1>1, <2>1, <2>5, <2>8, <2>9 DEF TurnInv, Gap
<1> QED
  BY <1>3, <1>7, <1>8

RoundRobinInv == ScheduleInv /\ TurnInv /\ Balanced

\* Bowlers that are ahead by one arc of the queue are balanced.
LEMMA TurnsAreBalanced ==
    ASSUME ScheduleInv, TurnInv, type_ = "RR", stage = "over"
    PROVE  /\ \A b, c \in Bowlers : Given(b) <= Given(c) + 1
           /\ Balanced
<1>1. current_over > 0 /\ current_over \in Nat
        /\ overs_bowled \in [Bowlers -> Nat]
    BY QuotaAssumption DEF ScheduleInv, SchedulerTypeOK, QuotaInv
<1>2. PICK s \in Bowlers, q \in Nat : \A b \in Bowlers :
          Given(b) = IF Gap(s, b) <= Gap(s, rr_head) THEN q + 1 ELSE q
    BY <1>1 DEF TurnInv
<1>3. rr_head = current_bowler_idx /\ rr_head \in Bowlers
    BY <1>1 DEF TurnInv, ScheduleInv, SchedulerTypeOK
<1>4. Given(rr_head) = q + 1
  <2>1. Gap(s, rr_head) <= Gap(s, rr_head)
    BY <1>3, BowlersAssumption DEF Gap, Bowlers
  <2> QED
    BY <1>2, <1>3, <2>1
<1>5. \A b \in Bowlers : Given(b) \in {q, q + 1}
    BY <1>2
<1>6. \A b \in Bowlers :
        overs_bowled[b] = IF b = rr_head THEN q ELSE Given(b)
    BY <1>1, <1>3, <1>4 DEF Given
<1> QED
    BY <1>5, <1>6 DEF Balanced

\* Every step keeps the turns.
LEMMA RoundRobinStep ==
    ASSUME RoundRobinInv, [Next]_vars
    PROVE  RoundRobinInv'
<1>1. ScheduleInv'
    BY ScheduleStep DEF RoundRobinInv
<1>2. type_' = type_
    BY DEF Next, StartOver, ScoreRuns, WicketFalls, UmpireEndsMatch, EndOver,
           FinishInnings, JoinThreads, StartSecondInnings, PrintResult, vars
<1>3. CASE type_ # "RR"
    BY <1>1, <1>2, <1>3 DEF RoundRobinInv, TurnInv, Balanced
<1>4. CASE type_ = "RR" /\ StartOver
  <2>1. overs_bowled' = overs_bowled
    BY <1>4 DEF StartOver, ScheduleNextBowler, figures
  <2> QED
    BY <1>1, <1>2, <1>4, <2>1, NextInTurn DEF RoundRobinInv, Balanced
<1>5. CASE type_ = "RR" /\ EndOver
  <2> DEFINE b == current_bowler_idx
  <2>1. PICK full \in BOOLEAN : (full \/ match_over) /\ OverComplete(full)
    BY <1>5 DEF EndOver
  <2>2. /\ stage = "over" /\ stage' = "play" /\ match_over' = match_over
        /\ current_over' = current_over /\ rr_head' = rr_head
        /\ current_bowler_idx' = b
    BY <1>5, <2>1 DEF EndOver, OverComplete
  <2>3. overs_bowled \in [Bowlers -> Nat] /\ b \in Bowlers
    BY <2>2 DEF RoundRobinInv, ScheduleInv, SchedulerTypeOK, QuotaInv
  <2>4. CASE overs_bowled' = [overs_bowled EXCEPT ![b] = overs_bowled[b] + 1]
    <3>1. \A x \in Bowlers : overs_bowled'[x] = Given(x) /\ Given(x)' = Given(x)
      BY <2>2, <2>3, <2>4 DEF Given
    <3>2. Balanced'
      BY <1>2, <1>5, <2>2, <3>1, TurnsAreBalanced DEF RoundRobinInv, Balanced
    <3>3. TurnInv'
      BY <1>2, <1>5, <2>2, <3>1 DEF RoundRobinInv, TurnInv
    <3> QED
      BY <1>1, <3>2, <3>3 DEF RoundRobinInv
  <2>5. CASE match_over /\ overs_bowled' = overs_bowled
    BY <1>1, <1>2, <2>2, <2>5 DEF RoundRobinInv, TurnInv, Balanced
  <2>6. \/ match_over /\ overs_bowled' = overs_bowled
        \/ overs_bowled' = [overs_bowled EXCEPT ![b] = overs_bowled[b] + 1]
    BY <2>1, <2>3 DEF OverComplete
  <2> QED
    BY <2>4, <2>5, <2>6
<1>6. CASE StartSecondInnings
  <2>1. \A b \in Bowlers : overs_bowled'[b] = 0
    BY <1>6 DEF StartSecondInnings, NoOvers
  <2>2. current_over' = 0
    BY <1>6 DEF StartSecondInnings
  <2> QED
    BY <1>1, <2>1, <2>2 DEF RoundRobinInv, TurnInv, Balanced
<1>7. CASE ScoreRuns \/ WicketFalls \/ UmpireEndsMatch \/ FinishInnings
             \/ JoinThreads \/ PrintResult \/ UNCHANGED vars
  <2>1. UNCHANGED <<type_, current_over, schedulerVars>>
    BY <1>7 DEF ScoreRuns, WicketFalls, UmpireEndsMatch, FinishInnings,
                JoinThreads, PrintResult, vars
  <2>2. \/ stage' \notin {"over", "play"}
        \/ stage' = stage /\ (match_over' = match_over \/ match_over')
    BY <1>7 DEF ScoreRuns, WicketFalls, UmpireEndsMatch, FinishInnings,
                JoinThreads, PrintResult, vars
  <2>3. Balanced'
    BY <2>1 DEF RoundRobinInv, Balanced, schedulerVars, figures
  <2>4. TurnInv'
    <3>1. CASE stage' = stage /\ (match_over' = match_over \/ match_over')
      <4>1. \A b \in Bowlers : Given(b)' = Given(b)
        BY <2>1, <3>1 DEF Given, schedulerVars, figures
      <4> QED
        BY <2>1, <3>1, <4>1 DEF RoundRobinInv, TurnInv, schedulerVars, figures
    <3>2. CASE stage' \notin {"over", "play"}
      BY <3>2 DEF TurnInv
    <3> QED
      BY <2>2, <3>1, <3>2
  <2> QED
    BY <1>1, <2>3, <2>4 DEF RoundRobinInv
<1> QED
  BY <1>3, <1>4, <1>5, <1>6, <1>7 DEF Next

\* Nobody has a turn before the first over.
LEMMA RoundRobinInit == Init => RoundRobinInv
<1> SUFFICES ASSUME Init PROVE RoundRobinInv
    OBVIOUS
<1>1. \A b \in Bowlers : overs_bowled[b] = 0
    BY DEF Init, InitScheduler, NoOvers
<1> QED
    BY <1>1, ScheduleInit DEF Init, RoundRobinInv, TurnInv, Balanced

\* Under round robin no bowler is ever more than one over ahead of another.
THEOREM BalancedHolds == Spec => []Balanced
BY RoundRobinInit, RoundRobinStep, PTL DEF Spec, RoundRobinInv

\* Under round robin nobody bowls two overs in a row.
THEOREM NoConsecutiveOversHolds == Spec => NoConsecutiveOvers
<1>1. RoundRobinInv /\ [Next]_vars =>
        [type_ = "RR" /\ StartOver
            => current_bowler_idx' # current_bowler_idx]_vars
    BY NextInTurn DEF RoundRobinInv
<1> QED
  BY <1>1, RoundRobinInit, RoundRobinStep, PTL DEF Spec, NoConsecutiveOvers

-----------------------------------------------------------------------------
(* Score, phases and result.                                               *)

\* The score and the phase before the first over.
LEMMA PlayInit == Init => PlayInv
<1> SUFFICES ASSUME Init PROVE PlayInv
    OBVIOUS
<1>1. TypeOK
  <2>1. SchedulerTypeOK
    BY ScheduleInit DEF ScheduleInv
  <2>2. match_over \in BOOLEAN
    BY DEF Init
  <2> QED
    BY <2>1, <2>2 DEF Init, TypeOK, NoResult
<1> QED
    BY <1>1 DEF Init, PlayInv, EndInv, ScoreInv, PhasesAgree, InningsAreWhole,
                ResultIsFair

\* A step that leaves the match and the stage alone can only add to the score.
LEMMA ScoreGrows ==
    ASSUME PlayInv, ScheduleInv', ScoreRuns \/ WicketFalls
    PROVE  PlayInv'
<1>1. /\ UNCHANGED <<current_over, innings, target, innings1_runs, phaseVars,
                     match_over, stage, result>>
      /\ total_runs' \in Nat /\ wickets' \in Nat
      /\ total_runs' >= total_runs /\ wickets' >= wickets
    BY ScoresAssumption DEF ScoreRuns, WicketFalls, PlayInv, TypeOK
<1>2. stage \notin {"joined", "result"}
    BY DEF ScoreRuns, WicketFalls, InPlay
<1>3. TypeOK'
    BY <1>1 DEF PlayInv, TypeOK, phaseVars, ScheduleInv
<1>4. (AllOut => AllOut') /\ (Chased => Chased')
    BY <1>1, WicketsAssumption DEF AllOut, Chased, PlayInv, TypeOK
<1> QED
    BY <1>1, <1>2, <1>3, <1>4
       DEF PlayInv, EndInv, ScoreInv, PhasesAgree, InningsAreWhole,
           ResultIsFair, phaseVars

\* Every step keeps score, phases and result.
LEMMA PlayStep ==
    ASSUME PlayInv, ScheduleInv, [Next]_vars
    PROVE  PlayInv'
<1>0. ScheduleInv'
    BY ScheduleStep
<1>1. CASE StartOver
  <2>1. /\ current_over' = current_over + 1 /\ current_over < MaxOvers
        /\ stage = "play" /\ stage' = "over" /\ ~match_over
        /\ UNCHANGED <<innings, target, total_runs, wickets, innings1_runs,
                       match_over, result>>
    BY <1>1 DEF StartOver, OversLeft, scoreVars, InningsOver
  <2>2. MaxOvers \in Nat \ {0} /\ current_over' \in 1 .. MaxOvers
    BY <2>1, QuotaAssumption DEF PlayInv, TypeOK, SchedulerTypeOK
  <2>3. /\ current_phase' = PhaseOf(current_over', MaxOvers)
        /\ intensity' = IntensityOf(current_over', MaxOvers)
        /\ phase_intensity' = PhaseIntensity(current_over', target, total_runs,
                                             wickets, MaxOvers)
    BY <1>1 DEF StartOver
  <2>4. phase_intensity' \in 1 .. 50
    <3>1. /\ current_over' \in Nat /\ MaxOvers \in Nat \ {0}
          /\ target \in Nat /\ total_runs \in Nat /\ wickets \in Nat
      BY <2>2 DEF PlayInv, TypeOK
    <3>2. PhaseIntensity(current_over', target, total_runs, wickets, MaxOvers)
            \in 1 .. 50
      BY <3>1, PressureBounded
    <3> QED
      BY <2>3, <3>2
  <2>5. PhasesAgree'
    BY <2>2, <2>3, TestsAgree DEF PhasesAgree
  <2>6. TypeOK'
    <3>1. /\ current_phase' \in {"POWERPLAY", "MIDDLE", "DEATH"}
          /\ intensity' \in {"LOW", "MEDIUM", "HIGH"}
      BY <2>3 DEF PhaseOf, IntensityOf
    <3> QED
      BY <1>0, <2>1, <2>4, <3>1 DEF PlayInv, TypeOK, ScheduleInv
  <2> QED
    BY <2>1, <2>5, <2>6
       DEF PlayInv, EndInv, ScoreInv, InningsAreWhole, ResultIsFair
<1>2. CASE ScoreRuns \/ WicketFalls
    BY <1>0, <1>2, ScoreGrows
<1>3. CASE UmpireEndsMatch
  <2>1. /\ AllOut \/ Chased
        /\ match_over' \in BOOLEAN
        /\ UNCHANGED <<current_over, innings, target, total_runs, wickets,
                       innings1_runs, phaseVars, stage, result>>
    BY <1>3 DEF UmpireEndsMatch, scoreVars
  <2>2. TypeOK'
    BY <1>0, <2>1 DEF PlayInv, TypeOK, ScheduleInv, phaseVars
  <2> QED
    BY <2>1, <2>2
       DEF PlayInv, EndInv, ScoreInv, PhasesAgree, InningsAreWhole,
           ResultIsFair, phaseVars, AllOut, Chased
<1>4. CASE EndOver
  <2>1. /\ stage = "over" /\ stage' = "play"
        /\ UNCHANGED <<current_over, innings, target, total_runs, wickets,
                       innings1_runs, phaseVars, match_over, result>>
    BY <1>4 DEF EndOver, scoreVars
  <2>2. TypeOK'
    BY <1>0, <2>1 DEF PlayInv, TypeOK, ScheduleInv, phaseVars
  <2> QED
    BY <2>1, <2>2
       DEF PlayInv, EndInv, ScoreInv, PhasesAgree, InningsAreWhole,
           ResultIsFair, phaseVars, AllOut, Chased
<1>5. CASE FinishInnings
  <2>1. /\ stage = "play" /\ stage' = "ending" /\ match_over' \in BOOLEAN
        /\ InningsOver \/ ~OversLeft
        /\ UNCHANGED <<current_over, innings, target, total_runs, wickets,
                       innings1_runs, phaseVars, result>>
    BY <1>5 DEF FinishInnings, scoreVars
  <2>2. TypeOK'
    BY <1>0, <2>1 DEF PlayInv, TypeOK, ScheduleInv, phaseVars
  <2>3. current_over = MaxOvers \/ AllOut \/ Chased
    <3>1. CASE InningsOver
      BY <2>1, <3>1 DEF InningsOver, PlayInv, EndInv
    <3>2. CASE ~OversLeft
      BY <3>2, QuotaAssumption DEF OversLeft, PlayInv, TypeOK, SchedulerTypeOK
    <3> QED
      BY <2>1, <3>1, <3>2
  <2> QED
    BY <2>1, <2>2, <2>3
       DEF PlayInv, EndInv, ScoreInv, PhasesAgree, InningsAreWhole,
           ResultIsFair, phaseVars, AllOut, Chased
<1>6. CASE JoinThreads
  <2>1. /\ stage = "ending" /\ stage' = "joined"
        /\ UNCHANGED <<current_over, innings, target, total_runs, wickets,
                       innings1_runs, phaseVars, match_over, result>>
    BY <1>6 DEF JoinThreads, scoreVars
  <2>2. TypeOK'
    BY <1>0, <2>1 DEF PlayInv, TypeOK, ScheduleInv, phaseVars
  <2> QED
    BY <2>1, <2>2
       DEF PlayInv, EndInv, ScoreInv, PhasesAgree, InningsAreWhole,
           ResultIsFair, phaseVars, AllOut, Chased
<1>7. CASE StartSecondInnings
  <2>1. /\ innings1_runs' = total_runs /\ innings' = 2
        /\ target' = total_runs + 1 /\ total_runs' = 0 /\ wickets' = 0
        /\ current_phase' = "POWERPLAY" /\ phase_intensity' = 10
        /\ intensity' = "LOW" /\ stage' = "play" /\ result' = result
    BY <1>7 DEF StartSecondInnings, NewTarget
  <2>2. ~match_over' /\ match_over' \in BOOLEAN
    BY <1>7 DEF StartSecondInnings, ResetMatchOver
  <2>3. TypeOK'
    BY <1>0, <2>1, <2>2 DEF PlayInv, TypeOK, ScheduleInv
  <2> QED
    BY <2>1, <2>2, <2>3
       DEF PlayInv, EndInv, ScoreInv, PhasesAgree, InningsAreWhole, ResultIsFair
<1>8. CASE PrintResult
  <2>1. /\ stage = "joined" /\ innings = 2 /\ stage' = "result"
        /\ result' = IF total_runs >= target
                     THEN [winner |-> "team2", margin |-> 0]
                     ELSE [winner |-> "team1", margin |-> target - total_runs - 1]
        /\ UNCHANGED <<current_over, innings, target, total_runs, wickets,
                       innings1_runs, phaseVars, match_over>>
    BY <1>8 DEF PrintResult, scoreVars
  <2>2. /\ target = innings1_runs + 1
        /\ total_runs \in Nat /\ innings1_runs \in Nat
    BY <2>1 DEF PlayInv, ScoreInv, TypeOK
  <2>3. ResultIsFair' /\ result' \in [winner : {"none", "team1", "team2"}, margin : Nat]
    <3>1. CASE total_runs >= target
      BY <2>1, <2>2, <3>1 DEF ResultIsFair
    <3>2. CASE total_runs < target
      <4>1. target - total_runs - 1 \in Nat
        BY <2>2, <3>2
      <4> QED
        BY <2>1, <2>2, <3>2, <4>1 DEF ResultIsFair
    <3> QED
      BY <2>2, <3>1, <3>2
  <2>4. TypeOK'
    BY <1>0, <2>1, <2>3 DEF PlayInv, TypeOK, ScheduleInv, phaseVars
  <2> QED
    BY <2>1, <2>3, <2>4
       DEF PlayInv, EndInv, ScoreInv, PhasesAgree, InningsAreWhole, phaseVars,
           AllOut, Chased
<1>9. CASE UNCHANGED vars
  <2>1. UNCHANGED <<type_, current_over, schedulerVars, innings, target,
                    total_runs, wickets, innings1_runs, phaseVars, match_over,
                    stage, result>>
    BY <1>9 DEF vars, scoreVars
  <2>2. TypeOK'
    BY <1>0, <2>1 DEF PlayInv, TypeOK, ScheduleInv, phaseVars
  <2> QED
    BY <2>1, <2>2
       DEF PlayInv, EndInv, ScoreInv, PhasesAgree, InningsAreWhole,
           ResultIsFair, phaseVars, AllOut, Chased
<1> QED
  BY <1>1, <1>2, <1>3, <1>4, <1>5, <1>6, <1>7, <1>8, <1>9 DEF Next

MatchInv == ScheduleInv /\ PlayInv

\* The invariant of score, phases and result, on top of the scheduler's.
THEOREM MatchInvariant == Spec => []MatchInv
<1>1. Init => MatchInv
    BY ScheduleInit, PlayInit DEF MatchInv
<1>2. MatchInv /\ [Next]_vars => MatchInv'
    BY ScheduleStep, PlayStep DEF MatchInv
<1> QED
  BY <1>1, <1>2, PTL DEF Spec

\* Type correctness: pressures from 1 to 50, overs of the match, known results.
THEOREM TypeCorrect == Spec => []TypeOK
<1>1. MatchInv => TypeOK
    BY DEF MatchInv, PlayInv
<1> QED
  BY <1>1, MatchInvariant, PTL

\* Engine and scheduler agree on the phase, in a match of any length.
THEOREM PhasesAgreeHolds == Spec => []PhasesAgree
<1>1. MatchInv => PhasesAgree
    BY DEF MatchInv, PlayInv
<1> QED
  BY <1>1, MatchInvariant, PTL

\* No innings is cut short.
THEOREM InningsAreWholeHolds == Spec => []InningsAreWhole
<1>1. MatchInv => InningsAreWhole
    BY DEF MatchInv, PlayInv
<1> QED
  BY <1>1, MatchInvariant, PTL

\* The result follows from the two scores.
THEOREM ResultIsFairHolds == Spec => []ResultIsFair
<1>1. MatchInv => ResultIsFair
    BY DEF MatchInv, PlayInv
<1> QED
  BY <1>1, MatchInvariant, PTL

-----------------------------------------------------------------------------
(* The board.                                                              *)

\* Every step of the match is a step on the board, or does not touch it.
LEMMA BoardStep ==
    ASSUME MatchInv, [Next]_vars
    PROVE  [Board!Next]_(Board!board)
<1> USE DEF Board!board
<1>0. /\ total_runs \in Nat /\ wickets \in Nat /\ current_over \in Nat
      /\ stage \in {"play", "over", "ending", "joined", "result"}
      /\ innings \in 1 .. 2
    BY QuotaAssumption DEF MatchInv, PlayInv, TypeOK, SchedulerTypeOK
<1>1. CASE StartOver
  <2>1. /\ stage = "play" /\ stage' = "over" /\ ~AllOut /\ ~Chased
        /\ current_over < MaxOvers /\ current_over' = current_over + 1
        /\ UNCHANGED <<target, total_runs, wickets>>
    BY <1>1 DEF StartOver, OversLeft, InningsOver, scoreVars
  <2>2. ~Board!Decided
    <3>1. target > 0 => innings = 2
      BY <1>0 DEF MatchInv, PlayInv, ScoreInv
    <3> QED
      BY <2>1, <3>1 DEF Board!Decided, AllOut, Chased
  <2> QED
    BY <2>1, <2>2 DEF Board!Next, Board!StartOver
<1>2. CASE ScoreRuns \/ WicketFalls
  <2>1. /\ current_over > 0 /\ stage \in {"play", "over", "ending"}
        /\ UNCHANGED <<target, current_over, stage>>
    BY <1>2 DEF ScoreRuns, WicketFalls, InPlay
  <2>2. /\ total_runs' \in Nat /\ total_runs' >= total_runs
        /\ wickets' \in Nat /\ wickets' >= wickets
    BY <1>0, <1>2, ScoresAssumption DEF ScoreRuns, WicketFalls
  <2> QED
    BY <2>1, <2>2 DEF Board!Next, Board!Score
<1>3. CASE EndOver
  <2>1. /\ stage = "over" /\ stage' = "play"
        /\ UNCHANGED <<target, current_over, total_runs, wickets>>
    BY <1>3 DEF EndOver, scoreVars
  <2> QED
    BY <2>1 DEF Board!Next, Board!EndOver
<1>4. CASE FinishInnings
  <2>1. /\ stage = "play" /\ stage' = "ending"
        /\ UNCHANGED <<target, current_over, total_runs, wickets>>
    BY <1>4 DEF FinishInnings, scoreVars
  <2>2. current_over = MaxOvers \/ AllOut \/ Chased
    BY <1>4, PlayStep DEF FinishInnings, MatchInv, PlayInv, InningsAreWhole,
                          scoreVars, AllOut, Chased
  <2>3. Chased => target > 0 /\ total_runs >= target
    BY <1>0 DEF Chased, MatchInv, PlayInv, ScoreInv, TypeOK
  <2> QED
    BY <2>1, <2>2, <2>3 DEF Board!Next, Board!Close, Board!Decided, AllOut
<1>5. CASE JoinThreads
  <2>1. /\ stage = "ending" /\ stage' = "joined"
        /\ UNCHANGED <<target, current_over, total_runs, wickets>>
    BY <1>5 DEF JoinThreads, scoreVars
  <2> QED
    BY <2>1 DEF Board!Next, Board!Report
<1>6. CASE StartSecondInnings
  <2>1. /\ stage = "joined" /\ stage' = "play" /\ target = 0
        /\ target' = total_runs + 1
        /\ current_over' = 0 /\ total_runs' = 0 /\ wickets' = 0
    BY <1>6 DEF StartSecondInnings, NewTarget, MatchInv, PlayInv, ScoreInv
  <2> QED
    BY <2>1 DEF Board!Next, Board!ChangeSides
<1>7. CASE UmpireEndsMatch \/ PrintResult \/ UNCHANGED vars
  <2>1. /\ UNCHANGED <<target, current_over, total_runs, wickets>>
        /\ stage' = stage \/ (stage = "joined" /\ stage' = "result")
    BY <1>7 DEF UmpireEndsMatch, PrintResult, vars, scoreVars
  <2> QED
    BY <2>1
<1> QED
  BY <1>1, <1>2, <1>3, <1>4, <1>5, <1>6, <1>7 DEF Next

\* MatchPlay implements the board of two innings.
THEOREM PlaysTwoInningsHolds == Spec => PlaysTwoInnings
<1>1. Init => Board!Init
    BY DEF Init, Board!Init
<1>2. MatchInv /\ [Next]_vars => [Board!Next]_(Board!board)
    BY BoardStep
<1> QED
  BY <1>1, <1>2, MatchInvariant, PTL DEF Spec, PlaysTwoInnings, Board!Spec
=============================================================================
