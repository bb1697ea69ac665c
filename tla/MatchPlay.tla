----------------------------- MODULE MatchPlay -----------------------------
(***************************************************************************)
(* MatchEngine::run: two innings, over by over, with the scheduler that    *)
(* chooses the bowlers, the phases and the result.  The threads of an      *)
(* innings are reduced to what they do to the score: while one of them may *)
(* be at work, runs are scored and wickets fall, and the umpire's thread   *)
(* ends the match when it sees a reason to.  A thread that outlives its    *)
(* innings (NoThreadLeaks of InningsProperties) is left out.               *)
(***************************************************************************)
EXTENDS BowlerScheduler, MatchPhases

CONSTANTS
    Scores,       \* runs that can be added at once
    MaxRuns,      \* bound: runs of an innings
    MaxWickets,   \* bound: wickets of an innings
    AllOutAt      \* MAX_PLAYERS - 1 (10)

ASSUME ScoresAssumption == Scores \subseteq Nat \ {0} /\ MaxRuns \in Nat
ASSUME WicketsAssumption == MaxWickets \in Nat /\ AllOutAt \in Nat \ {0}

VARIABLES
    innings, target, total_runs, wickets, match_over,
    phase_intensity, intensity,
    innings1_runs,
    stage,       \* where run is: "play" (the over loop), "over" (a bowler is
                 \* at work), "ending", "joined" or "result"
    result       \* what print_match_result says, once it has

scoreVars == <<innings, target, total_runs, wickets, innings1_runs>>
phaseVars == <<current_phase, phase_intensity, intensity>>

vars == <<type_, current_over, schedulerVars, scoreVars, phaseVars, match_over,
          stage, result>>

NoResult == [winner |-> "none", margin |-> 0]

-----------------------------------------------------------------------------
\* current_over is 0 here until the loop has written it, and
\* current_bowler_idx is not initialised: it may be anything.
Init ==
    /\ type_ \in Policies
    /\ current_over = 0
    /\ current_bowler_idx \in Bowlers \cup {Nobody}
    /\ InitScheduler
    /\ innings = 1 /\ target = 0
    /\ total_runs = 0 /\ wickets = 0 /\ match_over = FALSE
    /\ current_phase = "POWERPLAY" /\ phase_intensity = 10 /\ intensity = "LOW"
    /\ innings1_runs = 0
    /\ stage = "play"
    /\ result = NoResult

Chased == innings = 2 /\ total_runs >= target
AllOut == wickets >= AllOutAt

\* is_innings_over
InningsOver == match_over \/ AllOut \/ Chased

\* Mutant: one over more than the match has.
OversLeftOffByOne == current_over <= MaxOvers

OversLeft == current_over < MaxOvers

\* The head of the over loop: phase, pressure, bowler.
StartOver ==
    /\ stage = "play" /\ OversLeft /\ ~InningsOver
    /\ current_over' = current_over + 1
    /\ current_phase' = PhaseOf(current_over', MaxOvers)
    /\ phase_intensity' =
           PhaseIntensity(current_over', target, total_runs, wickets, MaxOvers)
    /\ intensity' = IntensityOf(current_over', MaxOvers)
    /\ ScheduleNextBowler
    /\ stage' = "over"
    /\ UNCHANGED <<type_, scoreVars, match_over, result>>

\* A thread of the innings may be at work: until the batsmen are joined.
InPlay == current_over > 0 /\ stage \in {"play", "over", "ending"}

ScoreRuns ==
    /\ InPlay
    /\ \E r \in Scores :
        /\ total_runs + r <= MaxRuns
        /\ total_runs' = total_runs + r
    /\ UNCHANGED <<type_, current_over, schedulerVars, innings, target, wickets,
                   innings1_runs, phaseVars, match_over, stage, result>>

WicketFalls ==
    /\ InPlay
    /\ wickets < MaxWickets
    /\ wickets' = wickets + 1
    /\ UNCHANGED <<type_, current_over, schedulerVars, innings, target,
                   total_runs, innings1_runs, phaseVars, match_over, stage,
                   result>>

\* umpire_thread_func
UmpireEndsMatch ==
    /\ InPlay /\ ~match_over
    /\ AllOut \/ Chased
    /\ match_over' = TRUE
    /\ UNCHANGED <<type_, current_over, schedulerVars, scoreVars, phaseVars,
                   stage, result>>

\* The bowler's thread is joined; it ends early only if the match is over.
EndOver ==
    /\ stage = "over"
    /\ \E full \in BOOLEAN : (full \/ match_over) /\ OverComplete(full)
    /\ stage' = "play"
    /\ UNCHANGED <<type_, current_over, scoreVars, phaseVars, match_over, result>>

FinishInnings ==
    /\ stage = "play" /\ (InningsOver \/ ~OversLeft)
    /\ match_over' = TRUE
    /\ stage' = "ending"
    /\ UNCHANGED <<type_, current_over, schedulerVars, scoreVars, phaseVars,
                   result>>

JoinThreads ==
    /\ stage = "ending"
    /\ stage' = "joined"
    /\ UNCHANGED <<type_, current_over, schedulerVars, scoreVars, phaseVars,
                   match_over, result>>

\* Mutants: match_over stays set; the target is the score, not one more.
KeepMatchOver == match_over

TargetIsScore == total_runs

ResetMatchOver == FALSE

NewTarget == total_runs + 1

\* run between the innings: the score is saved, init_state, a new scheduler
\* for the bowlers of the other side.  No bowler of theirs has the id that
\* current_bowler_idx still holds.
StartSecondInnings ==
    /\ stage = "joined" /\ innings = 1
    /\ innings1_runs' = total_runs
    /\ innings' = 2 /\ target' = NewTarget
    /\ total_runs' = 0 /\ wickets' = 0 /\ match_over' = ResetMatchOver
    /\ current_over' = 0
    /\ current_phase' = "POWERPLAY" /\ phase_intensity' = 10 /\ intensity' = "LOW"
    /\ overs_bowled' = NoOvers /\ runs_conceded' = NoOvers
    /\ wickets_taken' = NoOvers /\ rr_head' = 0 /\ pcb' = NoOvers
    /\ current_bowler_idx' = Nobody
    /\ stage' = "play"
    /\ UNCHANGED <<type_, result>>

\* print_match_result
PrintResult ==
    /\ stage = "joined" /\ innings = 2
    /\ result' = IF total_runs >= target
                 THEN [winner |-> "team2", margin |-> 0]
                 ELSE [winner |-> "team1", margin |-> target - total_runs - 1]
    /\ stage' = "result"
    /\ UNCHANGED <<type_, current_over, schedulerVars, scoreVars, phaseVars,
                   match_over>>

Next ==
    \/ StartOver \/ ScoreRuns \/ WicketFalls \/ UmpireEndsMatch \/ EndOver
    \/ FinishInnings \/ JoinThreads \/ StartSecondInnings \/ PrintResult

Spec == Init /\ [][Next]_vars

-----------------------------------------------------------------------------
TypeOK ==
    /\ SchedulerTypeOK
    /\ innings \in 1 .. 2
    /\ target \in Nat /\ total_runs \in Nat /\ innings1_runs \in Nat
    /\ wickets \in Nat
    /\ match_over \in BOOLEAN
    /\ phase_intensity \in 1 .. 50
    /\ intensity \in {"LOW", "MEDIUM", "HIGH"}
    /\ stage \in {"play", "over", "ending", "joined", "result"}
    /\ result \in [winner : {"none", "team1", "team2"}, margin : Nat]

\* No bowler bowls more than his quota, under whatever policy, up to the last
\* over the quotas allow (rr_next, priority_next and the fallback).
QuotaKept == \A b \in Bowlers : overs_bowled[b] <= Quota

\* Under round robin no bowler is ever more than one over ahead of another.
Balanced ==
    type_ = "RR" =>
        \A b, c \in Bowlers : overs_bowled[b] <= overs_bowled[c] + 1

\* Under round robin no bowler bowls two overs in a row, and nobody comes
\* first because current_bowler_idx was not initialised.
NoConsecutiveOvers ==
    [][type_ = "RR" /\ StartOver => current_bowler_idx' # current_bowler_idx]_vars

\* Under priorities the same bowler comes again only if nobody else has overs left.
ForcedToRepeat ==
    [][StartOver /\ current_bowler_idx' = current_bowler_idx
           => \A b \in Bowlers \ {current_bowler_idx} : ~HasOvers(b)]_vars

\* The engine and the scheduler work out the place of the over each for
\* itself, in two orders of the same tests: they agree at every over.
PhasesAgree ==
    /\ current_phase = "DEATH"  <=> intensity = "HIGH"
    /\ current_phase = "MIDDLE" <=> intensity = "MEDIUM"

\* An innings ends with its overs, with its wickets or with the runs, the
\* second one too, though it starts on what the first one has left behind.
InningsAreWhole ==
    stage \in {"ending", "joined", "result"} =>
        current_over = MaxOvers \/ AllOut \/ Chased

\* The second side wins if and only if it has scored more than the first, and
\* the margin is the difference of the scores.
ResultIsFair ==
    stage = "result" =>
        /\ result.winner = "team2" <=> total_runs > innings1_runs
        /\ result.winner = "team1" => result.margin = innings1_runs - total_runs

\* The board of the two innings.
Board == INSTANCE InningsScore WITH
    Overs   <- MaxOvers,
    over    <- current_over,
    runs    <- total_runs,
    stage   <- CASE stage = "play"   -> "between"
                 [] stage = "over"   -> "over"
                 [] stage = "ending" -> "closing"
                 [] OTHER            -> "closed"

\* No innings is begun, left or scored in out of order: also the second one,
\* which starts on what the first has left behind, has all its overs unless
\* wickets or runs decide it, and the reported score is final.
PlaysTwoInnings == Board!Spec

SpecialistOf(phase) == IF phase = "DEATH" THEN "DEATH" ELSE "SWING"

\* The figures of d are no worse than those of c.
AsGood(d, c) ==
    /\ overs_bowled[d] <= overs_bowled[c]
    /\ wickets_taken[d] >= wickets_taken[c]
    /\ Economy(overs_bowled[d], runs_conceded[d])
           >= Economy(overs_bowled[c], runs_conceded[c])

\* Powerplay and death overs go to a specialist, however weak he is, unless
\* all the specialists that may bowl have worse figures than the one who is
\* chosen; a swing bowler's last over may be saved (compute_dynamic_priority).
SpecialistsFirst ==
    [][StartOver /\ type_ # "RR" /\ current_over' > 1 /\ current_phase' # "MIDDLE"
       => \A d \in Bowlers :
            /\ Candidate(d) /\ Speciality[d] = SpecialistOf(current_phase')
            /\ AsGood(d, current_bowler_idx')
            /\ current_phase' = "DEATH" \/ Quota - overs_bowled[d] # 1
            => Speciality[current_bowler_idx'] = SpecialistOf(current_phase')]_vars
=============================================================================
