----------------------------- MODULE MatchState -----------------------------
(***************************************************************************)
(* The state the threads of one innings share (MatchState, the players of  *)
(* the batting side, the delivery flags, the crease semaphore), and the    *)
(* few operations on it that more than one thread performs.                *)
(*                                                                         *)
(* A condition variable is the set of threads whose program counter is the *)
(* matching "...Asleep": testing the loop condition and going to sleep is  *)
(* one step, since the mutex is held over both.                            *)
(***************************************************************************)
EXTENDS Integers, FiniteSets

CONSTANTS
    NB,              \* batsmen in the batting order (8 in the program)
    Overs,           \* config.max_overs
    BallsPerOver,    \* BALLS_PER_OVER (6)
    AllOutAt,        \* MAX_PLAYERS - 1 (10): wickets that end the innings
    Targets,         \* scores to reach in innings 2; 0 stands for innings 1
    Outcomes,        \* the BallOutcomes that the shots of this model have
    EnableDeadlockSim,   \* config.enable_deadlock_sim
    MaxSpawns,       \* bound: threads spawned for one batsman
    MaxExtras        \* bound: wides and no-balls in the innings

Extras     == {"WIDE", "NOBALL"}
Dismissals == {"WICKET", "LBW", "CAUGHT", "RUNOUT"}
Credited   == Dismissals \ {"RUNOUT"}      \* wickets the bowler is given
Scoring    == {"DOT", "SINGLE", "TWO", "THREE", "FOUR", "SIX"}

ASSUME BatsmenAssumption == NB \in Nat /\ NB >= 2
ASSUME OversAssumption ==
    Overs \in Nat /\ BallsPerOver \in Nat \ {0} /\ AllOutAt \in Nat \ {0}
ASSUME TargetAssumption == Targets \subseteq Nat
ASSUME OutcomesAssumption ==
    /\ Outcomes \subseteq Extras \cup Dismissals \cup Scoring
    /\ EnableDeadlockSim \in BOOLEAN
    /\ "RUNOUT" \in Outcomes => EnableDeadlockSim
ASSUME BoundsAssumption == MaxSpawns \in Nat \ {0} /\ MaxExtras \in Nat

Batsmen  == 1 .. NB                        \* in batting order
NoPlayer == -1
Threads  == Batsmen \X (1 .. MaxSpawns)    \* <<batsman, which spawn>>

RunsOf(o) ==
    CASE o \in {"SINGLE"} \cup Extras -> 1
      [] o = "TWO"   -> 2
      [] o = "THREE" -> 3
      [] o = "FOUR"  -> 4
      [] o = "SIX"   -> 6
      [] OTHER       -> 0

VARIABLES
    match_over, target, wickets, total_runs, extras, current_over,
    current_ball,
    striker_id, non_striker_id,
    is_out, is_active,      \* of each batsman
    runs_scored,            \* of each batsman
    holds_end,              \* of each batsman; he wants the other end
    thread_id,              \* latest spawn of each batsman, 0 = none or joined
    delivery_ready, stroke_done,
    pitch_buffer,           \* over_num of the delivery in the buffer
    crease_semaphore,
    score_locked,           \* score_mutex is held across steps
    last_outcome,           \* g_last_outcome; g_last_runs is its RunsOf
    next_bat,               \* local of the thread that holds score_mutex
    bat,                    \* program counter of each batsman thread
    stroke,                 \* outcome of the ball a thread is playing
    bowler,                 \* program counter of the bowler thread
    legal_balls,            \* local of the bowler thread
    runs_conceded, wickets_taken,    \* of all the bowlers together
    umpire,                 \* program counter of the umpire thread
    runout,                 \* locals of the umpire: victim, survivor, next_bat
    deadlock_forced,        \* static of umpire_thread_func
    engine,                 \* program counter of run_innings
    joining                 \* batsman whose thread run_innings joins

\* Groups of variables that steps leave alone together.
scoreboard == <<total_runs, extras, runs_scored, current_ball>>
dismissal  == <<is_out, wickets, score_locked, next_bat>>
crease     == <<crease_semaphore, is_active>>
endVars    == <<striker_id, non_striker_id>>
play       == <<scoreboard, dismissal, crease, endVars, holds_end, thread_id,
                stroke, last_outcome>>
tokens     == <<delivery_ready, stroke_done, bowler>>
bowlerVars == <<legal_balls, runs_conceded, wickets_taken>>
umpireVars == <<umpire, runout, deadlock_forced>>
engineVars == <<engine, joining, current_over>>

\* What no batsman thread writes, and what no bowler thread writes.
notBatsman == <<match_over, target, pitch_buffer, bowlerVars, umpireVars,
                engineVars>>
notBowler  == <<match_over, target, play, umpireVars, engineVars>>

vars == <<bat, tokens, play, notBatsman>>

-----------------------------------------------------------------------------
(* Condition variables.                                                    *)

Wake(pcs, asleep, awake) ==
    [t \in Threads |-> IF pcs[t] = asleep THEN awake ELSE pcs[t]]

WakeGate(pcs)     == Wake(pcs, "gateAsleep", "gate")    \* striker_changed_cond
WakeDelivery(pcs) == Wake(pcs, "awaitAsleep", "await")  \* delivery_ready_cond
WakeBowler(pc)    == IF pc = "asleep" THEN "wait" ELSE pc   \* stroke_done_cond

\* stroke_done = true; pthread_cond_signal(&stroke_done_cond)
ReleaseBowler ==
    /\ stroke_done' = TRUE
    /\ bowler' = WakeBowler(bowler)

-----------------------------------------------------------------------------
(* The batting order.                                                      *)

\* Batsmen neither dismissed nor at the crease.
Waiting == {b \in Batsmen : ~is_out[b] /\ ~is_active[b]}

AtCrease == {b \in Batsmen : is_active[b] /\ ~is_out[b]}

\* The first of S in batting order; NoPlayer when S is empty.
IsFirst(b, S) ==
    IF S = {} THEN b = NoPlayer ELSE b \in S /\ \A c \in S : b <= c

\* spawn_batsman: a new thread for b that has not run yet.
Spawn(b) ==
    \E k \in 1 .. MaxSpawns :
        /\ bat[<<b, k>>] = "unborn"
        /\ \A j \in 1 .. k - 1 : bat[<<b, j>>] # "unborn"
        /\ bat' = [bat EXCEPT ![<<b, k>>] = "sem"]
        /\ thread_id' = [thread_id EXCEPT ![b] = k]

-----------------------------------------------------------------------------
(* The end of an innings.                                                  *)

AllOut == wickets >= AllOutAt
Chased == target > 0 /\ total_runs >= target

\* is_innings_over(); current_over never exceeds max_overs.
InningsOver == match_over \/ AllOut \/ Chased

=============================================================================
