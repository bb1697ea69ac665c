---------------------------- MODULE BowlerThread ----------------------------
(***************************************************************************)
(* bowler_thread_func: one thread per over.  It writes a delivery, waits   *)
(* for the stroke and counts the ball.  run_innings joins it before it     *)
(* spawns the next, so pitch_mutex is never contended and is left out; the *)
(* statistics of all the bowlers of the innings are kept together.         *)
(***************************************************************************)
EXTENDS MatchState

\* while (legal_balls < balls_to_bowl && !match_over)
MoreBalls == legal_balls < BallsPerOver /\ ~match_over

\* The delivery goes to the buffer and the striker is woken.
Deliver ==
    /\ bowler = "bowl" /\ MoreBalls
    /\ pitch_buffer' = current_over
    /\ delivery_ready' = TRUE
    /\ bat' = WakeDelivery(bat)
    /\ bowler' = "wait"
    /\ UNCHANGED <<notBowler, stroke_done, bowlerVars>>

BowlerDone ==
    /\ bowler = "bowl" /\ ~MoreBalls
    /\ bowler' = "done"
    /\ UNCHANGED <<notBowler, bat, delivery_ready, stroke_done, pitch_buffer,
                   bowlerVars>>

\* What the wait for the stroke ends on; a missing striker ends it too.
StrokeOver == stroke_done \/ match_over \/ striker_id < 0

SleepForStroke ==
    /\ bowler = "wait" /\ ~StrokeOver
    /\ bowler' = "asleep"
    /\ UNCHANGED <<notBowler, bat, delivery_ready, stroke_done, pitch_buffer,
                   bowlerVars>>

\* Mutant: the token is left in the flag for the next ball.
KeepStroke ==
    /\ bowler = "wait" /\ StrokeOver
    /\ bowler' = "count"
    /\ UNCHANGED <<notBowler, bat, delivery_ready, stroke_done, pitch_buffer,
                   bowlerVars>>

AckStroke ==
    /\ bowler = "wait" /\ StrokeOver
    /\ stroke_done' = FALSE
    /\ bowler' = "count"
    /\ UNCHANGED <<notBowler, bat, delivery_ready, pitch_buffer, bowlerVars>>

\* A wide or a no-ball is bowled again.
CountsForOver(o) == o \notin Extras

\* The result is read from g_last_outcome, whoever wrote it last.
CountBall ==
    /\ bowler = "count"
    /\ legal_balls' =
           IF CountsForOver(last_outcome) THEN legal_balls + 1 ELSE legal_balls
    /\ runs_conceded' = runs_conceded + RunsOf(last_outcome)
    /\ wickets_taken' =
           IF last_outcome \in Credited THEN wickets_taken + 1
                                        ELSE wickets_taken
    /\ bowler' = "bowl"
    /\ UNCHANGED <<notBowler, bat, delivery_ready, stroke_done, pitch_buffer>>

Bowler ==
    \/ Deliver \/ BowlerDone \/ SleepForStroke \/ AckStroke \/ CountBall
=============================================================================
