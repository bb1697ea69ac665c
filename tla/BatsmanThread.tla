--------------------------- MODULE BatsmanThread ---------------------------
(***************************************************************************)
(* batsman_thread_func.  t = <<b, k>> is the k-th thread spawned for the   *)
(* batsman b.  The shot and the fielder race (lines 247-305) end in an     *)
(* outcome chosen freely here; FielderRace has the race.                   *)
(***************************************************************************)
EXTENDS MatchState

Player(t) == t[1]

MoveTo(t, pc) == bat' = [bat EXCEPT ![t] = pc]

MustLeave(t) == is_out[Player(t)] \/ match_over
OnStrike(t)  == Player(t) = striker_id

\* sem_wait(crease): at most two batsmen are at the crease.
EnterCrease(t) ==
    /\ bat[t] = "sem" /\ crease_semaphore > 0
    /\ crease_semaphore' = crease_semaphore - 1
    /\ is_active' = [is_active EXCEPT ![Player(t)] = TRUE]
    /\ MoveTo(t, "gate")
    /\ UNCHANGED <<notBatsman, tokens, scoreboard, dismissal, endVars, holds_end,
                   thread_id, stroke, last_outcome>>

\* The outer loop, and the wait of the non-striker on striker_changed_cond.
AwaitStrike(t) ==
    /\ bat[t] = "gate"
    /\ MoveTo(t, IF MustLeave(t) THEN "leave"
                 ELSE IF OnStrike(t) THEN "await" ELSE "gateAsleep")
    /\ UNCHANGED <<notBatsman, tokens, play>>

SleepForDelivery(t) ==
    /\ bat[t] = "await" /\ ~delivery_ready /\ ~MustLeave(t)
    /\ MoveTo(t, "awaitAsleep")
    /\ UNCHANGED <<notBatsman, tokens, play>>

AbandonDelivery(t) ==
    /\ bat[t] = "await" /\ MustLeave(t)
    /\ ReleaseBowler
    /\ MoveTo(t, "leave")
    /\ UNCHANGED <<notBatsman, delivery_ready, play>>

\* Race guard: the ends were swapped while t waited for the delivery; it
\* goes back to the buffer for the striker.
PutBackDelivery(t) ==
    /\ bat[t] = "await" /\ delivery_ready /\ ~MustLeave(t) /\ ~OnStrike(t)
    /\ bat' = [WakeDelivery(bat) EXCEPT ![t] = "gate"]
    /\ UNCHANGED <<notBatsman, tokens, play>>

\* Mutant: no race guard.
TakeAnyDelivery(t) ==
    /\ bat[t] = "await" /\ delivery_ready /\ ~MustLeave(t)
    /\ delivery_ready' = FALSE
    /\ MoveTo(t, "stroke")
    /\ UNCHANGED <<notBatsman, stroke_done, bowler, play>>

TakeDelivery(t) ==
    /\ bat[t] = "await" /\ delivery_ready /\ ~MustLeave(t) /\ OnStrike(t)
    /\ delivery_ready' = FALSE
    /\ MoveTo(t, "stroke")
    /\ UNCHANGED <<notBatsman, stroke_done, bowler, play>>

-----------------------------------------------------------------------------
(* The score, under score_mutex.                                           *)

\* Lines 309-316 and 365-368 of the balls that dismiss nobody.
ScoreRuns(t) ==
    /\ bat[t] = "stroke" /\ ~score_locked
    /\ \E o \in Outcomes \ Dismissals :
        /\ o \in Extras => extras < MaxExtras
        /\ total_runs' = total_runs + RunsOf(o)
        /\ IF o \in Extras
              THEN extras' = extras + 1 /\ UNCHANGED <<runs_scored, current_ball>>
              ELSE /\ runs_scored' =
                          [runs_scored EXCEPT ![Player(t)] = @ + RunsOf(o)]
                   /\ current_ball' = current_ball + 1
                   /\ UNCHANGED extras
        /\ stroke' = [stroke EXCEPT ![t] = o]
    /\ MoveTo(t, "result")
    /\ UNCHANGED <<notBatsman, tokens, dismissal, crease, endVars, holds_end,
                   thread_id, last_outcome>>

\* Lines 317-330: t is out, and the next batsman is looked for.
Dismiss(t) ==
    /\ bat[t] = "stroke" /\ ~score_locked
    /\ score_locked' = TRUE
    /\ \E o \in Outcomes \cap Dismissals : stroke' = [stroke EXCEPT ![t] = o]
    /\ is_out' = [is_out EXCEPT ![Player(t)] = TRUE]
    /\ wickets' = wickets + 1
    /\ \E b \in Batsmen \cup {NoPlayer} :
        /\ IsFirst(b, Waiting \ {Player(t)})
        /\ next_bat' = b
        /\ MoveTo(t, IF b = NoPlayer THEN "firstToken" ELSE "promote")
    /\ UNCHANGED <<notBatsman, tokens, scoreboard, crease, endVars, holds_end,
                   thread_id, last_outcome>>

\* Lines 335-342: the partner keeps his end, the next batsman faces.
Promote(t) ==
    /\ bat[t] = "promote"
    /\ striker_id' = next_bat
    /\ LET partners == AtCrease \ {Player(t)}
       IN  IF partners = {} THEN UNCHANGED non_striker_id
           ELSE \E b \in partners : IsFirst(b, partners) /\ non_striker_id' = b
    /\ MoveTo(t, "wakePromoted")
    /\ UNCHANGED <<notBatsman, tokens, scoreboard, dismissal, crease, holds_end,
                   thread_id, stroke, last_outcome>>

WakePromoted(t) ==
    /\ bat[t] = "wakePromoted"
    /\ bat' = [WakeGate(bat) EXCEPT ![t] = "spawn"]
    /\ UNCHANGED <<notBatsman, tokens, play>>

\* Mutant: spawn_batsman does not keep the handle of the new thread.
SpawnUnrecorded(t) ==
    /\ bat[t] = "spawn"
    /\ \E k \in 1 .. MaxSpawns :
        /\ bat[<<next_bat, k>>] = "unborn"
        /\ \A j \in 1 .. k - 1 : bat[<<next_bat, j>>] # "unborn"
        /\ bat' = [bat EXCEPT ![<<next_bat, k>>] = "sem", ![t] = "firstToken"]
    /\ UNCHANGED <<notBatsman, tokens, play>>

\* spawn_batsman(next_bat), then on to the token.
SpawnNext(t) ==
    /\ bat[t] = "spawn"
    /\ \E k \in 1 .. MaxSpawns :
        /\ bat[<<next_bat, k>>] = "unborn"
        /\ \A j \in 1 .. k - 1 : bat[<<next_bat, j>>] # "unborn"
        /\ bat' = [bat EXCEPT ![<<next_bat, k>>] = "sem", ![t] = "firstToken"]
        /\ thread_id' = [thread_id EXCEPT ![next_bat] = k]
    /\ UNCHANGED <<notBatsman, tokens, scoreboard, dismissal, crease, endVars,
                   holds_end, stroke, last_outcome>>

\* Lines 356-359: the bowler is released before g_last_outcome is written.
FirstToken(t) ==
    /\ bat[t] = "firstToken"
    /\ ReleaseBowler
    /\ MoveTo(t, "unlock")
    /\ UNCHANGED <<notBatsman, delivery_ready, play>>

\* Lines 365-369 of a dismissal: the ball counts, score_mutex is released.
EndDismissal(t) ==
    /\ bat[t] = "unlock"
    /\ current_ball' = current_ball + 1
    /\ score_locked' = FALSE /\ next_bat' = NoPlayer
    /\ MoveTo(t, "result")
    /\ UNCHANGED <<notBatsman, tokens, total_runs, extras, runs_scored, is_out,
                   wickets, crease, endVars, holds_end, thread_id, stroke,
                   last_outcome>>

-----------------------------------------------------------------------------
(* After the ball.                                                         *)

\* Mutant: the result of the ball is not written.
PostNothing(t) ==
    /\ bat[t] = "result"
    /\ MoveTo(t, "cross")
    /\ UNCHANGED <<notBatsman, tokens, play>>

\* g_last_outcome and g_last_runs, under g_res_mutex.
PostResult(t) ==
    /\ bat[t] = "result"
    /\ last_outcome' = stroke[t]
    /\ MoveTo(t, IF stroke[t] = "RUNOUT" THEN "stage" ELSE "cross")
    /\ UNCHANGED <<notBatsman, tokens, scoreboard, dismissal, crease, endVars,
                   holds_end, thread_id, stroke>>

\* simulate_runout_attempt: each of the two holds an end and wants the other.
StageRunOut(t) ==
    /\ bat[t] = "stage"
    /\ holds_end' =
           IF non_striker_id \in Batsmen /\ ~is_out[non_striker_id]
           THEN [holds_end EXCEPT ![Player(t)] = 0, ![non_striker_id] = 1]
           ELSE holds_end
    /\ MoveTo(t, "cross")
    /\ UNCHANGED <<notBatsman, tokens, scoreboard, dismissal, crease, endVars,
                   thread_id, stroke, last_outcome>>

\* Mutant: the runs of an extra make the batsmen cross too.
OddTotal(o) == RunsOf(o) % 2 = 1

\* The batsmen have crossed: an odd number of runs off the bat.
OddRuns(o) == o \notin Extras /\ RunsOf(o) % 2 = 1

\* Whether the batsmen crossed is decided before state_mutex is taken.
Cross(t) ==
    /\ bat[t] = "cross"
    /\ MoveTo(t, IF MustLeave(t) THEN "secondToken"
                 ELSE IF OddRuns(stroke[t]) THEN "swapEnds" ELSE "wakeEnds")
    /\ UNCHANGED <<notBatsman, tokens, play>>

SwapOnOddRuns(t) ==
    /\ bat[t] = "swapEnds"
    /\ striker_id' = non_striker_id /\ non_striker_id' = striker_id
    /\ MoveTo(t, "wakeEnds")
    /\ UNCHANGED <<notBatsman, tokens, scoreboard, dismissal, crease, holds_end,
                   thread_id, stroke, last_outcome>>

\* Mutant: the ends change and nobody is told.
SkipWakeEnds(t) ==
    /\ bat[t] = "wakeEnds"
    /\ MoveTo(t, "secondToken")
    /\ UNCHANGED <<notBatsman, tokens, play>>

WakeEnds(t) ==
    /\ bat[t] = "wakeEnds"
    /\ bat' = [WakeGate(bat) EXCEPT ![t] = "secondToken"]
    /\ UNCHANGED <<notBatsman, tokens, play>>

SecondToken(t) ==
    /\ bat[t] = "secondToken"
    /\ ReleaseBowler
    /\ stroke' = [stroke EXCEPT ![t] = "none"]
    /\ MoveTo(t, "gate")
    /\ UNCHANGED <<notBatsman, delivery_ready, scoreboard, dismissal, crease,
                   endVars, holds_end, thread_id, last_outcome>>

-----------------------------------------------------------------------------
(* Leaving the crease.                                                     *)

Leave(t) ==
    /\ bat[t] = "leave"
    /\ is_active' = [is_active EXCEPT ![Player(t)] = FALSE]
    /\ MoveTo(t, "lastToken")
    /\ UNCHANGED <<notBatsman, tokens, scoreboard, dismissal, crease_semaphore,
                   endVars, holds_end, thread_id, stroke, last_outcome>>

\* if (!stroke_done) { stroke_done = true; signal; }
LastToken(t) ==
    /\ bat[t] = "lastToken"
    /\ IF stroke_done THEN UNCHANGED <<stroke_done, bowler>> ELSE ReleaseBowler
    /\ MoveTo(t, "post")
    /\ UNCHANGED <<notBatsman, delivery_ready, play>>

\* Mutant: the slot at the crease is never given back.
KeepCrease(t) ==
    /\ bat[t] = "post"
    /\ MoveTo(t, "done")
    /\ UNCHANGED <<notBatsman, tokens, play>>

PostCrease(t) ==
    /\ bat[t] = "post"
    /\ crease_semaphore' = crease_semaphore + 1
    /\ MoveTo(t, "done")
    /\ UNCHANGED <<notBatsman, tokens, scoreboard, dismissal, is_active, endVars,
                   holds_end, thread_id, stroke, last_outcome>>

Batsman(t) ==
    \/ EnterCrease(t) \/ AwaitStrike(t) \/ SleepForDelivery(t)
    \/ AbandonDelivery(t) \/ PutBackDelivery(t) \/ TakeDelivery(t)
    \/ ScoreRuns(t) \/ Dismiss(t) \/ Promote(t) \/ WakePromoted(t)
    \/ SpawnNext(t) \/ FirstToken(t) \/ EndDismissal(t) \/ PostResult(t)
    \/ StageRunOut(t) \/ Cross(t) \/ SwapOnOddRuns(t) \/ WakeEnds(t)
    \/ SecondToken(t) \/ Leave(t) \/ LastToken(t) \/ PostCrease(t)
=============================================================================
