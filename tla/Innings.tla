------------------------------ MODULE Innings ------------------------------
(***************************************************************************)
(* MatchEngine::run_innings and the threads it runs: one bowler per over,  *)
(* the batsmen, the umpire.  The fielders run beside them (FielderRace);   *)
(* which bowler is scheduled does not matter here.                         *)
(*                                                                         *)
(* current_over = 0 before the over loop has started the first over.       *)
(***************************************************************************)
EXTENDS BowlerThread, BatsmanThread, UmpireThread

Openers == {1, 2}

Init ==
    /\ target \in Targets
    /\ match_over = FALSE /\ wickets = 0 /\ total_runs = 0 /\ extras = 0
    /\ current_over = 0 /\ current_ball = 0
    /\ striker_id = 1 /\ non_striker_id = 2
    /\ is_out = [b \in Batsmen |-> FALSE]
    /\ is_active = [b \in Batsmen |-> b \in Openers]
    /\ runs_scored = [b \in Batsmen |-> 0]
    /\ holds_end = [b \in Batsmen |-> -1]
    /\ thread_id = [b \in Batsmen |-> IF b \in Openers THEN 1 ELSE 0]
    /\ delivery_ready = FALSE /\ stroke_done = FALSE /\ pitch_buffer = 0
    /\ crease_semaphore = 2
    /\ score_locked = FALSE /\ next_bat = NoPlayer
    /\ last_outcome \in IF target = 0 THEN {"DOT"} ELSE Outcomes
    /\ bat = [t \in Threads |->
                  IF t[1] \in Openers /\ t[2] = 1 THEN "sem" ELSE "unborn"]
    /\ stroke = [t \in Threads |-> "none"]
    /\ bowler = "idle" /\ legal_balls = 0
    /\ runs_conceded = 0 /\ wickets_taken = 0
    /\ umpire = "poll" /\ runout = NobodyOut
    /\ deadlock_forced \in
           IF target = 0 \/ ~EnableDeadlockSim THEN {FALSE} ELSE BOOLEAN
    /\ engine = "over" /\ joining = 0

-----------------------------------------------------------------------------
(* The over loop.                                                          *)

\* What no action of the engine but the first writes.
notEngine == <<scoreboard, dismissal, crease, holds_end, stroke, last_outcome,
               runs_conceded, wickets_taken, umpireVars, pitch_buffer, target>>

\* Mutant: one over more than the match has.
OversLeftOffByOne == current_over <= Overs

OversLeft == current_over < Overs

StartOver ==
    /\ engine = "over" /\ OversLeft /\ ~InningsOver
    /\ current_over' = current_over + 1
    /\ current_ball' = 0
    /\ engine' = "flags"
    /\ UNCHANGED <<match_over, target, bat, tokens, total_runs, extras,
                   runs_scored, dismissal, crease, endVars, holds_end, thread_id, stroke,
                   last_outcome, pitch_buffer, bowlerVars, umpireVars,
                   joining>>

\* Mutant: flags of the last over are carried into the new one.
KeepFlags ==
    /\ engine = "flags"
    /\ engine' = "striker"
    /\ UNCHANGED <<match_over, bat, tokens, notEngine, endVars, thread_id,
                   legal_balls, joining, current_over>>

ResetFlags ==
    /\ engine = "flags"
    /\ delivery_ready' = FALSE /\ stroke_done' = FALSE
    /\ engine' = "striker"
    /\ UNCHANGED <<match_over, bat, bowler, notEngine, endVars, thread_id,
                   legal_balls, joining, current_over>>

\* Lines 740-753: no striker, because the batsman who was to come was missing.
AssignStriker ==
    /\ engine = "striker"
    /\ \/ /\ striker_id = NoPlayer
          /\ \E b \in Waiting : IsFirst(b, Waiting) /\ striker_id' = b
          /\ engine' = "spawn"
       \/ /\ striker_id # NoPlayer \/ Waiting = {}
          /\ engine' = "bowler" /\ UNCHANGED striker_id
    /\ UNCHANGED <<match_over, bat, tokens, notEngine, non_striker_id,
                   thread_id, legal_balls, joining, current_over>>

SpawnStriker ==
    /\ engine = "spawn"
    /\ Spawn(striker_id)
    /\ engine' = "bowler"
    /\ UNCHANGED <<match_over, tokens, notEngine, endVars, legal_balls,
                   joining, current_over>>

SpawnBowler ==
    /\ engine = "bowler"
    /\ bowler' = "bowl" /\ legal_balls' = 0
    /\ engine' = "join"
    /\ UNCHANGED <<match_over, bat, delivery_ready, stroke_done, notEngine,
                   endVars, thread_id, joining, current_over>>

JoinBowler ==
    /\ engine = "join" /\ bowler = "done"
    /\ bowler' = "idle" /\ legal_balls' = 0
    /\ engine' = "swap"
    /\ UNCHANGED <<match_over, bat, delivery_ready, stroke_done, notEngine,
                   endVars, thread_id, joining, current_over>>

\* The ends change after every over, the last one included.
SwapEnds ==
    /\ engine = "swap"
    /\ IF InningsOver
          THEN engine' = "over" /\ UNCHANGED endVars
          ELSE /\ engine' = "wakeSwap"
               /\ striker_id' = non_striker_id
               /\ non_striker_id' = striker_id
    /\ UNCHANGED <<match_over, bat, tokens, notEngine, thread_id, legal_balls,
                   joining, current_over>>

\* Mutant: the new striker is not woken.
SkipWakeSwap ==
    /\ engine = "wakeSwap"
    /\ engine' = "over"
    /\ UNCHANGED <<match_over, bat, tokens, notEngine, endVars, thread_id,
                   legal_balls, joining, current_over>>

WakeAfterSwap ==
    /\ engine = "wakeSwap"
    /\ bat' = WakeGate(bat)
    /\ engine' = "over"
    /\ UNCHANGED <<match_over, tokens, notEngine, endVars, thread_id,
                   legal_balls, joining, current_over>>

-----------------------------------------------------------------------------
(* The end of the innings.                                                 *)

FinishInnings ==
    /\ engine = "over" /\ (~OversLeft \/ InningsOver)
    /\ match_over' = TRUE
    /\ engine' = "wakeEnd"
    /\ UNCHANGED <<bat, tokens, notEngine, endVars, thread_id, legal_balls,
                   joining, current_over>>

\* Mutant: the non-striker is forgotten at the end.
SkipWakeEnd ==
    /\ engine = "wakeEnd"
    /\ engine' = "raiseFlags"
    /\ UNCHANGED <<match_over, bat, tokens, notEngine, endVars, thread_id,
                   legal_balls, joining, current_over>>

WakeAtEnd ==
    /\ engine = "wakeEnd"
    /\ bat' = WakeGate(bat)
    /\ engine' = "raiseFlags"
    /\ UNCHANGED <<match_over, tokens, notEngine, endVars, thread_id,
                   legal_balls, joining, current_over>>

RaiseFlags ==
    /\ engine = "raiseFlags"
    /\ delivery_ready' = TRUE
    /\ ReleaseBowler
    /\ bat' = WakeDelivery(bat)
    /\ engine' = "joinBatsmen" /\ joining' = 1
    /\ UNCHANGED <<match_over, notEngine, endVars, thread_id, legal_balls,
                   current_over>>

\* Mutant: nobody is waited for.
PassBatsman ==
    /\ engine = "joinBatsmen" /\ joining \in Batsmen
    /\ thread_id' = [thread_id EXCEPT ![joining] = 0]
    /\ joining' = joining + 1
    /\ UNCHANGED <<match_over, bat, tokens, notEngine, endVars, legal_balls,
                   engine, current_over>>

\* pthread_join of the thread spawned last for each batsman.
JoinBatsman ==
    /\ engine = "joinBatsmen" /\ joining \in Batsmen
    /\ thread_id[joining] # 0 =>
           bat[<<joining, thread_id[joining]>>] = "done"
    /\ thread_id' = [thread_id EXCEPT ![joining] = 0]
    /\ joining' = joining + 1
    /\ UNCHANGED <<match_over, bat, tokens, notEngine, endVars, legal_balls,
                   engine, current_over>>

JoinUmpire ==
    /\ engine = "joinBatsmen" /\ joining = NB + 1
    /\ umpire = "done"
    /\ engine' = "done" /\ joining' = 0
    /\ UNCHANGED <<match_over, bat, tokens, notEngine, endVars, thread_id,
                   legal_balls, current_over>>

Engine ==
    \/ StartOver \/ ResetFlags \/ AssignStriker \/ SpawnStriker \/ SpawnBowler
    \/ JoinBowler \/ SwapEnds \/ WakeAfterSwap \/ FinishInnings \/ WakeAtEnd
    \/ RaiseFlags \/ JoinBatsman \/ JoinUmpire

\* run_innings has returned.
InningsReturned == engine = "done" /\ UNCHANGED vars

Next ==
    \/ Engine \/ Bowler \/ Umpire
    \/ \E t \in Threads : Batsman(t)
    \/ InningsReturned

(* Every thread runs: no thread that can take a step waits for ever.       *)
Fairness ==
    /\ WF_vars(Engine) /\ WF_vars(Bowler) /\ WF_vars(Umpire)
    /\ \A t \in Threads : WF_vars(Batsman(t))

Spec == Init /\ [][Next]_vars
FairSpec == Spec /\ Fairness
=============================================================================
