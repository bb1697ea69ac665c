----------------------------- MODULE BookProofs -----------------------------
(***************************************************************************)
(* An innings up to its first wicket: overs have all their balls,          *)
(* run_innings joins every thread it has spawned, and what the threads do  *)
(* to the score is what the scorer expects of an innings.                  *)
(***************************************************************************)
EXTENDS LockstepProofs

USE DEF vars, scoreboard, dismissal, crease, endVars, play, tokens, bowlerVars,
        umpireVars, engineVars, notBatsman, notBowler, notUmpire, notEngine

\* The openers are at the two ends.
EndsTaken ==
    \/ striker_id = 1 /\ non_striker_id = 2
    \/ striker_id = 2 /\ non_striker_id = 1

\* How far the over is, and why the match is over.
OverInv ==
    /\ engine \notin {"over"} \cup Closing => current_over > 0
    /\ ~PitchEmpty => current_over > 0
    /\ engine # "join" => bowler = "idle"
    /\ match_over => Chased \/ (engine \in Closing /\ PitchEmpty)
    /\ engine \in Closing => match_over
    /\ ~Chased =>
          /\ bowler = "bowl" => legal_balls <= BallsPerOver
          /\ bowler \in {"wait", "asleep", "count"} => legal_balls < BallsPerOver
          /\ bowler = "done" \/ engine = "swap" => current_ball = BallsPerOver

\* Each opener has one thread, and nobody else has any.
JoinInv ==
    /\ SpawnedOnce
    /\ \A t \in Threads :
          bat[t] \notin {"unborn", "done"} => thread_id[Player(t)] = 1
    /\ engine = "joinBatsmen" =>
          joining > 0 /\ \A b \in Batsmen : b < joining => thread_id[b] = 0
    /\ engine = "done" => \A b \in Batsmen : thread_id[b] = 0

\* Who changes ends has run an odd number of runs.
SwapInv == \A t \in Threads : bat[t] = "swapEnds" => OddRuns(stroke[t])

ScoreInv == wickets = 0 /\ EndsTaken /\ OverInv /\ JoinInv /\ SwapInv

PlainInvs == IInv /\ PlainInv /\ LockInv

-----------------------------------------------------------------------------
(* What the steps do to the score.                                         *)

\* A thread between the stroke and the change of ends.
Across == {"result", "cross", "swapEnds"}

LEMMA ServiceSteps ==
    ASSUME PlainInvs,
           \/ Engine /\ (PlainEngine \/ PassStriker)
           \/ Bowler
           \/ Umpire /\ PlainUmpire
    PROVE  /\ UNCHANGED <<wickets, total_runs, stroke, target>>
           /\ PitchEmpty' <=> PitchEmpty
           /\ Crossing' <=> Crossing
           /\ \A u \in Threads : bat[u] \in {"unborn", "done"} => bat'[u] = bat[u]
<1> USE DEF PlainInvs
<1>1. UNCHANGED <<wickets, total_runs, stroke, target>>
    BY Zenon DEF PlainEngine, PassStriker, Bowler, PlainUmpire,
        StartOver, ResetFlags, SpawnBowler, JoinBowler, SwapEnds,
        WakeAfterSwap, FinishInnings, WakeAtEnd, RaiseFlags, JoinBatsman,
        JoinUmpire, Deliver, BowlerDone, SleepForStroke, AckStroke, CountBall,
        DetectDeadlock, EndMatch, WakeGateAtEnd,
        RaiseFlagsAtEnd, UmpireDone
<1>2. PlayGoesOn
    BY ServiceLetsPlay
<1>3. PitchEmpty' <=> PitchEmpty
    BY <1>2 DEF PlayGoesOn, PitchEmpty
<1>4. Crossing' <=> Crossing
    BY <1>1, <1>2 DEF PlayGoesOn, Crossing, AtPlay
<1>5. bat' = bat \/ bat' = WakeGate(bat) \/ bat' = WakeDelivery(bat)
    BY Zenon DEF PlainEngine, PassStriker, Bowler, PlainUmpire,
        StartOver, ResetFlags, SpawnBowler, JoinBowler, SwapEnds,
        WakeAfterSwap, FinishInnings, WakeAtEnd, RaiseFlags, JoinBatsman,
        JoinUmpire, Deliver, BowlerDone, SleepForStroke, AckStroke, CountBall,
        DetectDeadlock, EndMatch, WakeGateAtEnd,
        RaiseFlagsAtEnd, UmpireDone
<1>6. \A u \in Threads : bat[u] \in {"unborn", "done"} => bat'[u] = bat[u]
    BY <1>5 DEF WakeGate, WakeDelivery, Wake
<1> QED
    BY <1>1, <1>3, <1>4, <1>6

LEMMA BatsmanSteps ==
    ASSUME PlainInvs, BeforeFirstWicket', NEW t \in Threads, PlainBatsman(t)
    PROVE  /\ UNCHANGED <<match_over, target, engine, current_over, legal_balls,
                          wickets, thread_id, joining>>
           /\ bowler' = bowler \/ bowler' = WakeBowler(bowler)
           /\ PitchEmpty => PitchEmpty' \/ TakeDelivery(t)
           /\ \/ /\ UNCHANGED <<total_runs, current_ball, striker_id,
                                non_striker_id>>
                 /\ Crossing' <=> Crossing
              \/ ScoreRuns(t) \/ Cross(t) \/ SwapOnOddRuns(t)
           /\ bat[t] \notin {"unborn", "done"}
           /\ \A u \in Threads : bat[u] \in {"unborn", "done"} => bat'[u] = bat[u]
<1> USE DEF PlainInvs, IInv, TypeOK, BoardTypeOK, ThreadTypeOK
<1>1. UNCHANGED <<match_over, target, engine, current_over, legal_balls,
                  wickets, thread_id, joining>>
    BY Zenon DEF PlainBatsman, EnterCrease, AwaitStrike, SleepForDelivery,
        AbandonDelivery, PutBackDelivery, TakeDelivery, ScoreRuns, PostResult,
        Cross, SwapOnOddRuns, WakeEnds, SecondToken, Leave, LastToken,
        PostCrease
<1>2. bowler' = bowler \/ bowler' = WakeBowler(bowler)
    BY Zenon DEF PlainBatsman, EnterCrease, AwaitStrike, SleepForDelivery,
        AbandonDelivery, PutBackDelivery, TakeDelivery, ScoreRuns, PostResult,
        Cross, SwapOnOddRuns, WakeEnds, SecondToken, Leave, LastToken,
        PostCrease, ReleaseBowler
<1>3. CASE ScoreRuns(t) \/ Cross(t) \/ SwapOnOddRuns(t)
  <2>1. bat[t] \in {"stroke", "cross", "swapEnds"}
    BY <1>3 DEF ScoreRuns, Cross, SwapOnOddRuns
  <2>2. ~PitchEmpty
    BY <2>1 DEF PitchEmpty, AtPlay
  <2>3. \A u \in Threads \ {t} : bat'[u] = bat[u]
    BY <1>3 DEF ScoreRuns, Cross, SwapOnOddRuns, MoveTo
  <2> QED
    BY <1>1, <1>2, <1>3, <2>1, <2>2, <2>3
<1>4. CASE PostResult(t)
  <2>1. bat[t] = "result"
    BY <1>4 DEF PostResult
  <2>2. stroke[t] # "RUNOUT"
    BY DEF PlainInv, Dismissals
  <2>3. bat' = [bat EXCEPT ![t] = "cross"]
    BY <1>4, <2>2 DEF PostResult, MoveTo
  <2>4. UNCHANGED <<total_runs, current_ball, striker_id, non_striker_id, stroke>>
    BY <1>4 DEF PostResult
  <2>5. Crossing' <=> Crossing
    BY <2>1, <2>3, <2>4 DEF Crossing
  <2>6. ~PitchEmpty
    BY <2>1 DEF PitchEmpty, AtPlay
  <2> QED
    BY <1>1, <1>2, <2>1, <2>3, <2>4, <2>5, <2>6
<1>5. CASE EnterCrease(t) \/ AwaitStrike(t) \/ SleepForDelivery(t)
           \/ AbandonDelivery(t) \/ PutBackDelivery(t) \/ TakeDelivery(t)
           \/ WakeEnds(t) \/ SecondToken(t) \/ Leave(t) \/ LastToken(t)
           \/ PostCrease(t)
  <2>1. UNCHANGED <<total_runs, current_ball, striker_id, non_striker_id>>
    BY <1>5, Zenon DEF EnterCrease, AwaitStrike, SleepForDelivery,
        AbandonDelivery, PutBackDelivery, TakeDelivery, WakeEnds, SecondToken,
        Leave, LastToken, PostCrease
  <2>2. \A u \in Threads \ {t} : stroke'[u] = stroke[u]
    BY <1>5 DEF EnterCrease, AwaitStrike, SleepForDelivery,
        AbandonDelivery, PutBackDelivery, TakeDelivery, WakeEnds, SecondToken,
        Leave, LastToken, PostCrease
  <2>3. /\ bat[t] \notin Across \cup {"unborn", "done"}
        /\ bat'[t] \notin Across
    BY <1>5 DEF EnterCrease, AwaitStrike, SleepForDelivery, AbandonDelivery,
        PutBackDelivery, TakeDelivery, WakeEnds, SecondToken, Leave, LastToken,
        PostCrease, MoveTo, WakeGate, WakeDelivery, Wake, Across
  <2>4. \A u \in Threads \ {t} :
            \/ bat'[u] = bat[u]
            \/ bat[u] \in {"gateAsleep", "awaitAsleep"} /\ bat'[u] \in {"gate", "await"}
    BY <1>5 DEF EnterCrease, AwaitStrike, SleepForDelivery, AbandonDelivery,
        PutBackDelivery, TakeDelivery, WakeEnds, SecondToken, Leave, LastToken,
        PostCrease, MoveTo, WakeGate, WakeDelivery, Wake
  <2>5. TakeDelivery(t) \/ (bat'[t] \in AtPlay => bat[t] \in AtPlay)
    BY <1>5 DEF EnterCrease, AwaitStrike, SleepForDelivery, AbandonDelivery,
        PutBackDelivery, WakeEnds, SecondToken, Leave, LastToken,
        PostCrease, MoveTo, WakeGate, WakeDelivery, Wake, AtPlay
  <2>6. PitchEmpty => PitchEmpty' \/ TakeDelivery(t)
    BY <2>4, <2>5 DEF PitchEmpty, AtPlay
  <2>7. Crossing' <=> Crossing
    BY <2>2, <2>3, <2>4 DEF Crossing, Across
  <2> QED
    BY <1>1, <1>2, <2>1, <2>3, <2>4, <2>6, <2>7
<1> QED
    BY <1>3, <1>4, <1>5 DEF PlainBatsman

-----------------------------------------------------------------------------
(* The invariant of the score.                                             *)

LEMMA InitialScore == Init => ScoreInv
<1> SUFFICES ASSUME Init PROVE ScoreInv
    OBVIOUS
<1> USE DEF Init
<1>1. wickets = 0 /\ EndsTaken
    BY DEF EndsTaken
<1>2. \A t \in Threads : bat[t] \in {"sem", "unborn"}
    OBVIOUS
<1>3. OverInv
    BY <1>2 DEF OverInv, PitchEmpty, AtPlay, Closing
<1>4. JoinInv
  <2>1. \A t \in Threads : bat[t] # "unborn" => t[1] \in Openers /\ t[2] = 1
    OBVIOUS
  <2>2. \A t \in Threads : t[1] \in Batsmen
    BY DEF Threads
  <2>3. \A t \in Threads : bat[t] # "unborn" => thread_id[Player(t)] = 1
    BY <2>1, <2>2 DEF Player
  <2> QED
    BY <2>1, <2>3 DEF JoinInv, SpawnedOnce
<1>5. SwapInv
    BY <1>2 DEF SwapInv
<1> QED
    BY <1>1, <1>3, <1>4, <1>5 DEF ScoreInv

\* A target that has been reached stays reached.
LEMMA ChasedStays ==
    ASSUME PlainInvs, total_runs' \in Nat, total_runs' >= total_runs,
           UNCHANGED target, Chased
    PROVE  Chased'
BY TargetAssumption DEF PlainInvs, IInv, TypeOK, BoardTypeOK, Chased

LEMMA JoinStep ==
    ASSUME PlainInvs, BeforeFirstWicket', ScoreInv, [Next]_vars
    PROVE  JoinInv'
<1> USE DEF PlainInvs, ScoreInv
<1>0. TypeOK /\ ThreadTypeOK
    BY DEF IInv, TypeOK
<1>1. \A u \in Threads : bat[u] \in {"unborn", "done"} => bat'[u] = bat[u]
    BY PlainSteps, ServiceSteps, BatsmanSteps DEF IInv
<1>2. SpawnedOnce'
    BY <1>1 DEF JoinInv, SpawnedOnce
<1>3. CASE JoinBatsman
  <2>1. /\ engine = "joinBatsmen" /\ engine' = engine /\ bat' = bat
        /\ joining \in Batsmen /\ joining' = joining + 1
        /\ thread_id' = [thread_id EXCEPT ![joining] = 0]
        /\ thread_id[joining] # 0 => bat[<<joining, thread_id[joining]>>] = "done"
    BY <1>3 DEF JoinBatsman
  <2>2. ASSUME NEW t \in Threads, bat'[t] \notin {"unborn", "done"}
        PROVE  thread_id'[Player(t)] = 1
    <3>1. t[2] = 1 /\ thread_id[Player(t)] = 1
      BY <2>1, <2>2 DEF JoinInv, SpawnedOnce
    <3>2. t = <<Player(t), t[2]>> /\ Player(t) \in Batsmen
      BY DEF Threads, Player
    <3>3. Player(t) # joining
      BY <2>1, <2>2, <3>1, <3>2
    <3> QED
      BY <1>0, <2>1, <3>1, <3>2, <3>3 DEF ThreadTypeOK
  <2>3. \A b \in Batsmen : b < joining' => thread_id'[b] = 0
    BY <1>0, <2>1 DEF JoinInv, ThreadTypeOK, Batsmen
  <2> QED
    BY <1>2, <2>1, <2>2, <2>3 DEF JoinInv, Batsmen
<1>4. CASE RaiseFlags \/ JoinUmpire
  <2>1. UNCHANGED thread_id
    BY <1>4, Zenon DEF RaiseFlags, JoinUmpire
  <2>2. /\ engine' = "joinBatsmen" => joining' = 1
        /\ engine' = "done" => engine = "joinBatsmen" /\ joining = NB + 1
    BY <1>4 DEF RaiseFlags, JoinUmpire
  <2>3. \A b \in Batsmen : b >= 1 /\ b < NB + 1
    BY BatsmenAssumption DEF Batsmen
  <2> QED
    BY <1>1, <1>2, <2>1, <2>2, <2>3, BatsmenAssumption DEF JoinInv, Batsmen
<1>5. CASE UNCHANGED <<thread_id, joining>> /\ engine' \notin {"joinBatsmen", "done"}
    BY <1>1, <1>5, <1>2 DEF JoinInv
<1>6. CASE UNCHANGED <<thread_id, joining, engine>>
    BY <1>1, <1>6, <1>2 DEF JoinInv
<1>7. CASE PassStriker \/ (PlainEngine /\ ~JoinBatsman /\ ~RaiseFlags /\ ~JoinUmpire)
  <2>1. UNCHANGED <<thread_id, joining>>
    BY <1>7, Zenon DEF PassStriker, PlainEngine, StartOver, ResetFlags,
        SpawnBowler, JoinBowler, SwapEnds, WakeAfterSwap, FinishInnings, WakeAtEnd
  <2>2. engine' \notin {"joinBatsmen", "done"}
    BY <1>7 DEF PassStriker, PlainEngine, StartOver, ResetFlags,
        SpawnBowler, JoinBowler, SwapEnds, WakeAfterSwap, FinishInnings, WakeAtEnd
  <2> QED
    BY <1>5, <2>1, <2>2
<1>8. CASE Bowler \/ (Umpire /\ PlainUmpire) \/ UNCHANGED vars
    BY <1>6, <1>8, Zenon DEF Bowler, Deliver, BowlerDone, SleepForStroke,
        AckStroke, CountBall, PlainUmpire, DetectDeadlock, EndMatch, WakeGateAtEnd,
        RaiseFlagsAtEnd, UmpireDone
<1> QED
    BY <1>3, <1>4, <1>6, <1>7, <1>8, PlainSteps, BatsmanSteps DEF IInv

LEMMA BatsmanKeepsOver ==
    ASSUME PlainInvs, BeforeFirstWicket', ScoreInv, NEW t \in Threads, PlainBatsman(t)
    PROVE  EndsTaken' /\ OverInv'
<1> USE DEF PlainInvs, ScoreInv
<1>0. TypeOK /\ BoardTypeOK /\ ThreadTypeOK
    BY DEF IInv, TypeOK
<1>1. /\ UNCHANGED <<match_over, target, engine, current_over, legal_balls>>
      /\ bowler' = bowler \/ bowler' = WakeBowler(bowler)
      /\ PitchEmpty => PitchEmpty' \/ TakeDelivery(t)
      /\ \/ UNCHANGED <<total_runs, current_ball, striker_id, non_striker_id>>
         \/ ScoreRuns(t) \/ Cross(t) \/ SwapOnOddRuns(t)
    BY BatsmanSteps
<1>2. bowler' = bowler \/ (bowler = "asleep" /\ bowler' = "wait")
    BY <1>1 DEF WakeBowler
<1>3. TakeDelivery(t) => ~match_over /\ current_over > 0
  <2>1. TakeDelivery(t) => ~match_over /\ delivery_ready
    BY Zenon DEF TakeDelivery, MustLeave
  <2>2. ~match_over /\ delivery_ready => engine = "join"
    BY DEF LockInv, HandOver
  <2> QED
    BY <2>1, <2>2 DEF OverInv, Closing
<1>4. ScoreRuns(t) /\ ~Chased =>
          ~match_over /\ bowler \in {"wait", "asleep"} /\ engine = "join"
  <2>1. ScoreRuns(t) => ~PitchEmpty
    BY DEF ScoreRuns, PitchEmpty, AtPlay
  <2>2. ~PitchEmpty /\ ~Chased => ~match_over
    BY DEF OverInv
  <2>3. ~PitchEmpty /\ ~match_over => bowler \in {"wait", "asleep"} /\ engine = "join"
    BY DEF LockInv, HandOver
  <2> QED
    BY <2>1, <2>2, <2>3
<1>5. total_runs' \in Nat /\ total_runs' >= total_runs
  <2>1. Cross(t) \/ SwapOnOddRuns(t) => UNCHANGED total_runs
    BY Zenon DEF Cross, SwapOnOddRuns
  <2>2. ScoreRuns(t) => \E o : total_runs' = total_runs + RunsOf(o)
    BY Zenon DEF ScoreRuns
  <2> QED
    BY <1>0, <1>1, <2>1, <2>2, RunsOfType DEF BoardTypeOK
<1>6. Chased => Chased'
    BY <1>1, <1>5, ChasedStays
<1>7. EndsTaken'
  <2>1. ScoreRuns(t) \/ Cross(t) => UNCHANGED <<striker_id, non_striker_id>>
    BY Zenon DEF ScoreRuns, Cross
  <2>2. SwapOnOddRuns(t) => striker_id' = non_striker_id /\ non_striker_id' = striker_id
    BY DEF SwapOnOddRuns
  <2> QED
    BY <1>1, <2>1, <2>2 DEF EndsTaken
<1>8. Cross(t) \/ SwapOnOddRuns(t) => UNCHANGED current_ball
    BY Zenon DEF Cross, SwapOnOddRuns
<1>9. OverInv'
  <2>1. engine' \notin {"over"} \cup Closing => current_over' > 0
    BY <1>1 DEF OverInv, Closing
  <2>2. ~PitchEmpty' => current_over' > 0
    BY <1>1, <1>3 DEF OverInv
  <2>3. engine' # "join" => bowler' = "idle"
    BY <1>1, <1>2 DEF OverInv
  <2>4. match_over' => Chased' \/ (engine' \in Closing /\ PitchEmpty')
    BY <1>1, <1>3, <1>6 DEF OverInv, Closing
  <2>5. engine' \in Closing => match_over'
    BY <1>1 DEF OverInv, Closing
  <2>6. ~Chased' =>
          /\ bowler' = "bowl" => legal_balls' <= BallsPerOver
          /\ bowler' \in {"wait", "asleep", "count"} => legal_balls' < BallsPerOver
          /\ bowler' = "done" \/ engine' = "swap" => current_ball' = BallsPerOver
    BY <1>1, <1>2, <1>4, <1>6, <1>8 DEF OverInv
  <2> QED
    BY <2>1, <2>2, <2>3, <2>4, <2>5, <2>6, Zenon DEF OverInv
<1> QED
    BY <1>7, <1>9

LEMMA ServiceKeepsOver ==
    ASSUME PlainInvs, ScoreInv,
           \/ Engine /\ (PlainEngine \/ PassStriker)
           \/ Bowler
           \/ Umpire /\ PlainUmpire
    PROVE  EndsTaken' /\ OverInv'
<1> USE DEF PlainInvs, ScoreInv
<1>0. TypeOK /\ BoardTypeOK /\ ThreadTypeOK
    BY DEF IInv, TypeOK
<1>1. UNCHANGED <<wickets, total_runs, target>> /\ (PitchEmpty' <=> PitchEmpty)
    BY ServiceSteps
<1>2. Chased' <=> Chased
    BY <1>1 DEF Chased
<1>3. ~AllOut
    BY <1>0, OversAssumption DEF AllOut
<1> HIDE DEF PitchEmpty
<1>4. CASE StartOver
  <2>1. UNCHANGED <<match_over, bowler, endVars>>
    BY <1>4, Zenon DEF StartOver
  <2>2. /\ engine = "over" /\ engine' = "flags"
        /\ current_over' = current_over + 1
    BY <1>4 DEF StartOver
  <2>3. bowler = "idle" /\ (match_over => Chased)
    BY <2>2 DEF OverInv, Closing
  <2>4. current_over' > 0
    BY <1>0, <2>2 DEF BoardTypeOK
  <2> QED
    BY <1>1, <1>2, <2>1, <2>2, <2>3, <2>4 DEF OverInv, EndsTaken, Closing
<1>5. CASE ResetFlags \/ PassStriker \/ SpawnBowler
  <2>1. UNCHANGED <<match_over, current_over, endVars, current_ball>>
    BY <1>5, Zenon DEF ResetFlags, PassStriker, SpawnBowler
  <2>2. /\ engine \in {"flags", "striker", "bowler"}
        /\ \/ engine' \in {"striker", "bowler"} /\ bowler' = bowler
           \/ engine' = "join" /\ bowler' = "bowl" /\ legal_balls' = 0
    BY <1>5 DEF ResetFlags, PassStriker, SpawnBowler
  <2> QED
    BY <1>0, <1>1, <1>2, <2>1, <2>2, OversAssumption DEF OverInv, EndsTaken, Closing
<1>6. CASE JoinBowler
  <2>1. UNCHANGED <<match_over, current_over, endVars, current_ball>>
    BY <1>6, Zenon DEF JoinBowler
  <2>2. engine = "join" /\ bowler = "done" /\ engine' = "swap" /\ bowler' = "idle"
    BY <1>6 DEF JoinBowler
  <2> QED
    BY <1>1, <1>2, <2>1, <2>2 DEF OverInv, EndsTaken, Closing
<1>7. CASE SwapEnds \/ WakeAfterSwap
  <2>1. UNCHANGED <<match_over, current_over, bowler>>
    BY <1>7, Zenon DEF SwapEnds, WakeAfterSwap
  <2>2. engine \in {"swap", "wakeSwap"} /\ engine' \in {"over", "wakeSwap"}
    BY <1>7 DEF SwapEnds, WakeAfterSwap
  <2>3. EndsTaken'
    BY <1>7 DEF SwapEnds, WakeAfterSwap, EndsTaken
  <2> QED
    BY <1>1, <1>2, <2>1, <2>2, <2>3 DEF OverInv, Closing
<1>8. CASE FinishInnings
  <2>1. UNCHANGED <<current_over, endVars, bowler>>
    BY <1>8, Zenon DEF FinishInnings
  <2>2. engine = "over" /\ engine' = "wakeEnd"
    BY <1>8 DEF FinishInnings
  <2>3. match_over'
    BY <1>8, Zenon DEF FinishInnings
  <2>4. bowler = "idle"
    BY <2>2 DEF OverInv
  <2>5. Chased \/ ~match_over
    BY <2>2 DEF OverInv, Closing
  <2>6. ~match_over => PitchEmpty
    BY <2>4 DEF LockInv, HandOver
  <2> QED
    BY <1>1, <1>2, <2>1, <2>2, <2>3, <2>4, <2>5, <2>6 DEF OverInv, EndsTaken, Closing
<1>9. CASE WakeAtEnd \/ RaiseFlags \/ JoinBatsman \/ JoinUmpire
  <2>1. UNCHANGED <<match_over, current_over, endVars>>
    BY <1>9, Zenon DEF WakeAtEnd, RaiseFlags, JoinBatsman, JoinUmpire
  <2>2. engine \in Closing /\ engine' \in Closing
    BY <1>9 DEF WakeAtEnd, RaiseFlags, JoinBatsman, JoinUmpire, Closing
  <2>3. bowler' = bowler \/ bowler' = WakeBowler(bowler)
    BY <1>9, Zenon DEF WakeAtEnd, RaiseFlags, JoinBatsman, JoinUmpire, ReleaseBowler
  <2> QED
    BY <1>1, <1>2, <2>1, <2>2, <2>3 DEF OverInv, EndsTaken, Closing, WakeBowler
<1>10. CASE Bowler
  <2>1. UNCHANGED <<match_over, current_over, endVars, engine, current_ball>>
    BY <1>10, Zenon DEF Bowler, Deliver, BowlerDone, SleepForStroke, AckStroke,
        CountBall
  <2>2. bowler \in {"bowl", "wait", "count"}
    BY <1>10 DEF Bowler, Deliver, BowlerDone, SleepForStroke, AckStroke, CountBall
  <2>3. engine = "join"
    BY <2>2 DEF OverInv
  <2>4. ~Chased => ~match_over
    BY <2>3 DEF OverInv, Closing
  <2>5. ASSUME ~Chased
        PROVE  /\ bowler' = "bowl" => legal_balls' <= BallsPerOver
               /\ bowler' \in {"wait", "asleep", "count"} => legal_balls' < BallsPerOver
               /\ bowler' = "done" => current_ball' = BallsPerOver
    <3>1. CASE Deliver
      BY <3>1, <2>4, <2>5 DEF Deliver, MoreBalls
    <3>2. CASE BowlerDone
      <4>1. legal_balls >= BallsPerOver /\ bowler = "bowl" /\ bowler' = "done"
        BY <1>0, <3>2, <2>4, <2>5, OversAssumption DEF BowlerDone, MoreBalls, BoardTypeOK
      <4>2. current_ball = legal_balls
        BY <4>1, <2>4, <2>5 DEF LockInv, Account, BooksEven
      <4> QED
        BY <1>0, <2>1, <2>5, <4>1, <4>2, OversAssumption DEF OverInv, BoardTypeOK
    <3>3. CASE SleepForStroke \/ AckStroke
      BY <3>3, <2>5 DEF SleepForStroke, AckStroke, OverInv
    <3>4. CASE CountBall
      BY <1>0, <3>4, <2>5, OversAssumption DEF CountBall, OverInv, BoardTypeOK
    <3> QED
      BY <1>10, <3>1, <3>2, <3>3, <3>4 DEF Bowler
  <2> QED
    BY <1>1, <1>2, <2>1, <2>3, <2>4, <2>5 DEF OverInv, EndsTaken, Closing
<1>11. CASE PlainUmpire
  <2>1. UNCHANGED <<current_over, endVars, engine, current_ball, legal_balls>>
    BY <1>11, Zenon DEF PlainUmpire, DetectDeadlock, EndMatch, WakeGateAtEnd,
        RaiseFlagsAtEnd,
        UmpireDone
  <2>2. bowler' = bowler \/ bowler' = WakeBowler(bowler)
    BY <1>11, Zenon DEF PlainUmpire, DetectDeadlock, EndMatch, WakeGateAtEnd,
        RaiseFlagsAtEnd,
        UmpireDone, ReleaseBowler
  <2>3. UNCHANGED match_over \/ (match_over' /\ Chased)
    BY <1>3, <1>11, Zenon DEF PlainUmpire, EndMatch, MatchEnd, DetectDeadlock, WakeGateAtEnd,
        RaiseFlagsAtEnd, UmpireDone
  <2>4. bowler' = bowler \/ (bowler = "asleep" /\ bowler' = "wait")
    BY <2>2 DEF WakeBowler
  <2> QED
    BY <1>1, <1>2, <2>1, <2>3, <2>4 DEF OverInv, EndsTaken, Closing
<1> QED
    BY <1>4, <1>5, <1>6, <1>7, <1>8, <1>9, <1>10, <1>11 DEF PlainEngine

LEMMA SwapStep ==
    ASSUME PlainInvs, BeforeFirstWicket', ScoreInv, [Next]_vars
    PROVE  SwapInv'
<1> USE DEF PlainInvs, ScoreInv, IInv
<1>1. CASE PlayGoesOn /\ UNCHANGED stroke
    BY <1>1 DEF PlayGoesOn, SwapInv, AtPlay
<1>2. CASE \/ Engine /\ (PlainEngine \/ PassStriker)
           \/ Bowler
           \/ Umpire /\ PlainUmpire
    BY <1>1, <1>2, ServiceSteps, ServiceLetsPlay
<1>3. ASSUME NEW t \in Threads, PlainBatsman(t) PROVE SwapInv'
  <2>1. CASE Cross(t)
    <3>1. /\ bat[t] = "cross" /\ UNCHANGED stroke
          /\ \A u \in Threads \ {t} : bat'[u] = bat[u]
      BY <2>1 DEF Cross, MoveTo
    <3>2. bat'[t] = "swapEnds" => OddRuns(stroke[t])
      BY <2>1 DEF Cross, MoveTo, TypeOK, ThreadTypeOK
    <3> QED
      BY <3>1, <3>2 DEF SwapInv
  <2>2. CASE ~Cross(t)
    <3>1. bat'[t] # "swapEnds"
      BY <1>3, <2>2 DEF PlainBatsman, EnterCrease, AwaitStrike,
        SleepForDelivery, AbandonDelivery, PutBackDelivery, TakeDelivery,
        ScoreRuns, PostResult, SwapOnOddRuns, WakeEnds, SecondToken, Leave,
        LastToken, PostCrease, MoveTo, Wake, WakeGate, WakeDelivery, TypeOK,
        ThreadTypeOK
    <3>2. UNCHANGED stroke \/ ScoreRuns(t) \/ SecondToken(t)
      BY <1>3, <2>2, Zenon DEF PlainBatsman, EnterCrease, AwaitStrike,
        SleepForDelivery, AbandonDelivery, PutBackDelivery, TakeDelivery,
        PostResult, SwapOnOddRuns, WakeEnds, Leave, LastToken, PostCrease
    <3>3. \A u \in Threads \ {t} : stroke'[u] = stroke[u]
      BY <3>2 DEF ScoreRuns, SecondToken, TypeOK, BoardTypeOK
    <3>4. \/ \E pc : bat' = [bat EXCEPT ![t] = pc]
          \/ bat' = [WakeDelivery(bat) EXCEPT ![t] = "gate"]
          \/ bat' = [WakeGate(bat) EXCEPT ![t] = "secondToken"]
      BY <1>3, <2>2, Zenon DEF PlainBatsman, EnterCrease, AwaitStrike,
        SleepForDelivery, AbandonDelivery, PutBackDelivery, TakeDelivery,
        ScoreRuns, PostResult, SwapOnOddRuns, WakeEnds, SecondToken, Leave,
        LastToken, PostCrease, MoveTo
    <3>5. \A u \in Threads \ {t} : bat'[u] = "swapEnds" => bat[u] = "swapEnds"
      BY <3>4 DEF Wake, WakeGate, WakeDelivery, TypeOK, ThreadTypeOK
    <3> QED
      BY <3>1, <3>3, <3>5 DEF SwapInv
  <2> QED
    BY <2>1, <2>2
<1>4. CASE UNCHANGED vars
    BY <1>4 DEF SwapInv
<1> QED
    BY <1>2, <1>3, <1>4, PlainSteps

LEMMA ScoreStep ==
    ASSUME PlainInvs, BeforeFirstWicket', ScoreInv, [Next]_vars
    PROVE  ScoreInv'
<1>1. CASE UNCHANGED vars
    BY <1>1 DEF ScoreInv, EndsTaken, OverInv, JoinInv, SpawnedOnce, SwapInv,
       PitchEmpty, Chased
<1>2. JoinInv' /\ SwapInv'
    BY JoinStep, SwapStep
<1>3. CASE \/ Engine /\ (PlainEngine \/ PassStriker)
           \/ Bowler
           \/ Umpire /\ PlainUmpire
  <2>1. UNCHANGED wickets /\ EndsTaken' /\ OverInv'
    BY <1>3, ServiceSteps, ServiceKeepsOver
  <2> QED
    BY <1>2, <2>1 DEF ScoreInv
<1>4. ASSUME NEW t \in Threads, PlainBatsman(t) PROVE ScoreInv'
  <2>1. UNCHANGED wickets /\ EndsTaken' /\ OverInv'
    BY <1>4, BatsmanSteps, BatsmanKeepsOver
  <2> QED
    BY <1>2, <2>1 DEF ScoreInv
<1> QED
    BY <1>1, <1>3, <1>4, PlainSteps, Zenon DEF PlainInvs

\* Until the first wicket.
Unbeaten == BeforeFirstWicket => PlainInvs /\ ScoreInv

LEMMA ScoreHolds == Spec => [](IInv /\ Unbeaten)
<1>1. Init => IInv /\ Unbeaten
    BY InitiallyInv, InitiallyInLock, InitialScore DEF Unbeaten, PlainInvs
<1>2. IInv /\ Unbeaten /\ [Next]_vars => (IInv /\ Unbeaten)'
    BY InvStep, OutIsForGood, PlainStep, LockStep, ScoreStep DEF Unbeaten, PlainInvs
<1> QED
    BY <1>1, <1>2, PTL DEF Spec

\* Until the first wicket no over is short: a bowler who goes has bowled all
\* his legal balls, unless the target has been reached.
THEOREM OversAreComplete ==
    Spec => [](BeforeFirstWicket => OverIsComplete \/ Chased)
<1>1. IInv /\ Unbeaten => (BeforeFirstWicket => OverIsComplete \/ Chased)
    BY DEF Unbeaten, ScoreInv, OverInv, OverIsComplete
<1> QED
    BY <1>1, ScoreHolds, PTL

\* Until the first wicket nobody is left behind: run_innings has joined every
\* thread it has spawned when it returns.
THEOREM EveryThreadIsJoined ==
    Spec => [](BeforeFirstWicket => NoThreadLeaks)
<1>1. PlainInvs /\ ScoreInv => NoThreadLeaks
  <2>1. \A t \in Threads : Player(t) \in Batsmen
    BY DEF Threads, Player
  <2> QED
    BY <2>1 DEF ScoreInv, JoinInv, NoThreadLeaks
<1>2. IInv /\ Unbeaten => (BeforeFirstWicket => NoThreadLeaks)
    BY <1>1 DEF Unbeaten
<1> QED
    BY <1>2, ScoreHolds, PTL

-----------------------------------------------------------------------------
(* The scorer.                                                             *)

\* The batsmen as the scorer sees them.
Facing   == IF Crossing THEN non_striker_id ELSE striker_id
Standing == IF Crossing THEN striker_id ELSE non_striker_id
Phase ==
    CASE engine \in {"over", "wakeSwap"} -> "between"
      [] engine \in {"wakeEnd", "raiseFlags", "joinBatsmen", "done"} -> "closed"
      [] OTHER -> "over"

LEMMA SameBook ==
    ASSUME UNCHANGED <<target, current_over, current_ball, total_runs, Facing,
                       Standing, Phase>>
    PROVE  UNCHANGED Scorer!book
BY DEF Scorer!book, Facing, Standing, Phase

\* A ball in play makes its thread the only one that may be crossing.
LEMMA OnlyCrossing ==
    ASSUME PlainInvs, NEW t \in Threads, bat[t] \in AtPlay
    PROVE  Crossing <=> bat[t] \in Across /\ OddRuns(stroke[t])
BY DEF PlainInvs, LockInv, OneBall, AtPlay, Across, Crossing

\* A ball in play when the match is over follows a target that was reached.
LEMMA LateMeansWon ==
    ASSUME ScoreInv, NEW t \in Threads, bat[t] \in AtPlay, match_over
    PROVE  Scorer!Won
BY DEF ScoreInv, OverInv, PitchEmpty, Chased, Scorer!Won

LEMMA BallInBook ==
    ASSUME PlainInvs, BeforeFirstWicket', ScoreInv, ScoreInv', NEW t \in Threads,
           ScoreRuns(t)
    PROVE  Scorer!Next
<1> USE DEF PlainInvs, ScoreInv
<1>0. TypeOK /\ BoardTypeOK /\ ThreadTypeOK
    BY DEF IInv, TypeOK
<1>1. PICK o \in Outcomes \ Dismissals :
          /\ total_runs' = total_runs + RunsOf(o)
          /\ current_ball' = IF o \in Extras THEN current_ball
                                             ELSE current_ball + 1
          /\ stroke' = [stroke EXCEPT ![t] = o]
    BY DEF ScoreRuns
<1>2. /\ bat[t] = "stroke" /\ bat' = [bat EXCEPT ![t] = "result"]
      /\ UNCHANGED <<target, current_over, engine, striker_id, non_striker_id>>
    BY DEF ScoreRuns, MoveTo
<1>3. ~Crossing
    BY <1>2, OnlyCrossing DEF AtPlay, Across
<1>4. \A u \in Threads \ {t} : bat[u] \notin AtPlay
    BY <1>2 DEF LockInv, OneBall, AtPlay
<1>5. Crossing' <=> OddRuns(o)
    BY <1>0, <1>1, <1>2, <1>4 DEF Crossing, AtPlay, BoardTypeOK, ThreadTypeOK
<1>6. /\ Facing = striker_id /\ Standing = non_striker_id
      /\ Facing' = IF OddRuns(o) THEN Standing ELSE Facing
      /\ Standing' = IF OddRuns(o) THEN Facing ELSE Standing
      /\ Phase' = Phase
    BY <1>2, <1>3, <1>5 DEF Facing, Standing, Phase
<1>7. CASE Chased
  <2>1. RunsOf(o) \in {RunsOf(x) : x \in Outcomes \ Extras} \cup {0, 1}
    BY DEF RunsOf, Extras
  <2>2. Facing' \in {1, 2} /\ {Facing', Standing'} = {1, 2}
    BY DEF EndsTaken, Facing, Standing
  <2>3. Scorer!LateBall
    BY <1>1, <1>2, <1>6, <1>7, <2>1, <2>2
    DEF Scorer!LateBall, Scorer!Won, Chased, Facing, Standing, Phase
  <2> QED
    BY <2>3 DEF Scorer!Next
<1>8. CASE ~Chased
  <2>1. ~PitchEmpty
    BY <1>2 DEF PitchEmpty, AtPlay
  <2>2. ~match_over
    BY <1>8, <2>1 DEF OverInv
  <2>3. bowler \in {"wait", "asleep"} /\ engine = "join"
    BY <2>1, <2>2 DEF LockInv, HandOver
  <2>4. current_ball = legal_balls
    BY <1>2, <2>2 DEF LockInv, Account, BooksEven
  <2>5. current_ball < BallsPerOver
    BY <1>8, <2>3, <2>4 DEF OverInv
  <2>6. Phase = "over"
    BY <2>3 DEF Phase
  <2>7. CASE o \in Extras
    <3>1. RunsOf(o) = 1 /\ ~OddRuns(o)
      BY <2>7 DEF RunsOf, OddRuns, Extras
    <3>2. Scorer!ExtraBall
      BY <1>1, <1>2, <1>6, <1>8, <2>5, <2>6, <2>7, <3>1
      DEF Scorer!ExtraBall, Scorer!Won, Chased, Facing, Standing, Phase
    <3> QED
      BY <3>2 DEF Scorer!Next
  <2>8. CASE o \notin Extras
    <3>1. OddRuns(o) <=> RunsOf(o) % 2 = 1
      BY <2>8 DEF OddRuns
    <3>2. Scorer!LegalBall(RunsOf(o))
      BY <1>1, <1>2, <1>6, <1>8, <2>5, <2>6, <2>8, <3>1
      DEF Scorer!LegalBall, Scorer!Won, Chased, Facing, Standing, Phase
    <3>3. RunsOf(o) \in {RunsOf(x) : x \in Outcomes \ Extras}
      BY <2>8
    <3> QED
      BY <3>2, <3>3 DEF Scorer!Next
  <2> QED
    BY <2>7, <2>8
<1> QED
    BY <1>7, <1>8

LEMMA BatsmanInBook ==
    ASSUME PlainInvs, BeforeFirstWicket', ScoreInv, ScoreInv', NEW t \in Threads,
           PlainBatsman(t)
    PROVE  Scorer!Next \/ UNCHANGED Scorer!book
<1> USE DEF PlainInvs, ScoreInv
<1>0. TypeOK /\ BoardTypeOK /\ ThreadTypeOK
    BY DEF IInv, TypeOK
<1>1. UNCHANGED <<target, current_over, Phase>>
    BY BatsmanSteps DEF Phase
<1>2. CASE ScoreRuns(t)
    BY <1>2, BallInBook
<1>3. CASE UNCHANGED <<total_runs, current_ball, striker_id, non_striker_id>>
           /\ (Crossing' <=> Crossing)
    BY <1>1, <1>3, SameBook DEF Facing, Standing
<1>4. CASE Cross(t)
  <2>1. /\ bat[t] = "cross" /\ bat[t] \in AtPlay
        /\ UNCHANGED <<stroke, total_runs, current_ball, striker_id, non_striker_id>>
        /\ \A u \in Threads \ {t} : bat'[u] = bat[u]
    BY <1>4 DEF Cross, MoveTo, AtPlay
  <2>2. Crossing <=> OddRuns(stroke[t])
    BY <2>1, OnlyCrossing DEF Across
  <2>3. \A u \in Threads \ {t} : bat[u] \notin AtPlay
    BY <2>1 DEF LockInv, OneBall
  <2>4. CASE match_over
    <3>1. Scorer!Won
      BY <2>1, <2>4, LateMeansWon
    <3>2. Facing' \in {1, 2} /\ {Facing', Standing'} = {1, 2}
      BY DEF EndsTaken, Facing, Standing
    <3>3. total_runs' = total_runs + 0
      BY <1>0, <2>1 DEF BoardTypeOK
    <3>4. Scorer!LateBall
      BY <1>1, <2>1, <3>1, <3>2, <3>3
      DEF Scorer!LateBall, Facing, Standing, Phase
    <3> QED
      BY <3>4 DEF Scorer!Next
  <2>5. CASE ~match_over
    <3>1. ~MustLeave(t)
      BY <2>5, PlayerIsBatsman DEF MustLeave, PlainInv, BeforeFirstWicket
    <3>2. bat' = [bat EXCEPT ![t] = IF OddRuns(stroke[t]) THEN "swapEnds"
                                                          ELSE "wakeEnds"]
      BY <1>4, <3>1 DEF Cross, MoveTo
    <3>3. Crossing' <=> OddRuns(stroke[t])
      BY <1>0, <2>1, <2>3, <3>2 DEF Crossing, AtPlay, ThreadTypeOK
    <3> QED
      BY <1>3, <2>1, <2>2, <3>3
  <2> QED
    BY <2>4, <2>5
<1>5. CASE SwapOnOddRuns(t)
  <2>1. /\ bat[t] = "swapEnds" /\ bat[t] \in AtPlay
        /\ bat' = [bat EXCEPT ![t] = "wakeEnds"]
        /\ UNCHANGED <<stroke, total_runs, current_ball>>
        /\ striker_id' = non_striker_id /\ non_striker_id' = striker_id
    BY <1>5 DEF SwapOnOddRuns, MoveTo, AtPlay
  <2>2. Crossing
    BY <2>1, OnlyCrossing DEF Across, SwapInv
  <2>3. \A u \in Threads \ {t} : bat[u] \notin AtPlay
    BY <2>1 DEF LockInv, OneBall
  <2>4. ~Crossing'
    BY <1>0, <2>1, <2>3 DEF Crossing, AtPlay, ThreadTypeOK
  <2>5. UNCHANGED <<Facing, Standing>>
    BY <2>1, <2>2, <2>4 DEF Facing, Standing
  <2> QED
    BY <1>1, <2>1, <2>5, SameBook
<1> QED
    BY <1>2, <1>3, <1>4, <1>5, BatsmanSteps

LEMMA ServiceInBook ==
    ASSUME PlainInvs, ScoreInv,
           \/ Engine /\ (PlainEngine \/ PassStriker)
           \/ Bowler
           \/ Umpire /\ PlainUmpire
    PROVE  Scorer!Next \/ UNCHANGED Scorer!book
<1> USE DEF PlainInvs, ScoreInv
<1>0. TypeOK /\ BoardTypeOK /\ ThreadTypeOK
    BY DEF IInv, TypeOK
<1>1. UNCHANGED <<total_runs, target>> /\ (Crossing' <=> Crossing)
    BY ServiceSteps
<1>2. UNCHANGED <<striker_id, non_striker_id>> => UNCHANGED <<Facing, Standing>>
    BY <1>1 DEF Facing, Standing
<1>3. InningsOver <=> match_over \/ Chased
    BY <1>0, OversAssumption DEF InningsOver, AllOut
<1>4. CASE StartOver
  <2>1. /\ engine = "over" /\ engine' = "flags" /\ current_over < Overs
        /\ current_over' = current_over + 1 /\ current_ball' = 0 /\ ~Chased
        /\ UNCHANGED <<striker_id, non_striker_id>>
    BY <1>3, <1>4 DEF StartOver, OversLeft
  <2>2. Scorer!StartOver
    BY <1>1, <1>2, <2>1 DEF Scorer!StartOver, Scorer!Won, Chased, Facing, Standing
  <2> QED
    BY <2>2 DEF Scorer!Next
<1>5. CASE SwapEnds
  <2>1. engine = "swap" /\ UNCHANGED <<match_over, current_over, current_ball>>
    BY <1>5 DEF SwapEnds
  <2>2. match_over => Chased
    BY <2>1 DEF OverInv, Closing
  <2>3. CASE Chased
    <3>1. engine' = "over" /\ UNCHANGED <<striker_id, non_striker_id>>
      BY <1>3, <1>5, <2>3 DEF SwapEnds
    <3>2. Scorer!CallOff
      BY <1>1, <1>2, <2>1, <2>3, <3>1
      DEF Scorer!CallOff, Scorer!Won, Chased, Facing, Standing
    <3> QED
      BY <3>2 DEF Scorer!Next
  <2>4. CASE ~Chased
    <3>1. /\ engine' = "wakeSwap"
          /\ striker_id' = non_striker_id /\ non_striker_id' = striker_id
      BY <1>3, <1>5, <2>2, <2>4 DEF SwapEnds
    <3>2. bowler = "idle" /\ current_ball = BallsPerOver
      BY <2>1, <2>4 DEF OverInv
    <3>3. PitchEmpty
      BY <2>2, <2>4, <3>2 DEF LockInv, HandOver
    <3>4. ~Crossing
      BY <3>3 DEF PitchEmpty, Crossing, AtPlay
    <3>5. Facing' = Standing /\ Standing' = Facing
      BY <1>1, <3>1, <3>4 DEF Facing, Standing
    <3>6. Scorer!EndOver
      BY <1>1, <2>1, <2>4, <3>1, <3>2, <3>5
      DEF Scorer!EndOver, Scorer!Won, Chased, Facing, Standing
    <3> QED
      BY <3>6 DEF Scorer!Next
  <2> QED
    BY <2>3, <2>4
<1>6. CASE FinishInnings
  <2>1. /\ engine = "over" /\ engine' = "wakeEnd"
        /\ current_over >= Overs \/ Chased
        /\ UNCHANGED <<current_over, current_ball, striker_id, non_striker_id>>
    BY <1>0, <1>3, <1>6, OversAssumption
    DEF FinishInnings, OversLeft, OverInv, Closing, BoardTypeOK
  <2>2. current_over = Overs \/ Chased
    BY <1>0, <2>1, OversAssumption DEF BoardTypeOK
  <2>3. Scorer!Close
    BY <1>1, <1>2, <2>1, <2>2 DEF Scorer!Close, Scorer!Won, Chased, Facing, Standing
  <2> QED
    BY <2>3 DEF Scorer!Next
<1>7. CASE \/ ResetFlags \/ PassStriker \/ SpawnBowler \/ JoinBowler
           \/ WakeAfterSwap \/ WakeAtEnd \/ RaiseFlags \/ JoinBatsman \/ JoinUmpire
           \/ Bowler \/ PlainUmpire
  <2>1. UNCHANGED <<current_over, current_ball, striker_id, non_striker_id>>
    BY <1>7, Zenon DEF ResetFlags, PassStriker, SpawnBowler, JoinBowler,
        WakeAfterSwap, WakeAtEnd, RaiseFlags, JoinBatsman, JoinUmpire, Bowler,
        Deliver, BowlerDone, SleepForStroke, AckStroke, CountBall, PlainUmpire,
        DetectDeadlock, EndMatch, WakeGateAtEnd,
        RaiseFlagsAtEnd, UmpireDone
  <2>2. UNCHANGED Phase
    BY <1>7 DEF ResetFlags, PassStriker, SpawnBowler, JoinBowler,
        WakeAfterSwap, WakeAtEnd, RaiseFlags, JoinBatsman, JoinUmpire, Bowler,
        Deliver, BowlerDone, SleepForStroke, AckStroke, CountBall, PlainUmpire,
        DetectDeadlock, EndMatch, WakeGateAtEnd,
        RaiseFlagsAtEnd, UmpireDone, Phase
  <2> QED
    BY <1>1, <1>2, <2>1, <2>2, SameBook
<1> QED
    BY <1>4, <1>5, <1>6, <1>7, Zenon DEF PlainEngine

LEMMA BookStep ==
    ASSUME PlainInvs, BeforeFirstWicket', ScoreInv, [Next]_vars
    PROVE  [Scorer!Next]_(Scorer!book)
<1>1. ScoreInv'
    BY ScoreStep
<1>2. CASE UNCHANGED vars
    BY <1>2, SameBook DEF Facing, Standing, Phase, Crossing
<1> QED
    BY <1>1, <1>2, BatsmanInBook, ServiceInBook, PlainSteps, Zenon DEF PlainInvs

\* As long as no wicket falls the threads of an innings keep the book a scorer
\* would keep: the detailed innings implements Scorebook.
THEOREM TheBookIsKept ==
    Spec /\ []BeforeFirstWicket => KeepsTheBook
<1>1. Init => Scorer!Init
  <2> SUFFICES ASSUME Init PROVE Scorer!Init
    OBVIOUS
  <2>1. ~Crossing
    BY DEF Init, Crossing
  <2> QED
    BY <2>1, TargetAssumption DEF Init, Scorer!Init
<1>2. BeforeFirstWicket /\ BeforeFirstWicket' /\ Unbeaten /\ [Next]_vars
          => [Scorer!Next]_(Scorer!book)
    BY BookStep DEF Unbeaten
<1> QED
    BY <1>1, <1>2, ScoreHolds, PTL DEF Spec, KeepsTheBook, Scorer!Spec
=============================================================================
