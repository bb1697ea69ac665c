--------------------------- MODULE LockstepProofs ---------------------------
(***************************************************************************)
(* Until the first wicket of an innings the bowler and the batsmen play    *)
(* ball after ball in lockstep, for any number of batsmen, overs and       *)
(* balls, any outcomes and any target, with and without the deadlock       *)
(* simulation.                                                             *)
(***************************************************************************)
EXTENDS InningsProofs

USE DEF vars, scoreboard, dismissal, crease, endVars, play, tokens, bowlerVars,
        umpireVars, engineVars, notBatsman, notBowler, notUmpire, notEngine

\* What nobody does before the first wicket.  The umpire may have found his
\* victim.
PlainInv ==
    /\ striker_id \in Batsmen /\ non_striker_id \in Batsmen
    /\ BeforeFirstWicket
    /\ umpire \in {"poll", "victim", "wakeGate", "flags", "done"}
    /\ umpire = "victim" => runout.victim \in Batsmen
    /\ engine # "spawn"
    /\ \A t \in Threads : stroke[t] \notin Dismissals
    /\ \A t \in Threads :
          bat[t] \notin {"promote", "wakePromoted", "spawn", "firstToken",
                        "unlock", "stage"}

-----------------------------------------------------------------------------
(* The steps of such an innings.                                           *)

PlainEngine ==
    \/ StartOver \/ ResetFlags \/ SpawnBowler \/ JoinBowler \/ SwapEnds
    \/ WakeAfterSwap \/ FinishInnings \/ WakeAtEnd \/ RaiseFlags
    \/ JoinBatsman \/ JoinUmpire

\* A striker is never missing.
PassStriker ==
    /\ engine = "striker" /\ engine' = "bowler"
    /\ UNCHANGED <<match_over, bat, tokens, notEngine, endVars, thread_id,
                   legal_balls, joining, current_over>>

PlainUmpire ==
    DetectDeadlock \/ EndMatch \/ WakeGateAtEnd \/ RaiseFlagsAtEnd \/ UmpireDone

PlainBatsman(t) ==
    \/ EnterCrease(t) \/ AwaitStrike(t) \/ SleepForDelivery(t)
    \/ AbandonDelivery(t) \/ PutBackDelivery(t) \/ TakeDelivery(t)
    \/ ScoreRuns(t) \/ PostResult(t) \/ Cross(t) \/ SwapOnOddRuns(t)
    \/ WakeEnds(t) \/ SecondToken(t) \/ Leave(t) \/ LastToken(t)
    \/ PostCrease(t)

LEMMA PlainSteps ==
    ASSUME BeforeFirstWicket', IInv, PlainInv, [Next]_vars
    PROVE  \/ Engine /\ (PlainEngine \/ PassStriker)
           \/ Bowler
           \/ Umpire /\ PlainUmpire
           \/ \E t \in Threads : PlainBatsman(t)
           \/ UNCHANGED vars
<1> USE DEF IInv, TypeOK, BoardTypeOK
<1>1. CASE Engine
  <2>1. CASE AssignStriker
    <3>1. striker_id # NoPlayer
      BY DEF PlainInv, Batsmen, NoPlayer
    <3> QED
      BY <1>1, <2>1, <3>1 DEF AssignStriker, PassStriker
  <2>2. ~SpawnStriker
    BY DEF SpawnStriker, PlainInv
  <2> QED
    BY <1>1, <2>1, <2>2, Zenon DEF Engine, PlainEngine
<1>2. CASE Umpire
  <2>1. umpire \in {"poll", "victim", "wakeGate", "flags", "done"}
    BY DEF PlainInv
  <2>2. /\ ~CountRunOut /\ ~PromoteSurvivor /\ ~SendNextBatsman
        /\ ~SpawnReplacement /\ ~UmpireToken /\ ~WakeSurvivor /\ ~PollAgain
    BY <2>1 DEF CountRunOut, PromoteSurvivor, SendNextBatsman,
       SpawnReplacement, UmpireToken, WakeSurvivor, PollAgain
  <2>3. ~MarkRunOut
    <3> SUFFICES ASSUME MarkRunOut PROVE FALSE
      OBVIOUS
    <3>1. runout.victim \in Batsmen
      BY DEF MarkRunOut, PlainInv
    <3>2. is_out'[runout.victim]
      BY <3>1 DEF MarkRunOut, OrderTypeOK
    <3> QED
      BY <3>1, <3>2 DEF BeforeFirstWicket
  <2> QED
    BY <1>2, <2>2, <2>3, Zenon DEF Umpire, PlainUmpire
<1>3. ASSUME NEW t \in Threads, Batsman(t) PROVE PlainBatsman(t)
  <2>1. ~Dismiss(t)
    <3> SUFFICES ASSUME Dismiss(t) PROVE FALSE
      OBVIOUS
    <3>1. Player(t) \in Batsmen
      BY PlayerIsBatsman
    <3>2. is_out'[Player(t)]
      BY <3>1 DEF Dismiss, OrderTypeOK
    <3> QED
      BY <3>1, <3>2 DEF BeforeFirstWicket
  <2>2. bat[t] \notin {"promote", "wakePromoted", "spawn", "firstToken", "unlock",
                     "stage"}
    BY DEF PlainInv
  <2>3. /\ ~Promote(t) /\ ~WakePromoted(t) /\ ~SpawnNext(t) /\ ~FirstToken(t)
        /\ ~EndDismissal(t) /\ ~StageRunOut(t)
    BY <2>2 DEF Promote, WakePromoted, SpawnNext, FirstToken, EndDismissal,
       StageRunOut
  <2> QED
    BY <1>3, <2>1, <2>3, Zenon DEF Batsman, PlainBatsman
<1>4. CASE InningsReturned \/ UNCHANGED vars
    BY <1>4, Zenon DEF InningsReturned
<1> QED
    BY <1>1, <1>2, <1>3, <1>4, Zenon DEF Next

LEMMA PlainStep ==
    ASSUME BeforeFirstWicket', IInv, PlainInv, [Next]_vars
    PROVE  PlainInv'
<1> USE DEF IInv, TypeOK, BoardTypeOK, ThreadTypeOK
<1>2. striker_id' \in Batsmen /\ non_striker_id' \in Batsmen
  <2>1. CASE PlainEngine \/ PassStriker \/ Bowler \/ PlainUmpire
    BY <2>1 DEF PlainInv, PlainEngine, PassStriker, Bowler, PlainUmpire,
        StartOver, ResetFlags, SpawnBowler, JoinBowler, SwapEnds,
        WakeAfterSwap, FinishInnings, WakeAtEnd, RaiseFlags, JoinBatsman,
        JoinUmpire, Deliver, BowlerDone, SleepForStroke, AckStroke, CountBall,
        DetectDeadlock, EndMatch, WakeGateAtEnd, RaiseFlagsAtEnd, UmpireDone
  <2>2. ASSUME NEW t \in Threads, PlainBatsman(t)
        PROVE  striker_id' \in Batsmen /\ non_striker_id' \in Batsmen
    BY <2>2 DEF PlainInv, PlainBatsman, EnterCrease, AwaitStrike,
        SleepForDelivery, AbandonDelivery, PutBackDelivery, TakeDelivery,
        ScoreRuns, PostResult, Cross, SwapOnOddRuns, WakeEnds, SecondToken,
        Leave, LastToken, PostCrease
  <2> QED
    BY <2>1, <2>2, PlainSteps DEF PlainInv
<1>3. umpire' \in {"poll", "victim", "wakeGate", "flags", "done"}
  <2>1. CASE PlainEngine \/ PassStriker \/ Bowler \/ PlainUmpire
    BY <2>1 DEF PlainInv, PlainEngine, PassStriker, Bowler, PlainUmpire,
        StartOver, ResetFlags, SpawnBowler, JoinBowler, SwapEnds,
        WakeAfterSwap, FinishInnings, WakeAtEnd, RaiseFlags, JoinBatsman,
        JoinUmpire, Deliver, BowlerDone, SleepForStroke, AckStroke, CountBall,
        DetectDeadlock, EndMatch, WakeGateAtEnd, RaiseFlagsAtEnd, UmpireDone
  <2>2. ASSUME NEW t \in Threads, PlainBatsman(t) PROVE UNCHANGED umpire
    BY <2>2, Zenon DEF PlainBatsman, EnterCrease, AwaitStrike,
        SleepForDelivery, AbandonDelivery, PutBackDelivery, TakeDelivery,
        ScoreRuns, PostResult, Cross, SwapOnOddRuns, WakeEnds, SecondToken,
        Leave, LastToken, PostCrease
  <2> QED
    BY <2>1, <2>2, PlainSteps DEF PlainInv
<1>4. engine' # "spawn"
  <2>1. CASE PlainEngine \/ PassStriker \/ Bowler \/ PlainUmpire
    BY <2>1 DEF PlainInv, PlainEngine, PassStriker, Bowler, PlainUmpire,
        StartOver, ResetFlags, SpawnBowler, JoinBowler, SwapEnds,
        WakeAfterSwap, FinishInnings, WakeAtEnd, RaiseFlags, JoinBatsman,
        JoinUmpire, Deliver, BowlerDone, SleepForStroke, AckStroke, CountBall,
        DetectDeadlock, EndMatch, WakeGateAtEnd, RaiseFlagsAtEnd, UmpireDone
  <2>2. ASSUME NEW t \in Threads, PlainBatsman(t) PROVE UNCHANGED engine
    BY <2>2, Zenon DEF PlainBatsman, EnterCrease, AwaitStrike,
        SleepForDelivery, AbandonDelivery, PutBackDelivery, TakeDelivery,
        ScoreRuns, PostResult, Cross, SwapOnOddRuns, WakeEnds, SecondToken,
        Leave, LastToken, PostCrease
  <2> QED
    BY <2>1, <2>2, PlainSteps DEF PlainInv
<1> DEFINE Never == {"promote", "wakePromoted", "spawn", "firstToken", "unlock",
                     "stage"}
<1>5. \A u \in Threads : bat'[u] \notin Never
  <2> SUFFICES ASSUME NEW u \in Threads PROVE bat'[u] \notin Never
    OBVIOUS
  <2>0. bat[u] \notin Never
    BY DEF PlainInv
  <2>1. CASE Engine \/ Bowler \/ Umpire
    BY <2>0, <2>1, ServiceKeeps
  <2>2. ASSUME NEW t \in Threads, PlainBatsman(t) PROVE bat'[u] \notin Never
    <3>1. CASE EnterCrease(t)
      BY <3>1, <2>0 DEF EnterCrease, MoveTo
    <3>2. CASE AwaitStrike(t)
      BY <3>2, <2>0 DEF AwaitStrike, MoveTo
    <3>3. CASE SleepForDelivery(t)
      BY <3>3, <2>0 DEF SleepForDelivery, MoveTo
    <3>4. CASE AbandonDelivery(t)
      BY <3>4, <2>0 DEF AbandonDelivery, ReleaseBowler, WakeBowler, MoveTo
    <3>5. CASE PutBackDelivery(t)
      BY <3>5, <2>0 DEF PutBackDelivery, WakeDelivery, Wake, MoveTo
    <3>6. CASE TakeDelivery(t)
      BY <3>6, <2>0 DEF TakeDelivery, MoveTo
    <3>7. CASE ScoreRuns(t)
      BY <3>7, <2>0 DEF ScoreRuns, RunsOf, MoveTo
    <3>8. CASE PostResult(t)
      <4>1. bat[t] = "result"
        BY <3>8 DEF PostResult
      <4>2. stroke[t] # "RUNOUT"
        BY DEF PlainInv, Dismissals
      <4>3. bat' = [bat EXCEPT ![t] = "cross"]
        BY <3>8, <4>2 DEF PostResult, MoveTo
      <4> QED
        BY <2>0, <4>3
    <3>9. CASE Cross(t)
      BY <3>9, <2>0 DEF Cross, MoveTo
    <3>10. CASE SwapOnOddRuns(t)
      BY <3>10, <2>0 DEF SwapOnOddRuns, MoveTo
    <3>11. CASE WakeEnds(t)
      BY <3>11, <2>0 DEF WakeEnds, WakeGate, Wake, MoveTo
    <3>12. CASE SecondToken(t)
      BY <3>12, <2>0 DEF SecondToken, ReleaseBowler, WakeBowler, MoveTo
    <3>13. CASE Leave(t)
      BY <3>13, <2>0 DEF Leave, MoveTo
    <3>14. CASE LastToken(t)
      BY <3>14, <2>0 DEF LastToken, ReleaseBowler, WakeBowler, MoveTo
    <3>15. CASE PostCrease(t)
      BY <3>15, <2>0 DEF PostCrease, MoveTo
    <3> QED
      BY <3>1, <3>2, <3>3, <3>4, <3>5, <3>6, <3>7, <3>8, <3>9, <3>10, <3>11,
         <3>12, <3>13, <3>14, <3>15, <2>2 DEF PlainBatsman
  <2>3. CASE UNCHANGED vars
    BY <2>0, <2>3
  <2>4. Engine \/ Bowler \/ Umpire \/ (\E t \in Threads : PlainBatsman(t)) \/ UNCHANGED vars
    BY PlainSteps, Zenon
  <2> QED
    BY <2>1, <2>2, <2>3, <2>4
<1>6. umpire' = "victim" => runout'.victim \in Batsmen
  <2>1. CASE DetectDeadlock
    <3>1. \E bA, bB \in Batsmen : \E v \in {bA, bB} :
             runout' = [victim |-> v, survivor |-> IF v = bA THEN bB ELSE bA,
                        next |-> NoPlayer]
      BY <2>1, Zenon DEF DetectDeadlock
    <3> QED
      BY <3>1
  <2>2. CASE \/ PlainEngine \/ PassStriker \/ Bowler
             \/ EndMatch \/ WakeGateAtEnd \/ RaiseFlagsAtEnd \/ UmpireDone
    <3>1. UNCHANGED runout
      BY <2>2, Zenon DEF PlainEngine, PassStriker, Bowler,
          StartOver, ResetFlags, SpawnBowler, JoinBowler, SwapEnds,
          WakeAfterSwap, FinishInnings, WakeAtEnd, RaiseFlags, JoinBatsman,
          JoinUmpire, Deliver, BowlerDone, SleepForStroke, AckStroke, CountBall,
          EndMatch, WakeGateAtEnd, RaiseFlagsAtEnd, UmpireDone
    <3>2. umpire' = umpire \/ umpire' # "victim"
      BY <2>2 DEF PlainEngine, PassStriker, Bowler,
          StartOver, ResetFlags, SpawnBowler, JoinBowler, SwapEnds,
          WakeAfterSwap, FinishInnings, WakeAtEnd, RaiseFlags, JoinBatsman,
          JoinUmpire, Deliver, BowlerDone, SleepForStroke, AckStroke, CountBall,
          EndMatch, WakeGateAtEnd, RaiseFlagsAtEnd, UmpireDone
    <3> QED
      BY <3>1, <3>2 DEF PlainInv
  <2>3. ASSUME NEW t \in Threads, PlainBatsman(t) PROVE UNCHANGED <<umpire, runout>>
    BY <2>3, Zenon DEF PlainBatsman, EnterCrease, AwaitStrike,
        SleepForDelivery, AbandonDelivery, PutBackDelivery, TakeDelivery,
        ScoreRuns, PostResult, Cross, SwapOnOddRuns, WakeEnds, SecondToken,
        Leave, LastToken, PostCrease
  <2> QED
    BY <2>1, <2>2, <2>3, PlainSteps DEF PlainInv, PlainUmpire
<1>7. \A u \in Threads : stroke'[u] \notin Dismissals
  <2>1. PlainEngine \/ PassStriker \/ Bowler \/ PlainUmpire => UNCHANGED stroke
    BY Zenon DEF PlainEngine, PassStriker, Bowler, PlainUmpire,
        StartOver, ResetFlags, SpawnBowler, JoinBowler, SwapEnds,
        WakeAfterSwap, FinishInnings, WakeAtEnd, RaiseFlags, JoinBatsman,
        JoinUmpire, Deliver, BowlerDone, SleepForStroke, AckStroke, CountBall,
        DetectDeadlock, EndMatch, WakeGateAtEnd, RaiseFlagsAtEnd, UmpireDone
  <2>2. ASSUME NEW t \in Threads, PlainBatsman(t)
        PROVE  \/ UNCHANGED stroke
               \/ \E o : o \notin Dismissals /\ stroke' = [stroke EXCEPT ![t] = o]
    <3>1. CASE ScoreRuns(t)
      BY <3>1 DEF ScoreRuns
    <3>2. CASE SecondToken(t)
      BY <3>2 DEF SecondToken, Dismissals
    <3> QED
      BY <2>2, <3>1, <3>2, Zenon DEF PlainBatsman, EnterCrease, AwaitStrike,
          SleepForDelivery, AbandonDelivery, PutBackDelivery, TakeDelivery,
          PostResult, Cross, SwapOnOddRuns, WakeEnds,
          Leave, LastToken, PostCrease
  <2>3. UNCHANGED stroke \/ \E t \in Threads : \E o :
            o \notin Dismissals /\ stroke' = [stroke EXCEPT ![t] = o]
    <3>1. CASE UNCHANGED vars
      BY <3>1
    <3>2. UNCHANGED stroke \/ \E t \in Threads : PlainBatsman(t)
      BY <2>1, <3>1, PlainSteps, Zenon
    <3> QED
      BY <2>2, <3>2, Zenon
  <2> QED
    BY <2>3 DEF PlainInv
<1> QED
    BY <1>2, <1>3, <1>4, <1>5, <1>6, <1>7 DEF PlainInv

-----------------------------------------------------------------------------
(* One ball at a time.                                                     *)

\* Where a thread is from the stroke to the token that releases the bowler.
AtPlay == {"stroke", "result", "cross", "swapEnds", "wakeEnds", "secondToken"}

PitchEmpty == \A t \in Threads : bat[t] \notin AtPlay

OneBall ==
    /\ \A t, u \in Threads : bat[t] \in AtPlay /\ bat[u] \in AtPlay => t = u
    /\ \A t \in Threads : bat[t] = "stroke" => OnStrike(t)
    /\ engine \in {"flags", "striker", "bowler"} => PitchEmpty

\* The ball is with the bowler, in the buffer, with a batsman, or on its way
\* back: in one of these, as long as the match goes on.
HandOver ==
    ~match_over =>
        /\ engine = "join" <=> bowler # "idle"
        /\ engine \in {"over", "flags", "striker", "bowler", "join", "swap",
                      "wakeSwap"}
        /\ bowler \notin {"wait", "asleep"} =>
               PitchEmpty /\ ~delivery_ready /\ ~stroke_done
        /\ bowler \in {"wait", "asleep"} =>
               ~PitchEmpty \/ delivery_ready \/ stroke_done
        /\ delivery_ready => PitchEmpty /\ ~stroke_done
        /\ stroke_done => PitchEmpty

\* Legal balls that an outcome counts for.
Legal(o) == IF CountsForOver(o) THEN 1 ELSE 0

\* What the bowler knows of the balls and the runs lags behind by the outcome
\* that is on its way.
BooksAgree(o) ==
    current_ball = legal_balls + Legal(o) /\ total_runs = runs_conceded + RunsOf(o)

BooksEven == current_ball = legal_balls /\ total_runs = runs_conceded

Account ==
    ~match_over =>
        /\ bowler \in {"bowl", "done"} \/ delivery_ready => BooksEven
        /\ bowler = "idle" => total_runs = runs_conceded
        /\ engine \in {"flags", "striker", "bowler"} => current_ball = 0
        /\ bowler = "count" \/ stroke_done => BooksAgree(last_outcome)
        /\ \A t \in Threads :
              /\ bat[t] = "stroke" => BooksEven
              /\ bat[t] \in AtPlay \ {"stroke"} => BooksAgree(stroke[t])
              /\ bat[t] \in AtPlay \ {"stroke", "result"} =>
                     last_outcome = stroke[t]

LockInv == OneBall /\ HandOver /\ Account

\* Steps that nobody at play takes.
PlayGoesOn == \A u \in Threads :
    bat[u] \in AtPlay \/ bat'[u] \in AtPlay => bat'[u] = bat[u]

lockVars == <<match_over, engine, bowler, striker_id, delivery_ready, stroke_done,
              legal_balls, current_ball, runs_conceded, total_runs, last_outcome,
              stroke>>

\* Steps beside the ball leave it where it is.
LEMMA BesideTheBall ==
    ASSUME LockInv, PlayGoesOn, UNCHANGED lockVars
    PROVE  LockInv'
<1> USE DEF LockInv, PlayGoesOn, lockVars, PitchEmpty
<1>1. OneBall'
    BY DEF OneBall, OnStrike, Player, AtPlay
<1>2. PitchEmpty' <=> PitchEmpty
    OBVIOUS
<1> HIDE DEF PitchEmpty
<1>3. HandOver'
    BY <1>2 DEF HandOver
<1>4. Account'
    BY DEF Account, BooksEven, BooksAgree, AtPlay
<1> QED
    BY <1>1, <1>3, <1>4

\* When the match is over, only the ball in play is of interest.
LEMMA AfterTheMatch ==
    ASSUME LockInv, match_over', PlayGoesOn, UNCHANGED striker_id,
           engine' \notin {"flags", "striker", "bowler"} \/ engine' = engine
    PROVE  LockInv'
<1>1. OneBall'
    BY DEF LockInv, PlayGoesOn, OneBall, OnStrike, Player, PitchEmpty, AtPlay
<1>2. HandOver' /\ Account'
    BY DEF HandOver, Account
<1> QED
    BY <1>1, <1>2 DEF LockInv

LEMMA ServiceLetsPlay ==
    ASSUME IInv, Engine \/ Bowler \/ Umpire
    PROVE  PlayGoesOn
BY ServiceKeeps DEF IInv, PlayGoesOn, AtPlay

LEMMA OneBallStays ==
    ASSUME LockInv, PlayGoesOn, UNCHANGED striker_id \/ PitchEmpty,
           engine' \in {"flags", "striker", "bowler"} => PitchEmpty
    PROVE  OneBall' /\ (PitchEmpty' <=> PitchEmpty)
<1>1. PitchEmpty' <=> PitchEmpty
    BY DEF PlayGoesOn, PitchEmpty
<1>2. OneBall'
  <2>1. ASSUME NEW t \in Threads, NEW u \in Threads,
               bat'[t] \in AtPlay, bat'[u] \in AtPlay
        PROVE  t = u
    BY <2>1 DEF PlayGoesOn, LockInv, OneBall
  <2>2. ASSUME NEW t \in Threads, bat'[t] = "stroke"
        PROVE  OnStrike(t)'
    BY <2>2 DEF PlayGoesOn, LockInv, OneBall, OnStrike, Player, PitchEmpty, AtPlay
  <2> QED
    BY <1>1, <2>1, <2>2 DEF OneBall
<1> QED
    BY <1>1, <1>2

\* The engine: between two overs nobody plays.
LEMMA EngineInLock ==
    ASSUME BeforeFirstWicket', IInv, PlainInv, LockInv, Engine, PlainEngine \/ PassStriker
    PROVE  LockInv'
<1> USE DEF IInv, TypeOK, BoardTypeOK, ThreadTypeOK
<1>1. PlayGoesOn
    BY ServiceLetsPlay
<1>2. CASE StartOver
  <2>1. engine = "over" /\ engine' = "flags" /\ current_ball' = 0
    BY <1>2 DEF StartOver
  <2>2. ~match_over
    BY <1>2 DEF StartOver, InningsOver
  <2>3. UNCHANGED <<match_over, bowler, striker_id, delivery_ready, stroke_done,
                    legal_balls, runs_conceded, total_runs, last_outcome, stroke>>
    BY <1>2 DEF StartOver
  <2>4. bowler = "idle" /\ PitchEmpty /\ ~delivery_ready /\ ~stroke_done
    BY <2>1, <2>2 DEF LockInv, HandOver
  <2>5. OneBall' /\ PitchEmpty'
    BY <1>1, <2>3, <2>4, OneBallStays
  <2>6. HandOver'
    BY <2>1, <2>2, <2>3, <2>4, <2>5 DEF LockInv, HandOver
  <2>7. Account'
    BY <2>1, <2>2, <2>3, <2>4, <2>5 DEF LockInv, Account, PitchEmpty, AtPlay
  <2> QED
    BY <2>5, <2>6, <2>7 DEF LockInv
<1>3. CASE ResetFlags
  <2>1. engine = "flags" /\ engine' = "striker"
    BY <1>3 DEF ResetFlags
  <2>2. UNCHANGED <<match_over, bowler, striker_id, legal_balls, current_ball,
                    runs_conceded, total_runs, last_outcome, stroke>>
    BY <1>3 DEF ResetFlags
  <2>3. ~delivery_ready' /\ ~stroke_done'
    BY <1>3, Zenon DEF ResetFlags
  <2>4. PitchEmpty
    BY <2>1 DEF LockInv, OneBall
  <2>5. OneBall' /\ PitchEmpty'
    BY <1>1, <2>2, <2>4, OneBallStays
  <2>6. HandOver'
    BY <2>1, <2>2, <2>3, <2>4, <2>5 DEF LockInv, HandOver
  <2>7. Account'
    BY <2>1, <2>2, <2>3, <2>4, <2>5 DEF LockInv, HandOver, Account, PitchEmpty, AtPlay,
       BooksEven
  <2> QED
    BY <2>5, <2>6, <2>7 DEF LockInv
<1>4. CASE PassStriker
  <2>1. engine = "striker" /\ engine' = "bowler"
    BY <1>4 DEF PassStriker
  <2>2. UNCHANGED <<match_over, bowler, striker_id, delivery_ready, stroke_done,
                    legal_balls, current_ball, runs_conceded, total_runs,
                    last_outcome, stroke>>
    BY <1>4 DEF PassStriker
  <2>4. PitchEmpty
    BY <2>1 DEF LockInv, OneBall
  <2>5. OneBall' /\ PitchEmpty'
    BY <1>1, <2>2, <2>4, OneBallStays
  <2>6. HandOver'
    BY <2>1, <2>2, <2>4, <2>5 DEF LockInv, HandOver
  <2>7. Account'
    BY <2>1, <2>2, <2>4, <2>5 DEF LockInv, Account, PitchEmpty, AtPlay, BooksEven,
       BooksAgree
  <2> QED
    BY <2>5, <2>6, <2>7 DEF LockInv
<1>5. CASE SpawnBowler
  <2>1. engine = "bowler" /\ engine' = "join" /\ bowler' = "bowl" /\ legal_balls' = 0
    BY <1>5 DEF SpawnBowler
  <2>2. UNCHANGED <<match_over, striker_id, delivery_ready, stroke_done, current_ball,
                    runs_conceded, total_runs, last_outcome, stroke>>
    BY <1>5 DEF SpawnBowler
  <2>4. PitchEmpty
    BY <2>1 DEF LockInv, OneBall
  <2>5. OneBall' /\ PitchEmpty'
    BY <1>1, <2>2, <2>4, OneBallStays
  <2>6. HandOver'
    BY <2>1, <2>2, <2>4, <2>5 DEF LockInv, HandOver
  <2>7. Account'
    BY <2>1, <2>2, <2>4, <2>5 DEF LockInv, HandOver, Account, PitchEmpty, AtPlay,
       BooksEven
  <2> QED
    BY <2>5, <2>6, <2>7 DEF LockInv
<1>6. CASE JoinBowler
  <2>1. /\ engine = "join" /\ engine' = "swap"
        /\ bowler = "done" /\ bowler' = "idle"
    BY <1>6 DEF JoinBowler
  <2>2. UNCHANGED <<match_over, striker_id, delivery_ready, stroke_done, current_ball,
                    runs_conceded, total_runs, last_outcome, stroke>>
    BY <1>6 DEF JoinBowler
  <2>5. OneBall' /\ (PitchEmpty' <=> PitchEmpty)
    BY <1>1, <2>1, <2>2, OneBallStays
  <2>6. HandOver'
    BY <2>1, <2>2, <2>5 DEF LockInv, HandOver
  <2>7. Account'
    BY <2>1, <2>2, <2>5 DEF LockInv, HandOver, Account, PitchEmpty, AtPlay, BooksEven
  <2> QED
    BY <2>5, <2>6, <2>7 DEF LockInv
<1>7. CASE SwapEnds
  <2>1. engine = "swap" /\ engine' \in {"over", "wakeSwap"}
    BY <1>7 DEF SwapEnds
  <2>2. UNCHANGED <<match_over, bowler, delivery_ready, stroke_done, legal_balls,
                    current_ball, runs_conceded, total_runs, last_outcome, stroke>>
    BY <1>7 DEF SwapEnds
  <2>3. ~match_over => PitchEmpty
    BY <2>1 DEF LockInv, HandOver
  <2>4. UNCHANGED striker_id \/ PitchEmpty
    BY <1>7, <2>3 DEF SwapEnds, InningsOver
  <2>5. OneBall' /\ (PitchEmpty' <=> PitchEmpty)
    BY <1>1, <2>1, <2>4, OneBallStays
  <2>6. HandOver'
    BY <2>1, <2>2, <2>5 DEF LockInv, HandOver
  <2>7. Account'
    BY <2>1, <2>2, <2>3, <2>5 DEF LockInv, HandOver, Account, PitchEmpty, AtPlay,
       BooksEven
  <2> QED
    BY <2>5, <2>6, <2>7 DEF LockInv
<1>8. CASE WakeAfterSwap
  <2>1. engine = "wakeSwap" /\ engine' = "over"
    BY <1>8 DEF WakeAfterSwap
  <2>2. UNCHANGED <<match_over, bowler, striker_id, delivery_ready, stroke_done,
                    legal_balls, current_ball, runs_conceded, total_runs,
                    last_outcome, stroke>>
    BY <1>8 DEF WakeAfterSwap
  <2>5. OneBall' /\ (PitchEmpty' <=> PitchEmpty)
    BY <1>1, <2>1, <2>2, OneBallStays
  <2>6. HandOver'
    BY <2>1, <2>2, <2>5 DEF LockInv, HandOver
  <2>7. Account'
    BY <2>1, <2>2, <2>5 DEF LockInv, HandOver, Account, PitchEmpty, AtPlay, BooksEven
  <2> QED
    BY <2>5, <2>6, <2>7 DEF LockInv
<1>9. CASE FinishInnings
  <2>1. engine' = "wakeEnd" /\ UNCHANGED striker_id
    BY <1>9 DEF FinishInnings
  <2>2. match_over'
    BY <1>9, Zenon DEF FinishInnings
  <2> QED
    BY <1>1, <2>1, <2>2, AfterTheMatch
<1>10. CASE WakeAtEnd \/ RaiseFlags \/ JoinBatsman \/ JoinUmpire
  <2>1. /\ engine \in {"wakeEnd", "raiseFlags", "joinBatsmen"}
        /\ engine' \in {"raiseFlags", "joinBatsmen", "done"}
        /\ UNCHANGED <<striker_id, match_over>>
    BY <1>10 DEF WakeAtEnd, RaiseFlags, JoinBatsman, JoinUmpire
  <2>2. match_over
    BY <2>1 DEF LockInv, HandOver
  <2> QED
    BY <1>1, <2>1, <2>2, AfterTheMatch
<1> QED
    BY <1>2, <1>3, <1>4, <1>5, <1>6, <1>7, <1>8, <1>9, <1>10 DEF PlainEngine

\* The bowler: he waits until the ball has come back.
LEMMA BowlerInLock ==
    ASSUME BeforeFirstWicket', IInv, PlainInv, LockInv, Bowler
    PROVE  LockInv'
<1> USE DEF IInv, TypeOK, BoardTypeOK, ThreadTypeOK
<1>1. PlayGoesOn
    BY ServiceLetsPlay
<1>2. UNCHANGED <<match_over, engine, striker_id, current_ball, total_runs,
                  last_outcome, stroke>>
    BY Zenon DEF Bowler, Deliver, BowlerDone, SleepForStroke, AckStroke, CountBall
<1>3. OneBall' /\ (PitchEmpty' <=> PitchEmpty)
    BY <1>1, <1>2, OneBallStays DEF LockInv, OneBall
<1>4. CASE match_over
  <2>1. match_over'
    BY <1>2, <1>4
  <2> QED
    BY <1>1, <1>2, <2>1, AfterTheMatch
<1>5. CASE ~match_over
  <2> USE <1>5
  <2>1. CASE Deliver
    <3>1. /\ bowler = "bowl" /\ bowler' = "wait"
          /\ UNCHANGED <<stroke_done, legal_balls, runs_conceded>>
      BY <2>1 DEF Deliver
    <3>2. delivery_ready'
      BY <2>1, Zenon DEF Deliver
    <3>3. PitchEmpty /\ ~stroke_done
      BY <3>1 DEF LockInv, HandOver
    <3>4. HandOver'
      BY <1>2, <1>3, <3>1, <3>2, <3>3 DEF LockInv, HandOver
    <3>5. Account'
      BY <1>2, <1>3, <3>1, <3>2, <3>3 DEF LockInv, Account, BooksEven, PitchEmpty,
         AtPlay
    <3> QED
      BY <1>3, <3>4, <3>5 DEF LockInv
  <2>2. CASE BowlerDone
    <3>1. /\ bowler = "bowl" /\ bowler' = "done"
          /\ UNCHANGED <<delivery_ready, stroke_done, legal_balls, runs_conceded>>
      BY <2>2 DEF BowlerDone
    <3>2. PitchEmpty /\ ~stroke_done
      BY <3>1 DEF LockInv, HandOver
    <3>4. HandOver'
      BY <1>2, <1>3, <3>1, <3>2 DEF LockInv, HandOver
    <3>5. Account'
      BY <1>2, <1>3, <3>1, <3>2 DEF LockInv, Account, BooksEven, PitchEmpty, AtPlay
    <3> QED
      BY <1>3, <3>4, <3>5 DEF LockInv
  <2>3. CASE SleepForStroke
    <3>1. /\ bowler = "wait" /\ bowler' = "asleep"
          /\ UNCHANGED <<delivery_ready, stroke_done, legal_balls, runs_conceded>>
      BY <2>3 DEF SleepForStroke
    <3>4. HandOver'
      BY <1>2, <1>3, <3>1 DEF LockInv, HandOver
    <3>5. Account'
      <4>1. /\ BooksEven' <=> BooksEven
            /\ \A o : BooksAgree(o)' <=> BooksAgree(o)
        BY <1>2, <3>1 DEF BooksEven, BooksAgree
      <4> QED
        BY <1>1, <1>2, <3>1, <4>1 DEF LockInv, Account, PlayGoesOn, AtPlay, BooksAgree
    <3> QED
      BY <1>3, <3>4, <3>5 DEF LockInv
  <2>4. CASE AckStroke
    <3>1. /\ bowler = "wait" /\ bowler' = "count"
          /\ UNCHANGED <<delivery_ready, legal_balls, runs_conceded>>
      BY <2>4 DEF AckStroke
    <3>2. stroke_done
      <4>1. ~(striker_id < 0)
        BY BatsmenAssumption DEF PlainInv, Batsmen
      <4> QED
        BY <2>4, <4>1 DEF AckStroke, StrokeOver
    <3>3. ~stroke_done'
      BY <2>4, Zenon DEF AckStroke
    <3>4. PitchEmpty /\ ~delivery_ready /\ BooksAgree(last_outcome)
      BY <3>1, <3>2 DEF LockInv, HandOver, Account
    <3>5. HandOver'
      BY <1>2, <1>3, <3>1, <3>3, <3>4 DEF LockInv, HandOver
    <3>6. Account'
      BY <1>2, <1>3, <3>1, <3>3, <3>4 DEF LockInv, HandOver, Account, PitchEmpty, AtPlay,
         BooksAgree
    <3> QED
      BY <1>3, <3>5, <3>6 DEF LockInv
  <2>5. CASE CountBall
    <3>1. /\ bowler = "count" /\ bowler' = "bowl"
          /\ UNCHANGED <<delivery_ready, stroke_done>>
      BY <2>5 DEF CountBall
    <3>2. /\ legal_balls' = legal_balls + Legal(last_outcome)
          /\ runs_conceded' = runs_conceded + RunsOf(last_outcome)
      BY <2>5 DEF CountBall, Legal
    <3>3. PitchEmpty /\ ~delivery_ready /\ ~stroke_done /\ BooksAgree(last_outcome)
      BY <3>1 DEF LockInv, HandOver, Account
    <3>4. BooksEven'
      BY <1>2, <3>2, <3>3, RunsOfType DEF BooksEven, BooksAgree, Legal
    <3>5. HandOver'
      BY <1>2, <1>3, <3>1, <3>3 DEF LockInv, HandOver
    <3>6. Account'
      BY <1>2, <1>3, <3>1, <3>3, <3>4 DEF LockInv, HandOver, Account, PitchEmpty, AtPlay
    <3> QED
      BY <1>3, <3>5, <3>6 DEF LockInv
  <2> QED
    BY <2>1, <2>2, <2>3, <2>4, <2>5 DEF Bowler
<1> QED
    BY <1>4, <1>5

\* The umpire has nothing to do with the ball.
LEMMA UmpireInLock ==
    ASSUME BeforeFirstWicket', IInv, PlainInv, LockInv, Umpire, PlainUmpire
    PROVE  LockInv'
<1>1. PlayGoesOn
    BY ServiceLetsPlay
<1>2. UNCHANGED <<engine, striker_id>>
    BY Zenon DEF PlainUmpire, DetectDeadlock, EndMatch, WakeGateAtEnd,
        RaiseFlagsAtEnd, UmpireDone
<1>3. CASE EndMatch
  <2>1. match_over'
    BY <1>3, Zenon DEF EndMatch
  <2> QED
    BY <1>1, <1>2, <2>1, AfterTheMatch
<1>4. CASE WakeGateAtEnd \/ RaiseFlagsAtEnd \/ UmpireDone
  <2>1. match_over /\ UNCHANGED match_over
    BY <1>4 DEF WakeGateAtEnd, RaiseFlagsAtEnd, UmpireDone, IInv, CallInv
  <2> QED
    BY <1>1, <1>2, <2>1, AfterTheMatch
<1>5. CASE DetectDeadlock
  <2>1. UNCHANGED lockVars
    BY <1>5, Zenon DEF DetectDeadlock, lockVars
  <2> QED
    BY <1>1, <2>1, BesideTheBall
<1> QED
    BY <1>3, <1>4, <1>5 DEF PlainUmpire

\* The batsmen: only the striker takes the ball, and he gives it back last.
LEMMA BatsmanInLock ==
    ASSUME BeforeFirstWicket', IInv, PlainInv, LockInv, NEW t \in Threads, PlainBatsman(t)
    PROVE  LockInv'
<1> USE DEF IInv, TypeOK, BoardTypeOK, ThreadTypeOK
<1>1. UNCHANGED <<match_over, engine, legal_balls, runs_conceded>>
    BY Zenon DEF PlainBatsman, EnterCrease, AwaitStrike, SleepForDelivery,
        AbandonDelivery, PutBackDelivery, TakeDelivery, ScoreRuns, PostResult,
        Cross, SwapOnOddRuns, WakeEnds, SecondToken, Leave, LastToken,
        PostCrease
<1>2. \A u \in Threads : MustLeave(u) <=> match_over
    BY PlayerIsBatsman DEF PlainInv, BeforeFirstWicket, MustLeave
<1>3. CASE EnterCrease(t) \/ AwaitStrike(t) \/ SleepForDelivery(t) \/ Leave(t)
             \/ PutBackDelivery(t) \/ PostCrease(t)
  <2>1. PlayGoesOn
    BY <1>3 DEF EnterCrease, AwaitStrike, SleepForDelivery, Leave, PutBackDelivery,
       PostCrease, MoveTo, WakeDelivery, Wake, PlayGoesOn, AtPlay
  <2>2. UNCHANGED lockVars
    BY <1>1, <1>3, Zenon DEF EnterCrease, AwaitStrike, SleepForDelivery, Leave,
       PutBackDelivery, PostCrease, lockVars
  <2> QED
    BY <2>1, <2>2, BesideTheBall
<1>4. CASE AbandonDelivery(t) \/ LastToken(t)
  <2>1. PlayGoesOn
    BY <1>4 DEF AbandonDelivery, LastToken, MoveTo, PlayGoesOn, AtPlay
  <2>2. match_over
    BY <1>2, <1>4 DEF AbandonDelivery, LastToken, PresentInv
  <2>3. UNCHANGED striker_id
    BY <1>4, Zenon DEF AbandonDelivery, LastToken
  <2> QED
    BY <1>1, <2>1, <2>2, <2>3, AfterTheMatch
<1>5. CASE TakeDelivery(t)
  <2>1. /\ bat[t] = "await" /\ bat' = [bat EXCEPT ![t] = "stroke"]
        /\ UNCHANGED <<stroke_done, bowler, striker_id, current_ball, total_runs,
                       last_outcome, stroke>>
    BY <1>5 DEF TakeDelivery, MoveTo
  <2>2. delivery_ready /\ ~match_over /\ OnStrike(t)
    BY <1>2, <1>5 DEF TakeDelivery
  <2>3. ~delivery_ready'
    BY <1>5, Zenon DEF TakeDelivery
  <2>4. PitchEmpty /\ ~stroke_done /\ BooksEven /\ bowler \in {"wait", "asleep"}
    BY <2>2 DEF LockInv, HandOver, Account
  <2>5. engine = "join"
    BY <2>2, <2>4 DEF LockInv, HandOver
  <2>6. OneBall'
    BY <1>1, <2>1, <2>2, <2>4, <2>5 DEF OneBall, PitchEmpty, AtPlay, OnStrike, Player
  <2>7. ~PitchEmpty'
    BY <2>1 DEF PitchEmpty, AtPlay
  <2>8. HandOver'
    BY <1>1, <2>1, <2>2, <2>3, <2>4, <2>5, <2>7 DEF HandOver
  <2>9. Account'
    <3>1. BooksEven'
      BY <1>1, <2>1, <2>4 DEF BooksEven
    <3> QED
      BY <1>1, <2>1, <2>2, <2>3, <2>4, <2>5, <3>1 DEF Account, PitchEmpty, AtPlay
  <2> QED
    BY <2>6, <2>8, <2>9 DEF LockInv
<1>6. CASE ScoreRuns(t) \/ PostResult(t) \/ Cross(t) \/ SwapOnOddRuns(t) \/ WakeEnds(t)
  <2> DEFINE next == bat'[t]
  <2>1. /\ bat[t] \in AtPlay /\ next \in AtPlay \ {"stroke"}
        /\ \A u \in Threads \ {t} : bat'[u] \notin AtPlay
        /\ UNCHANGED <<bowler, delivery_ready, stroke_done>>
    <3>1. \A u \in Threads \ {t} : bat[u] \notin AtPlay
      BY <1>6 DEF ScoreRuns, PostResult, Cross, SwapOnOddRuns, WakeEnds, LockInv,
         OneBall, AtPlay
    <3>2. CASE ScoreRuns(t)
      BY <3>1, <3>2 DEF ScoreRuns, MoveTo, AtPlay
    <3>3. CASE PostResult(t)
      <4>1. stroke[t] # "RUNOUT"
        BY DEF PlainInv, Dismissals
      <4> QED
        BY <3>1, <3>3, <4>1 DEF PostResult, MoveTo, AtPlay
    <3>4. CASE Cross(t)
      BY <3>1, <3>4 DEF Cross, MoveTo, AtPlay
    <3>5. CASE SwapOnOddRuns(t)
      BY <3>1, <3>5 DEF SwapOnOddRuns, MoveTo, AtPlay
    <3>6. CASE WakeEnds(t)
      BY <3>1, <3>6 DEF WakeEnds, WakeGate, Wake, AtPlay
    <3> QED
      BY <1>6, <3>2, <3>3, <3>4, <3>5, <3>6
  <2> HIDE DEF next
  <2>2. ~PitchEmpty /\ ~PitchEmpty'
    BY <2>1 DEF PitchEmpty, next
  <2>3. engine \notin {"flags", "striker", "bowler"}
    BY <2>2 DEF LockInv, OneBall
  <2>4. OneBall'
    BY <1>1, <2>1, <2>3 DEF OneBall, next, AtPlay
  <2>5. HandOver'
    BY <1>1, <2>1, <2>2 DEF LockInv, HandOver
  <2>6. ~match_over => bowler \in {"wait", "asleep"} /\ ~delivery_ready /\ ~stroke_done
    BY <2>2 DEF LockInv, HandOver
  <2>7. ASSUME ~match_over
        PROVE  /\ BooksAgree(stroke[t])'
               /\ next # "result" => last_outcome' = stroke'[t]
    <3>1. CASE ScoreRuns(t)
      <4>1. PICK o \in Outcomes \ Dismissals :
              /\ total_runs' = total_runs + RunsOf(o)
              /\ IF o \in Extras
                    THEN UNCHANGED current_ball
                    ELSE current_ball' = current_ball + 1
              /\ stroke' = [stroke EXCEPT ![t] = o]
        BY <3>1 DEF ScoreRuns
      <4>2. bat[t] = "stroke" /\ next = "result"
        BY <3>1 DEF ScoreRuns, MoveTo, next
      <4>3. BooksEven
        BY <2>7, <4>2 DEF LockInv, Account
      <4>4. stroke'[t] = o
        BY <4>1
      <4> QED
        BY <1>1, <4>1, <4>2, <4>3, <4>4, RunsOfType
        DEF BooksEven, BooksAgree, Legal, CountsForOver
    <3>2. CASE PostResult(t)
      <4>1. /\ bat[t] = "result" /\ last_outcome' = stroke[t]
            /\ UNCHANGED <<stroke, current_ball, total_runs>>
        BY <3>2 DEF PostResult
      <4>2. BooksAgree(stroke[t])
        BY <2>7, <4>1 DEF LockInv, Account, AtPlay
      <4> QED
        BY <1>1, <4>1, <4>2 DEF BooksAgree
    <3>3. CASE Cross(t) \/ SwapOnOddRuns(t) \/ WakeEnds(t)
      <4>1. /\ bat[t] \in {"cross", "swapEnds", "wakeEnds"}
            /\ UNCHANGED <<stroke, current_ball, total_runs, last_outcome>>
        BY <3>3 DEF Cross, SwapOnOddRuns, WakeEnds
      <4>2. BooksAgree(stroke[t]) /\ last_outcome = stroke[t]
        BY <2>7, <4>1 DEF LockInv, Account, AtPlay
      <4> QED
        BY <1>1, <4>1, <4>2 DEF BooksAgree
    <3> QED
      BY <1>6, <3>1, <3>2, <3>3
  <2>8. Account'
    <3> SUFFICES ASSUME ~match_over PROVE Account'
      BY <1>1 DEF Account
    <3> QED
      BY <1>1, <2>1, <2>3, <2>6, <2>7 DEF Account, AtPlay, next
  <2> QED
    BY <2>4, <2>5, <2>8 DEF LockInv
<1>7. CASE SecondToken(t)
  <2>1. /\ bat[t] = "secondToken" /\ bat' = [bat EXCEPT ![t] = "gate"]
        /\ UNCHANGED <<delivery_ready, striker_id, current_ball, total_runs,
                       last_outcome>>
    BY <1>7 DEF SecondToken, MoveTo
  <2>2. stroke_done' /\ bowler' = WakeBowler(bowler)
    BY <1>7, Zenon DEF SecondToken, ReleaseBowler
  <2>3. PitchEmpty' /\ ~PitchEmpty
    BY <2>1 DEF LockInv, OneBall, PitchEmpty, AtPlay
  <2>4. engine \notin {"flags", "striker", "bowler"}
    BY <2>3 DEF LockInv, OneBall
  <2>5. OneBall'
    BY <1>1, <2>3, <2>4 DEF OneBall, PitchEmpty, AtPlay
  <2>6. ~match_over => /\ bowler \in {"wait", "asleep"} /\ ~delivery_ready
                       /\ BooksAgree(last_outcome)
    BY <2>1, <2>3 DEF LockInv, HandOver, Account, AtPlay
  <2>7. ~match_over => bowler' = "wait"
    BY <2>2, <2>6 DEF WakeBowler
  <2>8. HandOver'
    BY <1>1, <2>1, <2>2, <2>3, <2>6, <2>7 DEF LockInv, HandOver
  <2>9. Account'
    <3>1. BooksAgree(last_outcome)' <=> BooksAgree(last_outcome)
      BY <1>1, <2>1 DEF BooksAgree
    <3> QED
      BY <1>1, <2>1, <2>2, <2>3, <2>4, <2>6, <2>7, <3>1 DEF Account, PitchEmpty, AtPlay
  <2> QED
    BY <2>5, <2>8, <2>9 DEF LockInv
<1> QED
    BY <1>3, <1>4, <1>5, <1>6, <1>7 DEF PlainBatsman


-----------------------------------------------------------------------------
(* The invariant of the lockstep, and what follows from it.                *)

LEMMA LockStep ==
    ASSUME BeforeFirstWicket', IInv, PlainInv, LockInv, [Next]_vars
    PROVE  LockInv'
<1>1. CASE UNCHANGED vars
  <2>1. PlayGoesOn /\ UNCHANGED lockVars
    BY <1>1 DEF PlayGoesOn, lockVars
  <2> QED
    BY <2>1, BesideTheBall
<1>2. CASE Engine /\ (PlainEngine \/ PassStriker)
    BY <1>2, EngineInLock
<1>3. CASE Bowler
    BY <1>3, BowlerInLock
<1>4. CASE Umpire /\ PlainUmpire
    BY <1>4, UmpireInLock
<1>5. ASSUME NEW t \in Threads, PlainBatsman(t) PROVE LockInv'
    BY <1>5, BatsmanInLock
<1> QED
    BY <1>1, <1>2, <1>3, <1>4, <1>5, PlainSteps, Zenon

LEMMA InitiallyInLock == Init => PlainInv /\ LockInv
<1> SUFFICES ASSUME Init PROVE PlainInv /\ LockInv
    OBVIOUS
<1> USE DEF Init
<1>1. \A t \in Threads : bat[t] \in {"sem", "unborn"}
    OBVIOUS
<1>2. 1 \in Batsmen /\ 2 \in Batsmen
    BY BatsmenAssumption DEF Batsmen
<1>3. PlainInv
  <2>1. BeforeFirstWicket
    BY DEF BeforeFirstWicket
  <2>2. \A t \in Threads : stroke[t] \notin Dismissals
    BY DEF Dismissals
  <2> QED
    BY <1>1, <1>2, <2>1, <2>2 DEF PlainInv
<1>4. PitchEmpty
    BY <1>1 DEF PitchEmpty, AtPlay
<1>5. OneBall
    BY <1>1 DEF OneBall, AtPlay
<1>6. HandOver
    BY <1>4 DEF HandOver
<1>7. Account
    BY <1>1 DEF Account, BooksEven, AtPlay
<1> QED
    BY <1>3, <1>5, <1>6, <1>7 DEF LockInv

\* Nobody who is out comes back.
LEMMA OutIsForGood ==
    ASSUME IInv, [Next]_vars, BeforeFirstWicket' PROVE BeforeFirstWicket
BY NobodyReturns DEF IInv, TypeOK, BeforeFirstWicket

Undismissed == BeforeFirstWicket => PlainInv /\ LockInv

LEMMA LockHolds == Spec => [](IInv /\ Undismissed)
<1>1. Init => IInv /\ Undismissed
    BY InitiallyInv, InitiallyInLock DEF Undismissed
<1>2. IInv /\ Undismissed /\ [Next]_vars => (IInv /\ Undismissed)'
    BY InvStep, OutIsForGood, PlainStep, LockStep DEF Undismissed
<1> QED
    BY <1>1, <1>2, PTL DEF Spec

\* Until the first wicket the bowler and the batsmen count the same balls
\* whenever he starts one, and no delivery and no token is left over
\* (bowler_thread_func, batsman_play_ball).
THEOREM BallsStayInLockstep ==
    Spec => [](BeforeFirstWicket => BallInLockstep)
<1>1. PlainInv /\ LockInv => BallInLockstep
  <2> SUFFICES ASSUME LockInv, bowler = "bowl", ~match_over
               PROVE  legal_balls = current_ball /\ ~delivery_ready /\ ~stroke_done
    BY DEF BallInLockstep
  <2> QED
    BY DEF LockInv, HandOver, Account, BooksEven
<1>2. IInv /\ Undismissed => (BeforeFirstWicket => BallInLockstep)
    BY <1>1 DEF Undismissed
<1> QED
    BY <1>2, LockHolds, PTL

\* Until the first wicket the bowlers are charged with every run on the board
\* although they learn of each through g_last_runs only.
THEOREM EveryRunIsCharged ==
    Spec => [](BeforeFirstWicket => RunsAreCharged)
<1>1. PlainInv /\ LockInv => RunsAreCharged
  <2> SUFFICES ASSUME LockInv, bowler \in {"bowl", "idle"}, ~match_over
               PROVE  runs_conceded = total_runs
    BY DEF RunsAreCharged
  <2> QED
    BY DEF LockInv, Account, BooksEven
<1>2. IInv /\ Undismissed => (BeforeFirstWicket => RunsAreCharged)
    BY <1>1 DEF Undismissed
<1> QED
    BY <1>2, LockHolds, PTL

\* Until the first wicket nobody but the striker of the moment plays a ball:
\* the second test of striker_id in batsman_thread_func is enough.
THEOREM OnlyTheStrikerPlays ==
    Spec => [](BeforeFirstWicket => StrikerPlays)
<1>1. IInv /\ Undismissed => (BeforeFirstWicket => StrikerPlays)
    BY DEF Undismissed, LockInv, OneBall, StrikerPlays
<1> QED
    BY <1>1, LockHolds, PTL

\* Until the first wicket one thread at most plays a ball, and the bowler waits
\* for it.
THEOREM PitchIsShared ==
    Spec => [](BeforeFirstWicket => PitchFreeMeansPlayed)
<1>1. PlainInv /\ LockInv => PitchFreeMeansPlayed
  <2> SUFFICES ASSUME LockInv, PlainInv PROVE PitchFreeMeansPlayed
    OBVIOUS
  <2>1. Playing \subseteq {t \in Threads : bat[t] \in AtPlay}
    BY DEF Playing, PlainInv, AtPlay
  <2>2. \A t, u \in Playing : t = u
    BY <2>1 DEF LockInv, OneBall
  <2>3. ASSUME Playing # {}, ~match_over
        PROVE  bowler \in {"wait", "asleep"} /\ ~delivery_ready
    <3>1. ~PitchEmpty
      BY <2>1, <2>3 DEF PitchEmpty
    <3> QED
      BY <2>3, <3>1 DEF LockInv, HandOver
  <2> QED
    BY <2>2, <2>3, Zenon DEF PitchFreeMeansPlayed
<1>2. IInv /\ Undismissed => (BeforeFirstWicket => PitchFreeMeansPlayed)
    BY <1>1 DEF Undismissed
<1> QED
    BY <1>2, LockHolds, PTL
=============================================================================
