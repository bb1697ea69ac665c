--------------------------- MODULE InningsProofs ---------------------------
(***************************************************************************)
(* The threads of an innings, for any number of batsmen, overs and spawned *)
(* threads and any outcomes of the balls.                                  *)
(***************************************************************************)
EXTENDS InningsProperties, FiniteSetTheorems, TLAPS

\* A thread that has a ball in hand knows its outcome.
StrokeInv ==
    \A t \in Threads :
        bat[t] \in {"promote", "wakePromoted", "spawn", "firstToken", "unlock",
                   "result"} => stroke[t] \in Outcomes

USE DEF vars, scoreboard, dismissal, crease, endVars, play, tokens, bowlerVars,
        umpireVars, engineVars, notBatsman, notBowler, notUmpire, notEngine

-----------------------------------------------------------------------------
(* Types.                                                                  *)

LEMMA RunsOfType == ASSUME NEW o PROVE RunsOf(o) \in Nat
BY DEF RunsOf

\* The flags.
LEMMA FlagTypes ==
    ASSUME TypeOK, [Next]_vars
    PROVE  FlagTypeOK'
<1> USE DEF TypeOK, FlagTypeOK, ReleaseBowler
<1>1. CASE Engine
    BY <1>1, Zenon DEF Engine, StartOver, ResetFlags, AssignStriker,
        SpawnStriker, SpawnBowler, JoinBowler, SwapEnds, WakeAfterSwap,
        FinishInnings, WakeAtEnd, RaiseFlags, JoinBatsman, JoinUmpire
<1>2. CASE Bowler
    BY <1>2, Zenon DEF Bowler, Deliver, BowlerDone, SleepForStroke,
        AckStroke, CountBall
<1>3. CASE Umpire
    BY <1>3, Zenon DEF Umpire, DetectDeadlock, MarkRunOut, CountRunOut,
        PromoteSurvivor, SendNextBatsman, SpawnReplacement, UmpireToken,
        WakeSurvivor, EndMatch, WakeGateAtEnd, RaiseFlagsAtEnd, PollAgain,
        UmpireDone
<1>4. ASSUME NEW t \in Threads, Batsman(t) PROVE FlagTypeOK'
    BY <1>4, Zenon DEF Batsman, EnterCrease, AwaitStrike, SleepForDelivery,
        AbandonDelivery, PutBackDelivery, TakeDelivery, ScoreRuns, Dismiss,
        Promote, WakePromoted, SpawnNext, FirstToken, EndDismissal, PostResult,
        StageRunOut, Cross, SwapOnOddRuns, WakeEnds, SecondToken, Leave,
        LastToken, PostCrease
<1>5. CASE InningsReturned \/ UNCHANGED vars
    BY <1>5, Zenon DEF InningsReturned
<1> QED
    BY <1>1, <1>2, <1>3, <1>4, <1>5 DEF Next

\* The score.
LEMMA BoardTypes ==
    ASSUME TypeOK, StrokeInv, [Next]_vars
    PROVE  BoardTypeOK'
<1> USE DEF TypeOK, BoardTypeOK
<1>1. CASE Engine
    BY <1>1, OversAssumption DEF Engine, OversLeft, StartOver, ResetFlags,
        AssignStriker, SpawnStriker, SpawnBowler, JoinBowler, SwapEnds,
        WakeAfterSwap, FinishInnings, WakeAtEnd, RaiseFlags, JoinBatsman,
        JoinUmpire
<1>2. CASE Bowler
  <2>1. CASE CountBall
    BY <2>1, RunsOfType DEF CountBall
  <2>2. CASE Deliver \/ BowlerDone \/ SleepForStroke \/ AckStroke
    BY <2>2 DEF Deliver, BowlerDone, SleepForStroke, AckStroke
  <2> QED
    BY <1>2, <2>1, <2>2 DEF Bowler
<1>3. CASE Umpire
    BY <1>3 DEF Umpire, DetectDeadlock, MarkRunOut, CountRunOut,
        PromoteSurvivor, SendNextBatsman, SpawnReplacement, UmpireToken,
        WakeSurvivor, EndMatch, WakeGateAtEnd, RaiseFlagsAtEnd, PollAgain,
        UmpireDone
<1>4. ASSUME NEW t \in Threads, Batsman(t) PROVE BoardTypeOK'
  <2>1. CASE EnterCrease(t)
    BY <2>1 DEF EnterCrease
  <2>2. CASE AwaitStrike(t)
    BY <2>2 DEF AwaitStrike
  <2>3. CASE SleepForDelivery(t)
    BY <2>3 DEF SleepForDelivery
  <2>4. CASE AbandonDelivery(t)
    BY <2>4 DEF AbandonDelivery, ReleaseBowler, WakeBowler
  <2>5. CASE PutBackDelivery(t)
    BY <2>5 DEF PutBackDelivery, WakeDelivery, Wake
  <2>6. CASE TakeDelivery(t)
    BY <2>6 DEF TakeDelivery
  <2>7. CASE ScoreRuns(t)
    <3>1. PICK o \in Outcomes \ Dismissals :
            /\ o \in Extras => extras < MaxExtras
            /\ total_runs' = total_runs + RunsOf(o)
            /\ IF o \in Extras
                  THEN extras' = extras + 1 /\ UNCHANGED <<runs_scored, current_ball>>
                  ELSE /\ runs_scored' =
                              [runs_scored EXCEPT ![Player(t)] = @ + RunsOf(o)]
                       /\ current_ball' = current_ball + 1
                       /\ UNCHANGED extras
            /\ stroke' = [stroke EXCEPT ![t] = o]
      BY <2>7 DEF ScoreRuns
    <3>2. UNCHANGED <<target, wickets, current_over, legal_balls, runs_conceded,
                      wickets_taken, last_outcome>>
      BY <2>7 DEF ScoreRuns
    <3>3. /\ extras' \in 0 .. MaxExtras /\ current_ball' \in Nat
          /\ total_runs' \in Nat /\ runs_scored' \in [Batsmen -> Nat]
      BY <3>1, RunsOfType, BoundsAssumption DEF Player, Threads
    <3>4. stroke' \in [Threads -> Outcomes \cup {"none"}]
      BY <3>1
    <3> QED
      BY <3>2, <3>3, <3>4
  <2>8. CASE Dismiss(t)
    BY <2>8 DEF Dismiss
  <2>9. CASE Promote(t)
    BY <2>9 DEF Promote, AtCrease
  <2>10. CASE WakePromoted(t)
    BY <2>10 DEF WakePromoted, WakeGate, Wake
  <2>11. CASE SpawnNext(t)
    BY <2>11 DEF SpawnNext
  <2>12. CASE FirstToken(t)
    BY <2>12 DEF FirstToken, ReleaseBowler, WakeBowler
  <2>13. CASE EndDismissal(t)
    BY <2>13 DEF EndDismissal
  <2>14. CASE PostResult(t)
    BY <2>14 DEF PostResult, StrokeInv
  <2>15. CASE StageRunOut(t)
    BY <2>15 DEF StageRunOut
  <2>16. CASE Cross(t)
    BY <2>16 DEF Cross
  <2>17. CASE SwapOnOddRuns(t)
    BY <2>17 DEF SwapOnOddRuns
  <2>18. CASE WakeEnds(t)
    BY <2>18 DEF WakeEnds, WakeGate, Wake
  <2>19. CASE SecondToken(t)
    BY <2>19 DEF SecondToken, ReleaseBowler, WakeBowler
  <2>20. CASE Leave(t)
    BY <2>20 DEF Leave
  <2>21. CASE LastToken(t)
    BY <2>21 DEF LastToken, ReleaseBowler, WakeBowler
  <2>22. CASE PostCrease(t)
    BY <2>22 DEF PostCrease
  <2> QED
    BY <2>1, <2>2, <2>3, <2>4, <2>5, <2>6, <2>7, <2>8, <2>9, <2>10, <2>11,
       <2>12, <2>13, <2>14, <2>15, <2>16, <2>17, <2>18, <2>19, <2>20, <2>21,
       <2>22, <1>4 DEF Batsman
<1>5. CASE InningsReturned \/ UNCHANGED vars
    BY <1>5 DEF InningsReturned
<1> QED
    BY <1>1, <1>2, <1>3, <1>4, <1>5 DEF Next

\* The batting order.
LEMMA OrderTypes ==
    ASSUME TypeOK, [Next]_vars
    PROVE  OrderTypeOK'
<1> USE DEF TypeOK, OrderTypeOK
<1>1. CASE Engine
  <2>1. CASE AssignStriker
    <3>1. striker_id' \in Batsmen \cup {NoPlayer}
      BY <2>1, Zenon DEF AssignStriker, Waiting
    <3>2. UNCHANGED <<non_striker_id, next_bat, is_out, is_active, holds_end,
                      runout>>
      BY <2>1 DEF AssignStriker
    <3> QED
      BY <3>1, <3>2
  <2>2. CASE Engine /\ ~AssignStriker
    BY <2>2 DEF Engine, StartOver, ResetFlags, SpawnStriker, SpawnBowler,
        JoinBowler, SwapEnds, WakeAfterSwap, FinishInnings, WakeAtEnd,
        RaiseFlags, JoinBatsman, JoinUmpire
  <2> QED
    BY <1>1, <2>1, <2>2
<1>2. CASE Bowler
    BY <1>2 DEF Bowler, Deliver, BowlerDone, SleepForStroke, AckStroke,
        CountBall
<1>3. CASE Umpire
  <2>1. CASE DetectDeadlock
    BY <2>1 DEF DetectDeadlock, Cycle, IsPair, AtCrease
  <2>2. CASE MarkRunOut
    BY <2>2 DEF MarkRunOut
  <2>3. CASE CountRunOut
    BY <2>3 DEF CountRunOut
  <2>4. CASE PromoteSurvivor
    BY <2>4 DEF PromoteSurvivor
  <2>5. CASE SendNextBatsman
    BY <2>5 DEF SendNextBatsman
  <2>6. CASE SpawnReplacement
    BY <2>6 DEF SpawnReplacement, Spawn
  <2>7. CASE UmpireToken
    BY <2>7 DEF UmpireToken, ReleaseBowler, WakeBowler
  <2>8. CASE WakeSurvivor
    BY <2>8 DEF WakeSurvivor, WakeGate, Wake, NobodyOut
  <2>9. CASE EndMatch
    BY <2>9 DEF EndMatch
  <2>10. CASE WakeGateAtEnd
    BY <2>10 DEF WakeGateAtEnd, WakeGate, Wake
  <2>11. CASE RaiseFlagsAtEnd
    BY <2>11 DEF RaiseFlagsAtEnd, WakeDelivery, Wake, ReleaseBowler,
       WakeBowler
  <2>12. CASE PollAgain
    BY <2>12 DEF PollAgain
  <2>13. CASE UmpireDone
    BY <2>13 DEF UmpireDone
  <2> QED
    BY <2>1, <2>2, <2>3, <2>4, <2>5, <2>6, <2>7, <2>8, <2>9, <2>10, <2>11,
       <2>12, <2>13, <1>3 DEF Umpire
<1>4. ASSUME NEW t \in Threads, Batsman(t) PROVE OrderTypeOK'
  <2>1. CASE EnterCrease(t)
    BY <2>1 DEF EnterCrease, Player, Threads
  <2>2. CASE AwaitStrike(t)
    BY <2>2 DEF AwaitStrike, Player, Threads
  <2>3. CASE SleepForDelivery(t)
    BY <2>3 DEF SleepForDelivery, Player, Threads
  <2>4. CASE AbandonDelivery(t)
    BY <2>4 DEF AbandonDelivery, ReleaseBowler, WakeBowler, Player,
       Threads
  <2>5. CASE PutBackDelivery(t)
    BY <2>5 DEF PutBackDelivery, WakeDelivery, Wake, Player, Threads
  <2>6. CASE TakeDelivery(t)
    BY <2>6 DEF TakeDelivery, Player, Threads
  <2>7. CASE ScoreRuns(t)
    BY <2>7 DEF ScoreRuns, RunsOf, Player, Threads
  <2>8. CASE Dismiss(t)
    BY <2>8 DEF Dismiss, Player, Threads
  <2>9. CASE Promote(t)
    <3>1. non_striker_id' \in Batsmen \cup {NoPlayer}
      BY <2>9, Zenon DEF Promote, AtCrease
    <3>2. /\ striker_id' = next_bat
          /\ UNCHANGED <<next_bat, is_out, is_active, holds_end, runout>>
      BY <2>9 DEF Promote
    <3> QED
      BY <3>1, <3>2
  <2>10. CASE WakePromoted(t)
    BY <2>10 DEF WakePromoted, WakeGate, Wake, Player, Threads
  <2>11. CASE SpawnNext(t)
    BY <2>11 DEF SpawnNext, Player, Threads
  <2>12. CASE FirstToken(t)
    BY <2>12 DEF FirstToken, ReleaseBowler, WakeBowler, Player,
       Threads
  <2>13. CASE EndDismissal(t)
    BY <2>13 DEF EndDismissal, Player, Threads
  <2>14. CASE PostResult(t)
    BY <2>14 DEF PostResult, Player, Threads
  <2>15. CASE StageRunOut(t)
    BY <2>15 DEF StageRunOut, Player, Threads
  <2>16. CASE Cross(t)
    BY <2>16 DEF Cross, Player, Threads
  <2>17. CASE SwapOnOddRuns(t)
    BY <2>17 DEF SwapOnOddRuns, Player, Threads
  <2>18. CASE WakeEnds(t)
    BY <2>18 DEF WakeEnds, WakeGate, Wake, Player, Threads
  <2>19. CASE SecondToken(t)
    BY <2>19 DEF SecondToken, ReleaseBowler, WakeBowler, Player,
       Threads
  <2>20. CASE Leave(t)
    BY <2>20 DEF Leave, Player, Threads
  <2>21. CASE LastToken(t)
    BY <2>21 DEF LastToken, ReleaseBowler, WakeBowler, Player,
       Threads
  <2>22. CASE PostCrease(t)
    BY <2>22 DEF PostCrease, Player, Threads
  <2> QED
    BY <2>1, <2>2, <2>3, <2>4, <2>5, <2>6, <2>7, <2>8, <2>9, <2>10, <2>11,
       <2>12, <2>13, <2>14, <2>15, <2>16, <2>17, <2>18, <2>19, <2>20, <2>21,
       <2>22, <1>4 DEF Batsman
<1>5. CASE InningsReturned \/ UNCHANGED vars
    BY <1>5 DEF InningsReturned
<1> QED
    BY <1>1, <1>2, <1>3, <1>4, <1>5 DEF Next

-----------------------------------------------------------------------------
(* What the engine, the bowler and the umpire do to the batsmen's threads. *)

\* They start a thread, or wake those that sleep on one condition.
LEMMA ServiceMoves ==
    ASSUME Engine \/ Bowler \/ Umpire
    PROVE  \/ UNCHANGED bat
           \/ Spawn(striker_id) \/ Spawn(runout.next)
           \/ bat' = WakeGate(bat) \/ bat' = WakeDelivery(bat)
<1>1. CASE Engine
    BY <1>1, Zenon DEF Engine, StartOver, ResetFlags, AssignStriker,
        SpawnStriker, SpawnBowler, JoinBowler, SwapEnds, WakeAfterSwap,
        FinishInnings, WakeAtEnd, RaiseFlags, JoinBatsman, JoinUmpire
<1>2. CASE Bowler
    BY <1>2, Zenon DEF Bowler, Deliver, BowlerDone, SleepForStroke,
        AckStroke, CountBall
<1>3. CASE Umpire
    BY <1>3, Zenon DEF Umpire, DetectDeadlock, MarkRunOut, CountRunOut,
        PromoteSurvivor, SendNextBatsman, SpawnReplacement, UmpireToken,
        WakeSurvivor, EndMatch, WakeGateAtEnd, RaiseFlagsAtEnd, PollAgain,
        UmpireDone
<1> QED
    BY <1>1, <1>2, <1>3

\* They leave alone what belongs to a batsman's ball and to the crease.
LEMMA ServiceLeaves ==
    ASSUME Engine \/ Bowler \/ Umpire
    PROVE  UNCHANGED <<crease_semaphore, is_active, stroke>>
<1>1. CASE Engine
    BY <1>1, Zenon DEF Engine, StartOver, ResetFlags, AssignStriker,
        SpawnStriker, SpawnBowler, JoinBowler, SwapEnds, WakeAfterSwap,
        FinishInnings, WakeAtEnd, RaiseFlags, JoinBatsman, JoinUmpire
<1>2. CASE Bowler
    BY <1>2, Zenon DEF Bowler, Deliver, BowlerDone, SleepForStroke,
        AckStroke, CountBall
<1>3. CASE Umpire
    BY <1>3, Zenon DEF Umpire, DetectDeadlock, MarkRunOut, CountRunOut,
        PromoteSurvivor, SendNextBatsman, SpawnReplacement, UmpireToken,
        WakeSurvivor, EndMatch, WakeGateAtEnd, RaiseFlagsAtEnd, PollAgain,
        UmpireDone
<1> QED
    BY <1>1, <1>2, <1>3

-----------------------------------------------------------------------------
(* The crease.                                                             *)

\* Where a thread that holds no slot is.
Outside == {"unborn", "sem", "done"}

SlotsUnchanged ==
    /\ crease_semaphore' = crease_semaphore
    /\ \A u \in Threads : bat'[u] \in Outside <=> bat[u] \in Outside

\* A new thread waits for the crease.
LEMMA SpawnMoves ==
    ASSUME TypeOK, NEW b, Spawn(b)
    PROVE  \A u \in Threads :
              bat'[u] = bat[u] \/ (bat[u] = "unborn" /\ bat'[u] = "sem")
<1>1. PICK k \in 1 .. MaxSpawns :
        /\ bat[<<b, k>>] = "unborn"
        /\ bat' = [bat EXCEPT ![<<b, k>>] = "sem"]
    BY Zenon DEF Spawn
<1> QED
    BY <1>1 DEF TypeOK, ThreadTypeOK

\* So they move nobody but those who sleep or are new.
LEMMA ServiceKeeps ==
    ASSUME TypeOK, Engine \/ Bowler \/ Umpire
    PROVE  \A u \in Threads :
              /\ bat'[u] \in Outside <=> bat[u] \in Outside
              /\ \/ bat'[u] = bat[u]
                 \/ /\ bat[u] \in {"unborn", "gateAsleep", "awaitAsleep"}
                    /\ bat'[u] \in {"sem", "gate", "await"}
<1> USE DEF TypeOK, ThreadTypeOK
<1>1. CASE UNCHANGED bat
    BY <1>1
<1>2. CASE Spawn(striker_id) \/ Spawn(runout.next)
    BY <1>2, SpawnMoves DEF Outside
<1>3. CASE bat' = WakeGate(bat) \/ bat' = WakeDelivery(bat)
    BY <1>3 DEF WakeGate, WakeDelivery, Wake, Outside
<1> QED
    BY <1>1, <1>2, <1>3, ServiceMoves

\* Two steps take a slot or give it back; nothing else does.
LEMMA OthersKeepSlots ==
    ASSUME TypeOK, [Next]_vars,
           \A t \in Threads : ~EnterCrease(t) /\ ~PostCrease(t)
    PROVE  SlotsUnchanged
<1> USE DEF TypeOK, ThreadTypeOK, SlotsUnchanged
<1>1. CASE Engine \/ Bowler \/ Umpire
    BY <1>1, ServiceLeaves, ServiceKeeps
<1>2. ASSUME NEW t \in Threads, Batsman(t) PROVE SlotsUnchanged
  <2>1. CASE AwaitStrike(t)
    BY <2>1 DEF AwaitStrike, MoveTo, Outside
  <2>2. CASE SleepForDelivery(t)
    BY <2>2 DEF SleepForDelivery, MoveTo, Outside
  <2>3. CASE AbandonDelivery(t)
    BY <2>3 DEF AbandonDelivery, ReleaseBowler, WakeBowler, MoveTo, Outside
  <2>4. CASE PutBackDelivery(t)
    BY <2>4 DEF PutBackDelivery, WakeDelivery, Wake, MoveTo, Outside
  <2>5. CASE TakeDelivery(t)
    BY <2>5 DEF TakeDelivery, MoveTo, Outside
  <2>6. CASE ScoreRuns(t)
    BY <2>6 DEF ScoreRuns, RunsOf, MoveTo, Outside
  <2>7. CASE Dismiss(t)
    BY <2>7 DEF Dismiss, MoveTo, Outside
  <2>8. CASE Promote(t)
    <3>1. bat[t] = "promote" /\ bat' = [bat EXCEPT ![t] = "wakePromoted"]
      BY <2>8, Zenon DEF Promote, MoveTo
    <3>2. crease_semaphore' = crease_semaphore
      BY <2>8, Zenon DEF Promote
    <3> QED
      BY <3>1, <3>2 DEF Outside
  <2>9. CASE WakePromoted(t)
    BY <2>9 DEF WakePromoted, WakeGate, Wake, MoveTo, Outside
  <2>10. CASE SpawnNext(t)
    <3>1. PICK k \in 1 .. MaxSpawns :
            /\ bat[<<next_bat, k>>] = "unborn"
            /\ bat' = [bat EXCEPT ![<<next_bat, k>>] = "sem", ![t] = "firstToken"]
      BY <2>10, Zenon DEF SpawnNext
    <3>2. bat[t] = "spawn" /\ crease_semaphore' = crease_semaphore
      BY <2>10 DEF SpawnNext
    <3> QED
      BY <3>1, <3>2 DEF Outside
  <2>11. CASE FirstToken(t)
    BY <2>11 DEF FirstToken, ReleaseBowler, WakeBowler, MoveTo, Outside
  <2>12. CASE EndDismissal(t)
    BY <2>12 DEF EndDismissal, MoveTo, Outside
  <2>13. CASE PostResult(t)
    BY <2>13 DEF PostResult, MoveTo, Outside
  <2>14. CASE StageRunOut(t)
    BY <2>14 DEF StageRunOut, MoveTo, Outside
  <2>15. CASE Cross(t)
    BY <2>15 DEF Cross, MoveTo, Outside
  <2>16. CASE SwapOnOddRuns(t)
    BY <2>16 DEF SwapOnOddRuns, MoveTo, Outside
  <2>17. CASE WakeEnds(t)
    BY <2>17 DEF WakeEnds, WakeGate, Wake, MoveTo, Outside
  <2>18. CASE SecondToken(t)
    BY <2>18 DEF SecondToken, ReleaseBowler, WakeBowler, MoveTo, Outside
  <2>19. CASE Leave(t)
    BY <2>19 DEF Leave, MoveTo, Outside
  <2>20. CASE LastToken(t)
    BY <2>20 DEF LastToken, ReleaseBowler, WakeBowler, MoveTo, Outside
  <2> QED
    BY <2>1, <2>2, <2>3, <2>4, <2>5, <2>6, <2>7, <2>8, <2>9, <2>10, <2>11,
       <2>12, <2>13, <2>14, <2>15, <2>16, <2>17, <2>18, <2>19, <2>20, <1>2 DEF
       Batsman
<1>3. CASE InningsReturned \/ UNCHANGED vars
    BY <1>3, Zenon DEF InningsReturned
<1> QED
    BY <1>1, <1>2, <1>3 DEF Next

LEMMA SlotsAreFinite ==
    /\ IsFiniteSet(InsideCrease)
    /\ Cardinality(InsideCrease) \in Nat
<1>1. IsFiniteSet(Batsmen) /\ IsFiniteSet(1 .. MaxSpawns)
    BY FS_Interval, BatsmenAssumption, BoundsAssumption DEF Batsmen
<1>2. IsFiniteSet(Threads)
    BY <1>1, FS_Product DEF Threads
<1>3. InsideCrease \in SUBSET Threads
    BY DEF InsideCrease
<1> QED
    BY <1>2, <1>3, FS_Subset, FS_CardinalityType

LEMMA CreaseStep ==
    ASSUME TypeOK, CreaseConserved, [Next]_vars
    PROVE  CreaseConserved' /\ crease_semaphore' \in 0 .. 2
<1> USE DEF TypeOK, ThreadTypeOK
<1>1. crease_semaphore \in 0 .. 2 /\ crease_semaphore + Cardinality(InsideCrease) = 2
    BY DEF CreaseConserved
<1>2. ASSUME NEW t \in Threads, EnterCrease(t)
      PROVE  CreaseConserved' /\ crease_semaphore' \in 0 .. 2
  <2>1. crease_semaphore > 0 /\ crease_semaphore' = crease_semaphore - 1
    BY <1>2 DEF EnterCrease
  <2>2. bat[t] = "sem" /\ bat' = [bat EXCEPT ![t] = "gate"]
    BY <1>2 DEF EnterCrease, MoveTo
  <2>3. t \notin InsideCrease /\ InsideCrease' = InsideCrease \cup {t}
    BY <2>2 DEF InsideCrease
  <2>4. Cardinality(InsideCrease') = Cardinality(InsideCrease) + 1
    BY <2>3, SlotsAreFinite, FS_AddElement
  <2> QED
    BY <1>1, <2>1, <2>4, SlotsAreFinite DEF CreaseConserved
<1>3. ASSUME NEW t \in Threads, PostCrease(t)
      PROVE  CreaseConserved' /\ crease_semaphore' \in 0 .. 2
  <2>1. crease_semaphore' = crease_semaphore + 1
    BY <1>3 DEF PostCrease
  <2>2. bat[t] = "post" /\ bat' = [bat EXCEPT ![t] = "done"]
    BY <1>3 DEF PostCrease, MoveTo
  <2>3. t \in InsideCrease /\ InsideCrease' = InsideCrease \ {t}
    BY <2>2 DEF InsideCrease
  <2>4. Cardinality(InsideCrease') = Cardinality(InsideCrease) - 1
    BY <2>3, SlotsAreFinite, FS_RemoveElement
  <2>5. IsFiniteSet(InsideCrease') /\ Cardinality(InsideCrease') \in Nat
    BY <2>3, SlotsAreFinite, FS_RemoveElement, FS_CardinalityType
  <2> QED
    BY <1>1, <2>1, <2>4, <2>5, SlotsAreFinite DEF CreaseConserved
<1>4. CASE \A t \in Threads : ~EnterCrease(t) /\ ~PostCrease(t)
  <2>1. SlotsUnchanged
    BY <1>4, OthersKeepSlots
  <2>2. InsideCrease' = InsideCrease
    BY <2>1 DEF SlotsUnchanged, Outside, InsideCrease
  <2> QED
    BY <1>1, <2>1, <2>2 DEF SlotsUnchanged, CreaseConserved
<1> QED
    BY <1>2, <1>3, <1>4

-----------------------------------------------------------------------------
(* Program counters.                                                       *)

LEMMA SpawnTypes ==
    ASSUME TypeOK, NEW b, Spawn(b)
    PROVE  /\ thread_id' \in [Batsmen -> 0 .. MaxSpawns]
           /\ bat' \in [Threads -> {"unborn", "sem", "gate", "gateAsleep", "await",
                             "awaitAsleep", "stroke", "promote",
                             "wakePromoted", "spawn", "firstToken", "unlock",
                             "result", "stage", "cross", "swapEnds", "wakeEnds",
                             "secondToken", "leave", "lastToken", "post",
                             "done"}]
<1>1. PICK k \in 1 .. MaxSpawns :
        /\ bat' = [bat EXCEPT ![<<b, k>>] = "sem"]
        /\ thread_id' = [thread_id EXCEPT ![b] = k]
    BY Zenon DEF Spawn
<1>2. k \in 0 .. MaxSpawns
    BY BoundsAssumption
<1> QED
    BY <1>1, <1>2 DEF TypeOK, ThreadTypeOK

LEMMA ThreadTypes ==
    ASSUME TypeOK, [Next]_vars, crease_semaphore' \in 0 .. 2
    PROVE  ThreadTypeOK'
<1> USE DEF TypeOK, ThreadTypeOK
<1>1. CASE Engine
  <2>1. CASE StartOver
    BY <2>1 DEF StartOver
  <2>2. CASE ResetFlags
    BY <2>2 DEF ResetFlags
  <2>3. CASE AssignStriker
    BY <2>3 DEF AssignStriker
  <2>4. CASE SpawnStriker
    BY <2>4, SpawnTypes DEF SpawnStriker
  <2>5. CASE SpawnBowler
    BY <2>5 DEF SpawnBowler
  <2>6. CASE JoinBowler
    BY <2>6 DEF JoinBowler
  <2>7. CASE SwapEnds
    BY <2>7 DEF SwapEnds
  <2>8. CASE WakeAfterSwap
    BY <2>8 DEF WakeAfterSwap, WakeGate, Wake
  <2>9. CASE FinishInnings
    BY <2>9 DEF FinishInnings
  <2>10. CASE WakeAtEnd
    BY <2>10 DEF WakeAtEnd, WakeGate, Wake
  <2>11. CASE RaiseFlags
    BY <2>11, BatsmenAssumption DEF RaiseFlags, WakeDelivery, Wake,
       ReleaseBowler, WakeBowler
  <2>12. CASE JoinBatsman
    <3>1. joining' \in 0 .. NB + 1
      BY <2>12, BatsmenAssumption DEF JoinBatsman, Batsmen
    <3>2. thread_id' \in [Batsmen -> 0 .. MaxSpawns]
      BY <2>12, BoundsAssumption DEF JoinBatsman
    <3> QED
      BY <2>12, <3>1, <3>2 DEF JoinBatsman
  <2>13. CASE JoinUmpire
    BY <2>13, BatsmenAssumption DEF JoinUmpire
  <2> QED
    BY <2>1, <2>2, <2>3, <2>4, <2>5, <2>6, <2>7, <2>8, <2>9, <2>10, <2>11,
       <2>12, <2>13, <1>1 DEF Engine
<1>2. CASE Bowler
  <2>1. CASE Deliver
    BY <2>1 DEF Deliver, WakeDelivery, Wake, BoardTypeOK
  <2>2. CASE BowlerDone
    BY <2>2 DEF BowlerDone
  <2>3. CASE SleepForStroke
    BY <2>3 DEF SleepForStroke
  <2>4. CASE AckStroke
    BY <2>4 DEF AckStroke
  <2>5. CASE CountBall
    BY <2>5 DEF CountBall
  <2> QED
    BY <2>1, <2>2, <2>3, <2>4, <2>5, <1>2 DEF Bowler
<1>3. CASE Umpire
  <2>1. CASE DetectDeadlock
    <3>1. umpire' = "victim"
      BY <2>1, Zenon DEF DetectDeadlock
    <3>2. UNCHANGED <<thread_id, pitch_buffer, crease_semaphore, bat, bowler,
                      engine, joining>>
      BY <2>1, Zenon DEF DetectDeadlock
    <3> QED
      BY <3>1, <3>2
  <2>2. CASE MarkRunOut
    BY <2>2 DEF MarkRunOut
  <2>3. CASE CountRunOut
    BY <2>3 DEF CountRunOut
  <2>4. CASE PromoteSurvivor
    BY <2>4 DEF PromoteSurvivor
  <2>5. CASE SendNextBatsman
    BY <2>5 DEF SendNextBatsman
  <2>6. CASE SpawnReplacement
    BY <2>6, SpawnTypes DEF SpawnReplacement
  <2>7. CASE UmpireToken
    BY <2>7 DEF UmpireToken, ReleaseBowler, WakeBowler
  <2>8. CASE WakeSurvivor
    BY <2>8 DEF WakeSurvivor, WakeGate, Wake, NobodyOut
  <2>9. CASE EndMatch
    BY <2>9 DEF EndMatch
  <2>10. CASE WakeGateAtEnd
    BY <2>10 DEF WakeGateAtEnd, WakeGate, Wake
  <2>11. CASE RaiseFlagsAtEnd
    BY <2>11 DEF RaiseFlagsAtEnd, WakeDelivery, Wake, ReleaseBowler,
       WakeBowler
  <2>12. CASE PollAgain
    BY <2>12 DEF PollAgain
  <2>13. CASE UmpireDone
    BY <2>13 DEF UmpireDone
  <2> QED
    BY <2>1, <2>2, <2>3, <2>4, <2>5, <2>6, <2>7, <2>8, <2>9, <2>10, <2>11,
       <2>12, <2>13, <1>3 DEF Umpire
<1>4. ASSUME NEW t \in Threads, Batsman(t) PROVE ThreadTypeOK'
  <2>1. CASE EnterCrease(t)
    BY <2>1 DEF EnterCrease, MoveTo
  <2>2. CASE AwaitStrike(t)
    BY <2>2 DEF AwaitStrike, MoveTo
  <2>3. CASE SleepForDelivery(t)
    BY <2>3 DEF SleepForDelivery, MoveTo
  <2>4. CASE AbandonDelivery(t)
    BY <2>4 DEF AbandonDelivery, ReleaseBowler, WakeBowler, MoveTo
  <2>5. CASE PutBackDelivery(t)
    BY <2>5 DEF PutBackDelivery, WakeDelivery, Wake, MoveTo
  <2>6. CASE TakeDelivery(t)
    BY <2>6 DEF TakeDelivery, MoveTo
  <2>7. CASE ScoreRuns(t)
    BY <2>7 DEF ScoreRuns, RunsOf, MoveTo
  <2>8. CASE Dismiss(t)
    BY <2>8 DEF Dismiss, MoveTo
  <2>9. CASE Promote(t)
    <3>1. bat' = [bat EXCEPT ![t] = "wakePromoted"]
      BY <2>9, Zenon DEF Promote, MoveTo
    <3>2. UNCHANGED <<thread_id, pitch_buffer, crease_semaphore, bowler, umpire,
                      engine, joining>>
      BY <2>9, Zenon DEF Promote
    <3> QED
      BY <3>1, <3>2
  <2>10. CASE WakePromoted(t)
    BY <2>10 DEF WakePromoted, WakeGate, Wake, MoveTo
  <2>11. CASE SpawnNext(t)
    <3>1. PICK k \in 1 .. MaxSpawns :
            /\ bat' = [bat EXCEPT ![<<next_bat, k>>] = "sem", ![t] = "firstToken"]
            /\ thread_id' = [thread_id EXCEPT ![next_bat] = k]
      BY <2>11, Zenon DEF SpawnNext
    <3>2. UNCHANGED <<pitch_buffer, crease_semaphore, bowler, umpire, engine,
                      joining>>
      BY <2>11, Zenon DEF SpawnNext
    <3>3. k \in 0 .. MaxSpawns
      BY BoundsAssumption
    <3> QED
      BY <3>1, <3>2, <3>3
  <2>12. CASE FirstToken(t)
    BY <2>12 DEF FirstToken, ReleaseBowler, WakeBowler, MoveTo
  <2>13. CASE EndDismissal(t)
    BY <2>13 DEF EndDismissal, MoveTo
  <2>14. CASE PostResult(t)
    BY <2>14 DEF PostResult, MoveTo
  <2>15. CASE StageRunOut(t)
    BY <2>15 DEF StageRunOut, MoveTo
  <2>16. CASE Cross(t)
    BY <2>16 DEF Cross, MoveTo
  <2>17. CASE SwapOnOddRuns(t)
    BY <2>17 DEF SwapOnOddRuns, MoveTo
  <2>18. CASE WakeEnds(t)
    BY <2>18 DEF WakeEnds, WakeGate, Wake, MoveTo
  <2>19. CASE SecondToken(t)
    BY <2>19 DEF SecondToken, ReleaseBowler, WakeBowler, MoveTo
  <2>20. CASE Leave(t)
    BY <2>20 DEF Leave, MoveTo
  <2>21. CASE LastToken(t)
    BY <2>21 DEF LastToken, ReleaseBowler, WakeBowler, MoveTo
  <2>22. CASE PostCrease(t)
    <3>1. bat' = [bat EXCEPT ![t] = "done"]
      BY <2>22 DEF PostCrease, MoveTo
    <3>2. UNCHANGED <<thread_id, pitch_buffer, bowler, umpire, engine, joining>>
      BY <2>22 DEF PostCrease
    <3> QED
      BY <3>1, <3>2
  <2> QED
    BY <2>1, <2>2, <2>3, <2>4, <2>5, <2>6, <2>7, <2>8, <2>9, <2>10, <2>11,
       <2>12, <2>13, <2>14, <2>15, <2>16, <2>17, <2>18, <2>19, <2>20, <2>21,
       <2>22, <1>4 DEF Batsman
<1>5. CASE InningsReturned \/ UNCHANGED vars
    BY <1>5 DEF InningsReturned
<1> QED
    BY <1>1, <1>2, <1>3, <1>4, <1>5 DEF Next

\* A ball is in hand from the moment its outcome is known.
LEMMA StrokeStep ==
    ASSUME TypeOK, StrokeInv, [Next]_vars
    PROVE  StrokeInv'
<1> USE DEF TypeOK, BoardTypeOK, ThreadTypeOK
<1>1. CASE Engine \/ Bowler \/ Umpire
    BY <1>1, ServiceLeaves, ServiceKeeps DEF StrokeInv
<1>2. ASSUME NEW t \in Threads, Batsman(t) PROVE StrokeInv'
  <2>1. CASE EnterCrease(t)
    BY <2>1 DEF EnterCrease, MoveTo, StrokeInv
  <2>2. CASE AwaitStrike(t)
    BY <2>2 DEF AwaitStrike, MoveTo, StrokeInv
  <2>3. CASE SleepForDelivery(t)
    BY <2>3 DEF SleepForDelivery, MoveTo, StrokeInv
  <2>4. CASE AbandonDelivery(t)
    BY <2>4 DEF AbandonDelivery, ReleaseBowler, WakeBowler, MoveTo,
       StrokeInv
  <2>5. CASE PutBackDelivery(t)
    BY <2>5 DEF PutBackDelivery, WakeDelivery, Wake, MoveTo, StrokeInv
  <2>6. CASE TakeDelivery(t)
    BY <2>6 DEF TakeDelivery, MoveTo, StrokeInv
  <2>7. CASE ScoreRuns(t)
    BY <2>7 DEF ScoreRuns, RunsOf, MoveTo, StrokeInv
  <2>8. CASE Dismiss(t)
    BY <2>8 DEF Dismiss, MoveTo, StrokeInv
  <2>9. CASE Promote(t)
    <3>1. bat[t] = "promote" /\ bat' = [bat EXCEPT ![t] = "wakePromoted"]
      BY <2>9, Zenon DEF Promote, MoveTo
    <3>2. UNCHANGED stroke
      BY <2>9, Zenon DEF Promote
    <3> QED
      BY <3>1, <3>2 DEF StrokeInv
  <2>10. CASE WakePromoted(t)
    BY <2>10 DEF WakePromoted, WakeGate, Wake, MoveTo, StrokeInv
  <2>11. CASE SpawnNext(t)
    <3>1. PICK k \in 1 .. MaxSpawns :
            bat' = [bat EXCEPT ![<<next_bat, k>>] = "sem", ![t] = "firstToken"]
      BY <2>11, Zenon DEF SpawnNext
    <3>2. bat[t] = "spawn" /\ UNCHANGED stroke
      BY <2>11 DEF SpawnNext
    <3> QED
      BY <3>1, <3>2 DEF StrokeInv
  <2>12. CASE FirstToken(t)
    BY <2>12 DEF FirstToken, ReleaseBowler, WakeBowler, MoveTo, StrokeInv
  <2>13. CASE EndDismissal(t)
    BY <2>13 DEF EndDismissal, MoveTo, StrokeInv
  <2>14. CASE PostResult(t)
    BY <2>14 DEF PostResult, MoveTo, StrokeInv
  <2>15. CASE StageRunOut(t)
    BY <2>15 DEF StageRunOut, MoveTo, StrokeInv
  <2>16. CASE Cross(t)
    BY <2>16 DEF Cross, MoveTo, StrokeInv
  <2>17. CASE SwapOnOddRuns(t)
    BY <2>17 DEF SwapOnOddRuns, MoveTo, StrokeInv
  <2>18. CASE WakeEnds(t)
    BY <2>18 DEF WakeEnds, WakeGate, Wake, MoveTo, StrokeInv
  <2>19. CASE SecondToken(t)
    BY <2>19 DEF SecondToken, ReleaseBowler, WakeBowler, MoveTo, StrokeInv
  <2>20. CASE Leave(t)
    BY <2>20 DEF Leave, MoveTo, StrokeInv
  <2>21. CASE LastToken(t)
    BY <2>21 DEF LastToken, ReleaseBowler, WakeBowler, MoveTo, StrokeInv
  <2>22. CASE PostCrease(t)
    BY <2>22 DEF PostCrease, MoveTo, StrokeInv
  <2> QED
    BY <2>1, <2>2, <2>3, <2>4, <2>5, <2>6, <2>7, <2>8, <2>9, <2>10, <2>11,
       <2>12, <2>13, <2>14, <2>15, <2>16, <2>17, <2>18, <2>19, <2>20, <2>21,
       <2>22, <1>2 DEF Batsman
<1>3. CASE InningsReturned \/ UNCHANGED vars
    BY <1>3 DEF InningsReturned, StrokeInv
<1> QED
    BY <1>1, <1>2, <1>3 DEF Next

-----------------------------------------------------------------------------
(* Who is still needed.                                                    *)

\* Dismissals and the end of the match are for good.
LEMMA NobodyReturns ==
    ASSUME TypeOK, [Next]_vars
    PROVE  /\ match_over => match_over'
           /\ \A b \in Batsmen : is_out[b] => is_out'[b]
<1> USE DEF TypeOK, OrderTypeOK, ThreadTypeOK
<1>1. CASE Engine
  <2>1. UNCHANGED is_out
    BY <1>1, Zenon DEF Engine, StartOver, ResetFlags, AssignStriker,
        SpawnStriker, SpawnBowler, JoinBowler, SwapEnds, WakeAfterSwap,
        FinishInnings, WakeAtEnd, RaiseFlags, JoinBatsman, JoinUmpire
  <2>2. match_over => match_over'
    BY <1>1, Zenon DEF Engine, StartOver, ResetFlags, AssignStriker,
        SpawnStriker, SpawnBowler, JoinBowler, SwapEnds, WakeAfterSwap,
        FinishInnings, WakeAtEnd, RaiseFlags, JoinBatsman, JoinUmpire
  <2> QED
    BY <2>1, <2>2, Zenon
<1>2. CASE Bowler
  <2>1. UNCHANGED is_out
    BY <1>2, Zenon DEF Bowler, Deliver, BowlerDone, SleepForStroke,
        AckStroke, CountBall
  <2>2. match_over => match_over'
    BY <1>2, Zenon DEF Bowler, Deliver, BowlerDone, SleepForStroke,
        AckStroke, CountBall
  <2> QED
    BY <2>1, <2>2, Zenon
<1>3. CASE Umpire
  <2>1. CASE MarkRunOut
    BY <2>1 DEF MarkRunOut
  <2>2. CASE Umpire /\ ~MarkRunOut
    <3>1. UNCHANGED is_out
      BY <2>2, Zenon DEF Umpire, DetectDeadlock, CountRunOut,
          PromoteSurvivor, SendNextBatsman, SpawnReplacement, UmpireToken,
          WakeSurvivor, EndMatch, WakeGateAtEnd, RaiseFlagsAtEnd, PollAgain,
          UmpireDone
    <3>2. match_over => match_over'
      BY <2>2, Zenon DEF Umpire, DetectDeadlock, CountRunOut,
          PromoteSurvivor, SendNextBatsman, SpawnReplacement, UmpireToken,
          WakeSurvivor, EndMatch, WakeGateAtEnd, RaiseFlagsAtEnd, PollAgain,
          UmpireDone
    <3> QED
      BY <3>1, <3>2, Zenon
  <2> QED
    BY <1>3, <2>1, <2>2
<1>4. ASSUME NEW t \in Threads, Batsman(t)
      PROVE  /\ match_over => match_over'
             /\ \A b \in Batsmen : is_out[b] => is_out'[b]
  <2>1. CASE Dismiss(t)
    BY <2>1 DEF Dismiss
  <2>2. CASE Batsman(t) /\ ~Dismiss(t)
    <3>1. UNCHANGED is_out
      BY <2>2, Zenon DEF Batsman, EnterCrease, AwaitStrike,
          SleepForDelivery, AbandonDelivery, PutBackDelivery, TakeDelivery,
          ScoreRuns, Promote, WakePromoted, SpawnNext, FirstToken,
          EndDismissal, PostResult, StageRunOut, Cross, SwapOnOddRuns,
          WakeEnds, SecondToken, Leave, LastToken, PostCrease
    <3>2. match_over => match_over'
      BY <2>2, Zenon DEF Batsman, EnterCrease, AwaitStrike,
          SleepForDelivery, AbandonDelivery, PutBackDelivery, TakeDelivery,
          ScoreRuns, Promote, WakePromoted, SpawnNext, FirstToken,
          EndDismissal, PostResult, StageRunOut, Cross, SwapOnOddRuns,
          WakeEnds, SecondToken, Leave, LastToken, PostCrease
    <3> QED
      BY <3>1, <3>2, Zenon
  <2> QED
    BY <1>4, <2>1, <2>2
<1>5. CASE InningsReturned \/ UNCHANGED vars
  <2>1. UNCHANGED <<match_over, is_out>>
    BY <1>5, Zenon DEF InningsReturned
  <2> QED
    BY <2>1, Zenon
<1> QED
    BY <1>1, <1>2, <1>3, <1>4, <1>5 DEF Next

\* A thread inside the crease is of a batsman who is at the crease, unless it
\* has to leave; and it leaves only if it has to.
PresentInv ==
    \A t \in Threads :
        /\ bat[t] \notin Outside => is_active[Player(t)] \/ MustLeave(t)
        /\ bat[t] \in {"leave", "lastToken", "post"} => MustLeave(t)

LEMMA PlayerIsBatsman == \A t \in Threads : Player(t) \in Batsmen
BY DEF Player, Threads

LEMMA PresentStep ==
    ASSUME TypeOK, PresentInv, [Next]_vars
    PROVE  PresentInv'
<1> USE DEF TypeOK, OrderTypeOK, ThreadTypeOK
<1>1. \A u \in Threads : MustLeave(u) => MustLeave(u)'
    BY NobodyReturns, PlayerIsBatsman DEF MustLeave, Player
<1>2. CASE Engine \/ Bowler \/ Umpire
    BY <1>1, <1>2, ServiceLeaves, ServiceKeeps DEF PresentInv, Player
<1>3. ASSUME NEW t \in Threads, Batsman(t) PROVE PresentInv'
  <2>1. CASE EnterCrease(t)
    <3>1. bat[t] = "sem" /\ bat' = [bat EXCEPT ![t] = "gate"]
      BY <2>1 DEF EnterCrease, MoveTo
    <3>2. is_active' = [is_active EXCEPT ![Player(t)] = TRUE]
      BY <2>1, Zenon DEF EnterCrease
    <3>3. /\ is_active'[Player(t)]
          /\ \A b \in Batsmen : is_active[b] => is_active'[b]
      BY <3>2, PlayerIsBatsman, Zenon
    <3> QED
      BY <3>1, <3>3, <1>1, PlayerIsBatsman DEF PresentInv, Outside, Player
  <2>2. CASE AwaitStrike(t)
    <3>1. bat[t] = "gate" /\ UNCHANGED is_active
      BY <2>2 DEF AwaitStrike
    <3>2. CASE MustLeave(t)
      <4>1. bat' = [bat EXCEPT ![t] = "leave"]
        BY <2>2, <3>2 DEF AwaitStrike, MoveTo
      <4> QED
        BY <3>1, <3>2, <4>1, <1>1 DEF PresentInv, Outside, Player
    <3>3. CASE ~MustLeave(t)
      <4>1. bat' = [bat EXCEPT ![t] = IF OnStrike(t) THEN "await" ELSE "gateAsleep"]
        BY <2>2, <3>3 DEF AwaitStrike, MoveTo
      <4> QED
        BY <3>1, <4>1, <1>1 DEF PresentInv, Outside, Player
    <3> QED
      BY <3>2, <3>3
  <2>3. CASE SleepForDelivery(t)
    BY <2>3, <1>1 DEF SleepForDelivery, MoveTo, PresentInv, Outside, Player
  <2>4. CASE AbandonDelivery(t)
    BY <2>4, <1>1 DEF AbandonDelivery, ReleaseBowler, WakeBowler, MoveTo,
       PresentInv, Outside, Player
  <2>5. CASE PutBackDelivery(t)
    BY <2>5, <1>1 DEF PutBackDelivery, WakeDelivery, Wake, MoveTo,
       PresentInv, Outside, Player
  <2>6. CASE TakeDelivery(t)
    BY <2>6, <1>1 DEF TakeDelivery, MoveTo, PresentInv, Outside, Player
  <2>7. CASE ScoreRuns(t)
    BY <2>7, <1>1 DEF ScoreRuns, RunsOf, MoveTo, PresentInv, Outside, Player
  <2>8. CASE Dismiss(t)
    BY <2>8, <1>1 DEF Dismiss, MoveTo, PresentInv, Outside, Player
  <2>9. CASE Promote(t)
    <3>1. bat[t] = "promote" /\ bat' = [bat EXCEPT ![t] = "wakePromoted"]
      BY <2>9, Zenon DEF Promote, MoveTo
    <3>2. UNCHANGED is_active
      BY <2>9, Zenon DEF Promote
    <3> QED
      BY <3>1, <3>2, <1>1 DEF PresentInv, Outside, Player
  <2>10. CASE WakePromoted(t)
    BY <2>10, <1>1 DEF WakePromoted, WakeGate, Wake, MoveTo, PresentInv,
       Outside, Player
  <2>11. CASE SpawnNext(t)
    <3>1. PICK k \in 1 .. MaxSpawns :
            /\ bat[<<next_bat, k>>] = "unborn"
            /\ bat' = [bat EXCEPT ![<<next_bat, k>>] = "sem", ![t] = "firstToken"]
      BY <2>11, Zenon DEF SpawnNext
    <3>2. bat[t] = "spawn" /\ UNCHANGED is_active
      BY <2>11 DEF SpawnNext
    <3> QED
      BY <3>1, <3>2, <1>1 DEF PresentInv, Outside, Player
  <2>12. CASE FirstToken(t)
    BY <2>12, <1>1 DEF FirstToken, ReleaseBowler, WakeBowler, MoveTo,
       PresentInv, Outside, Player
  <2>13. CASE EndDismissal(t)
    BY <2>13, <1>1 DEF EndDismissal, MoveTo, PresentInv, Outside, Player
  <2>14. CASE PostResult(t)
    BY <2>14, <1>1 DEF PostResult, MoveTo, PresentInv, Outside, Player
  <2>15. CASE StageRunOut(t)
    BY <2>15, <1>1 DEF StageRunOut, MoveTo, PresentInv, Outside, Player
  <2>16. CASE Cross(t)
    BY <2>16, <1>1 DEF Cross, MoveTo, PresentInv, Outside, Player
  <2>17. CASE SwapOnOddRuns(t)
    BY <2>17, <1>1 DEF SwapOnOddRuns, MoveTo, PresentInv, Outside, Player
  <2>18. CASE WakeEnds(t)
    BY <2>18, <1>1 DEF WakeEnds, WakeGate, Wake, MoveTo, PresentInv,
       Outside, Player
  <2>19. CASE SecondToken(t)
    BY <2>19, <1>1 DEF SecondToken, ReleaseBowler, WakeBowler, MoveTo,
       PresentInv, Outside, Player
  <2>20. CASE Leave(t)
    <3>1. bat[t] = "leave" /\ bat' = [bat EXCEPT ![t] = "lastToken"]
      BY <2>20 DEF Leave, MoveTo
    <3>2. is_active' = [is_active EXCEPT ![Player(t)] = FALSE]
      BY <2>20, Zenon DEF Leave
    <3>3. \A b \in Batsmen : is_active[b] => b = Player(t) \/ is_active'[b]
      BY <3>2, PlayerIsBatsman, Zenon
    <3>4. \A u \in Threads : Player(u) = Player(t) => MustLeave(u)
      BY <3>1 DEF PresentInv, MustLeave
    <3> QED
      BY <3>1, <3>3, <3>4, <1>1, PlayerIsBatsman DEF PresentInv, Outside, Player
  <2>21. CASE LastToken(t)
    BY <2>21, <1>1 DEF LastToken, ReleaseBowler, WakeBowler, MoveTo,
       PresentInv, Outside, Player
  <2>22. CASE PostCrease(t)
    BY <2>22, <1>1 DEF PostCrease, MoveTo, PresentInv, Outside, Player
  <2> QED
    BY <2>1, <2>2, <2>3, <2>4, <2>5, <2>6, <2>7, <2>8, <2>9, <2>10, <2>11,
       <2>12, <2>13, <2>14, <2>15, <2>16, <2>17, <2>18, <2>19, <2>20, <2>21,
       <2>22, <1>3 DEF Batsman
<1>4. CASE InningsReturned \/ UNCHANGED vars
    BY <1>1, <1>4 DEF InningsReturned, PresentInv, Player
<1> QED
    BY <1>2, <1>3, <1>4 DEF Next

-----------------------------------------------------------------------------
(* Condition variables.                                                    *)

\* Nobody sleeps on striker_changed_cond who is needed.
GateInv ==
    \A t \in Threads :
        bat[t] = "gateAsleep" /\ (OnStrike(t) \/ match_over) => GateBroadcastPending

LEMMA GateStep ==
    ASSUME TypeOK, PresentInv, GateInv, [Next]_vars
    PROVE  GateInv'
<1> USE DEF TypeOK, OrderTypeOK, ThreadTypeOK, GateInv
<1>1. ASSUME \A u \in Threads : bat'[u] # "gateAsleep"
      PROVE  GateInv'
    BY <1>1
<1>2. ASSUME UNCHANGED <<striker_id, match_over>>,
             \A u \in Threads : bat'[u] = "gateAsleep" => bat[u] = "gateAsleep",
             GateBroadcastPending => GateBroadcastPending'
      PROVE  GateInv'
    BY <1>2 DEF OnStrike, Player
<1>3. CASE Engine
  <2>1. CASE StartOver
    BY <2>1, <1>2 DEF StartOver, GateBroadcastPending
  <2>2. CASE ResetFlags
    BY <2>2, <1>2 DEF ResetFlags, GateBroadcastPending
  <2>3. CASE AssignStriker
    <3>1. CASE UNCHANGED striker_id
      BY <2>3, <3>1, <1>2 DEF AssignStriker, GateBroadcastPending
    <3>2. ASSUME NEW b \in Waiting, striker_id' = b, engine' = "spawn"
          PROVE  GateInv'
      <4>1. ~is_active[b] /\ ~is_out[b] /\ b \in Batsmen
        BY <3>2 DEF Waiting
      <4>2. engine = "striker" /\ UNCHANGED <<bat, umpire, match_over>>
        BY <2>3 DEF AssignStriker
      <4>3. GateBroadcastPending <=> GateBroadcastPending'
        BY <3>2, <4>2 DEF GateBroadcastPending
      <4>4. \A u \in Threads : bat[u] = "gateAsleep" /\ Player(u) = b => match_over
        BY <4>1 DEF PresentInv, Outside, MustLeave
      <4> QED
        BY <3>2, <4>2, <4>3, <4>4 DEF OnStrike, Player
    <3> QED
      BY <2>3, <3>1, <3>2 DEF AssignStriker
  <2>4. CASE SpawnStriker
    <3>1. \A u \in Threads : bat'[u] = bat[u] \/ (bat[u] = "unborn" /\ bat'[u] = "sem")
      BY <2>4, SpawnMoves DEF SpawnStriker
    <3>2. engine = "spawn" /\ UNCHANGED <<striker_id, match_over, umpire>>
      BY <2>4 DEF SpawnStriker
    <3> QED
      BY <3>1, <3>2, <1>2 DEF GateBroadcastPending
  <2>5. CASE SpawnBowler
    BY <2>5, <1>2 DEF SpawnBowler, GateBroadcastPending
  <2>6. CASE JoinBowler
    BY <2>6, <1>2 DEF JoinBowler, GateBroadcastPending
  <2>7. CASE SwapEnds
    BY <2>7 DEF SwapEnds, GateBroadcastPending, OnStrike, Player
  <2>8. CASE WakeAfterSwap
    BY <2>8, <1>1 DEF WakeAfterSwap, WakeGate, Wake
  <2>9. CASE FinishInnings
    BY <2>9 DEF FinishInnings, GateBroadcastPending, OnStrike, Player
  <2>10. CASE WakeAtEnd
    BY <2>10, <1>1 DEF WakeAtEnd, WakeGate, Wake
  <2>11. CASE RaiseFlags
    BY <2>11, <1>2 DEF RaiseFlags, WakeDelivery, Wake, ReleaseBowler,
       WakeBowler, GateBroadcastPending
  <2>12. CASE JoinBatsman
    BY <2>12, <1>2 DEF JoinBatsman, GateBroadcastPending
  <2>13. CASE JoinUmpire
    BY <2>13, <1>2 DEF JoinUmpire, GateBroadcastPending
  <2> QED
    BY <2>1, <2>2, <2>3, <2>4, <2>5, <2>6, <2>7, <2>8, <2>9, <2>10, <2>11,
       <2>12, <2>13, <1>3 DEF Engine
<1>4. CASE Bowler
  <2>1. CASE Deliver
    BY <2>1, <1>2 DEF Deliver, WakeDelivery, Wake, GateBroadcastPending
  <2>2. CASE BowlerDone
    BY <2>2, <1>2 DEF BowlerDone, GateBroadcastPending
  <2>3. CASE SleepForStroke
    BY <2>3, <1>2 DEF SleepForStroke, GateBroadcastPending
  <2>4. CASE AckStroke
    BY <2>4, <1>2 DEF AckStroke, GateBroadcastPending
  <2>5. CASE CountBall
    BY <2>5, <1>2 DEF CountBall, GateBroadcastPending
  <2> QED
    BY <2>1, <2>2, <2>3, <2>4, <2>5, <1>4 DEF Bowler
<1>5. CASE Umpire
  <2>1. CASE DetectDeadlock
    <3>1. umpire = "poll" /\ UNCHANGED <<striker_id, match_over, bat, engine>>
      BY <2>1, Zenon DEF DetectDeadlock
    <3> QED
      BY <3>1, <1>2 DEF GateBroadcastPending
  <2>2. CASE MarkRunOut
    BY <2>2, <1>2 DEF MarkRunOut, GateBroadcastPending
  <2>3. CASE CountRunOut
    BY <2>3, <1>2 DEF CountRunOut, GateBroadcastPending
  <2>4. CASE PromoteSurvivor
    BY <2>4 DEF PromoteSurvivor, GateBroadcastPending
  <2>5. CASE SendNextBatsman
    <3>1. umpire' \in {"spawn", "token"}
      BY <2>5, Zenon DEF SendNextBatsman
    <3>2. UNCHANGED <<striker_id, match_over, bat, engine>>
      BY <2>5, Zenon DEF SendNextBatsman
    <3> QED
      BY <3>1, <3>2, <1>2 DEF GateBroadcastPending
  <2>6. CASE SpawnReplacement
    <3>1. umpire' = "token" /\ UNCHANGED <<striker_id, match_over>>
      BY <2>6 DEF SpawnReplacement
    <3>2. \A u \in Threads :
            bat'[u] = bat[u] \/ (bat[u] = "unborn" /\ bat'[u] = "sem")
      BY <2>6, SpawnMoves DEF SpawnReplacement
    <3> QED
      BY <3>1, <3>2, <1>2 DEF GateBroadcastPending
  <2>7. CASE UmpireToken
    BY <2>7, <1>2 DEF UmpireToken, ReleaseBowler, WakeBowler,
       GateBroadcastPending
  <2>8. CASE WakeSurvivor
    BY <2>8, <1>1 DEF WakeSurvivor, WakeGate, Wake
  <2>9. CASE EndMatch
    BY <2>9 DEF EndMatch, GateBroadcastPending
  <2>10. CASE WakeGateAtEnd
    BY <2>10, <1>1 DEF WakeGateAtEnd, WakeGate, Wake
  <2>11. CASE RaiseFlagsAtEnd
    BY <2>11, <1>2 DEF RaiseFlagsAtEnd, WakeDelivery, Wake, ReleaseBowler,
       WakeBowler, GateBroadcastPending
  <2>12. CASE PollAgain
    BY <2>12, <1>2 DEF PollAgain, GateBroadcastPending
  <2>13. CASE UmpireDone
    BY <2>13, <1>2 DEF UmpireDone, Scanned, GateBroadcastPending
  <2> QED
    BY <2>1, <2>2, <2>3, <2>4, <2>5, <2>6, <2>7, <2>8, <2>9, <2>10, <2>11,
       <2>12, <2>13, <1>5 DEF Umpire
<1>6. ASSUME NEW t \in Threads, Batsman(t) PROVE GateInv'
  <2>1. CASE EnterCrease(t)
    BY <2>1, <1>2 DEF EnterCrease, MoveTo, GateBroadcastPending
  <2>2. CASE AwaitStrike(t)
    <3>1. bat[t] = "gate" /\ UNCHANGED <<striker_id, match_over, engine, umpire>>
      BY <2>2 DEF AwaitStrike
    <3>2. CASE MustLeave(t) \/ OnStrike(t)
      <4>1. bat' = [bat EXCEPT ![t] = IF MustLeave(t) THEN "leave" ELSE "await"]
        BY <2>2, <3>2 DEF AwaitStrike, MoveTo
      <4> QED
        BY <3>1, <4>1, <1>2 DEF GateBroadcastPending
    <3>3. CASE ~MustLeave(t) /\ ~OnStrike(t)
      <4>1. bat' = [bat EXCEPT ![t] = "gateAsleep"]
        BY <2>2, <3>3 DEF AwaitStrike, MoveTo
      <4>2. ~match_over /\ ~OnStrike(t)
        BY <3>3 DEF MustLeave
      <4>3. GateBroadcastPending => GateBroadcastPending'
        BY <3>1, <4>1 DEF GateBroadcastPending
      <4> QED
        BY <3>1, <4>1, <4>2, <4>3 DEF OnStrike, Player
    <3> QED
      BY <3>2, <3>3
  <2>3. CASE SleepForDelivery(t)
    BY <2>3, <1>2 DEF SleepForDelivery, MoveTo, GateBroadcastPending
  <2>4. CASE AbandonDelivery(t)
    BY <2>4, <1>2 DEF AbandonDelivery, ReleaseBowler, WakeBowler, MoveTo,
       GateBroadcastPending
  <2>5. CASE PutBackDelivery(t)
    BY <2>5, <1>2 DEF PutBackDelivery, WakeDelivery, Wake, MoveTo,
       GateBroadcastPending
  <2>6. CASE TakeDelivery(t)
    BY <2>6, <1>2 DEF TakeDelivery, MoveTo, GateBroadcastPending
  <2>7. CASE ScoreRuns(t)
    BY <2>7, <1>2 DEF ScoreRuns, MoveTo, GateBroadcastPending
  <2>8. CASE Dismiss(t)
    BY <2>8, <1>2 DEF Dismiss, MoveTo, GateBroadcastPending
  <2>9. CASE Promote(t)
    <3>1. bat[t] = "promote" /\ bat' = [bat EXCEPT ![t] = "wakePromoted"]
      BY <2>9, Zenon DEF Promote, MoveTo
    <3> QED
      BY <3>1 DEF GateBroadcastPending
  <2>10. CASE WakePromoted(t)
    BY <2>10, <1>1 DEF WakePromoted, WakeGate, Wake
  <2>11. CASE SpawnNext(t)
    <3>1. PICK k \in 1 .. MaxSpawns :
            /\ bat[<<next_bat, k>>] = "unborn"
            /\ bat' = [bat EXCEPT ![<<next_bat, k>>] = "sem", ![t] = "firstToken"]
      BY <2>11, Zenon DEF SpawnNext
    <3>2. bat[t] = "spawn" /\ UNCHANGED <<striker_id, match_over, engine, umpire>>
      BY <2>11 DEF SpawnNext
    <3> QED
      BY <3>1, <3>2, <1>2 DEF GateBroadcastPending
  <2>12. CASE FirstToken(t)
    BY <2>12, <1>2 DEF FirstToken, ReleaseBowler, WakeBowler, MoveTo,
       GateBroadcastPending
  <2>13. CASE EndDismissal(t)
    BY <2>13, <1>2 DEF EndDismissal, MoveTo, GateBroadcastPending
  <2>14. CASE PostResult(t)
    BY <2>14, <1>2 DEF PostResult, MoveTo, GateBroadcastPending
  <2>15. CASE StageRunOut(t)
    BY <2>15, <1>2 DEF StageRunOut, MoveTo, GateBroadcastPending
  <2>16. CASE Cross(t)
    BY <2>16, <1>2 DEF Cross, MoveTo, GateBroadcastPending
  <2>17. CASE SwapOnOddRuns(t)
    BY <2>17 DEF SwapOnOddRuns, MoveTo, GateBroadcastPending
  <2>18. CASE WakeEnds(t)
    BY <2>18, <1>1 DEF WakeEnds, WakeGate, Wake
  <2>19. CASE SecondToken(t)
    BY <2>19, <1>2 DEF SecondToken, ReleaseBowler, WakeBowler, MoveTo,
       GateBroadcastPending
  <2>20. CASE Leave(t)
    BY <2>20, <1>2 DEF Leave, MoveTo, GateBroadcastPending
  <2>21. CASE LastToken(t)
    BY <2>21, <1>2 DEF LastToken, ReleaseBowler, WakeBowler, MoveTo,
       GateBroadcastPending
  <2>22. CASE PostCrease(t)
    BY <2>22, <1>2 DEF PostCrease, MoveTo, GateBroadcastPending
  <2> QED
    BY <2>1, <2>2, <2>3, <2>4, <2>5, <2>6, <2>7, <2>8, <2>9, <2>10, <2>11,
       <2>12, <2>13, <2>14, <2>15, <2>16, <2>17, <2>18, <2>19, <2>20, <2>21,
       <2>22, <1>6 DEF Batsman
<1>7. CASE InningsReturned \/ UNCHANGED vars
    BY <1>2, <1>7 DEF InningsReturned, GateBroadcastPending
<1> QED
    BY <1>3, <1>4, <1>5, <1>6, <1>7 DEF Next

\* Once the match is over someone has still to raise both flags, or has
\* raised them.
LEMMA FlagsStayPending ==
    ASSUME TypeOK, [Next]_vars
    PROVE  /\ match_over' => match_over \/ FlagsPending'
           /\ FlagsPending => \/ FlagsPending'
                              \/ bat' = WakeDelivery(bat) /\ ReleaseBowler
<1> USE DEF FlagsPending
<1>1. CASE Engine
  <2>1. match_over' => match_over \/ engine' = "wakeEnd"
    BY <1>1, Zenon DEF Engine, StartOver, ResetFlags, AssignStriker,
        SpawnStriker, SpawnBowler, JoinBowler, SwapEnds, WakeAfterSwap,
        FinishInnings, WakeAtEnd, RaiseFlags, JoinBatsman, JoinUmpire
  <2>2. UNCHANGED umpire
    BY <1>1, Zenon DEF Engine, StartOver, ResetFlags, AssignStriker,
        SpawnStriker, SpawnBowler, JoinBowler, SwapEnds, WakeAfterSwap,
        FinishInnings, WakeAtEnd, RaiseFlags, JoinBatsman, JoinUmpire
  <2>3. engine = "wakeEnd" => engine' = "raiseFlags"
    BY <1>1 DEF Engine, StartOver, ResetFlags, AssignStriker, SpawnStriker,
        SpawnBowler, JoinBowler, SwapEnds, WakeAfterSwap, FinishInnings,
        WakeAtEnd, RaiseFlags, JoinBatsman, JoinUmpire
  <2>4. engine = "raiseFlags" => RaiseFlags
    BY <1>1 DEF Engine, StartOver, ResetFlags, AssignStriker, SpawnStriker,
        SpawnBowler, JoinBowler, SwapEnds, WakeAfterSwap, FinishInnings,
        WakeAtEnd, JoinBatsman, JoinUmpire
  <2> QED
    BY <2>1, <2>2, <2>3, <2>4, Zenon DEF RaiseFlags
<1>2. CASE Bowler
  <2>1. UNCHANGED <<match_over, umpire, engine>>
    BY <1>2, Zenon DEF Bowler, Deliver, BowlerDone, SleepForStroke,
        AckStroke, CountBall
  <2> QED
    BY <2>1, Zenon
<1>3. CASE Umpire
  <2>1. match_over' => match_over \/ umpire' = "wakeGate"
    BY <1>3, Zenon DEF Umpire, DetectDeadlock, MarkRunOut, CountRunOut,
        PromoteSurvivor, SendNextBatsman, SpawnReplacement, UmpireToken,
        WakeSurvivor, EndMatch, WakeGateAtEnd, RaiseFlagsAtEnd, PollAgain,
        UmpireDone
  <2>2. UNCHANGED engine
    BY <1>3, Zenon DEF Umpire, DetectDeadlock, MarkRunOut, CountRunOut,
        PromoteSurvivor, SendNextBatsman, SpawnReplacement, UmpireToken,
        WakeSurvivor, EndMatch, WakeGateAtEnd, RaiseFlagsAtEnd, PollAgain,
        UmpireDone
  <2>3. umpire = "wakeGate" => umpire' = "flags"
    BY <1>3 DEF Umpire, Scanned, DetectDeadlock, MarkRunOut, CountRunOut,
        PromoteSurvivor, SendNextBatsman, SpawnReplacement, UmpireToken,
        WakeSurvivor, EndMatch, WakeGateAtEnd, RaiseFlagsAtEnd, PollAgain,
        UmpireDone
  <2>4. umpire = "flags" => RaiseFlagsAtEnd
    BY <1>3 DEF Umpire, Scanned, DetectDeadlock, MarkRunOut, CountRunOut,
        PromoteSurvivor, SendNextBatsman, SpawnReplacement, UmpireToken,
        WakeSurvivor, EndMatch, WakeGateAtEnd, PollAgain, UmpireDone
  <2> QED
    BY <2>1, <2>2, <2>3, <2>4, Zenon DEF RaiseFlagsAtEnd
<1>4. ASSUME NEW t \in Threads, Batsman(t)
      PROVE  UNCHANGED <<match_over, umpire, engine>>
    BY <1>4, Zenon DEF Batsman, EnterCrease, AwaitStrike, SleepForDelivery,
        AbandonDelivery, PutBackDelivery, TakeDelivery, ScoreRuns, Dismiss,
        Promote, WakePromoted, SpawnNext, FirstToken, EndDismissal, PostResult,
        StageRunOut, Cross, SwapOnOddRuns, WakeEnds, SecondToken, Leave,
        LastToken, PostCrease
<1>5. CASE InningsReturned \/ UNCHANGED vars
  <2>1. UNCHANGED <<match_over, umpire, engine>>
    BY <1>5, Zenon DEF InningsReturned
  <2> QED
    BY <2>1, Zenon
<1> QED
    BY <1>1, <1>2, <1>3, <1>4, <1>5 DEF Next

\* Nobody sleeps on delivery_ready_cond with a delivery in the buffer, or when
\* nobody will wake him at the end.
DeliveryInv ==
    \A t \in Threads :
        bat[t] = "awaitAsleep" => ~delivery_ready /\ (match_over => FlagsPending)

\* Nor does the bowler sleep with a stroke played.
BowlerInv ==
    bowler = "asleep" => ~stroke_done /\ (match_over => FlagsPending)

LEMMA DeliveryStep ==
    ASSUME TypeOK, DeliveryInv, [Next]_vars
    PROVE  DeliveryInv'
<1> USE DEF TypeOK, ThreadTypeOK
<1>1. ASSUME bat' = WakeDelivery(bat)
      PROVE  DeliveryInv'
    BY <1>1 DEF DeliveryInv, WakeDelivery, Wake
<1>2. ASSUME delivery_ready' => delivery_ready,
             \A u \in Threads : bat'[u] = "awaitAsleep" => bat[u] = "awaitAsleep"
      PROVE  DeliveryInv'
    BY <1>1, <1>2, FlagsStayPending DEF DeliveryInv
<1>3. CASE Engine \/ Bowler \/ Umpire
  <2>1. bat' = WakeDelivery(bat) \/ (delivery_ready' => delivery_ready)
    <3>1. CASE Engine
      BY <3>1, Zenon DEF Engine, StartOver, ResetFlags, AssignStriker,
          SpawnStriker, SpawnBowler, JoinBowler, SwapEnds, WakeAfterSwap,
          FinishInnings, WakeAtEnd, RaiseFlags, JoinBatsman, JoinUmpire
    <3>2. CASE Bowler
      BY <3>2, Zenon DEF Bowler, Deliver, BowlerDone, SleepForStroke,
          AckStroke, CountBall
    <3>3. CASE Umpire
      BY <3>3, Zenon DEF Umpire, DetectDeadlock, MarkRunOut, CountRunOut,
          PromoteSurvivor, SendNextBatsman, SpawnReplacement, UmpireToken,
          WakeSurvivor, EndMatch, WakeGateAtEnd, RaiseFlagsAtEnd, PollAgain,
          UmpireDone
    <3> QED
      BY <1>3, <3>1, <3>2, <3>3
  <2> QED
    BY <1>1, <1>2, <1>3, <2>1, ServiceKeeps
<1>4. ASSUME NEW t \in Threads, Batsman(t) PROVE DeliveryInv'
  <2>1. CASE EnterCrease(t)
    BY <2>1, <1>2 DEF EnterCrease, MoveTo
  <2>2. CASE AwaitStrike(t)
    BY <2>2, <1>2 DEF AwaitStrike, MoveTo
  <2>3. CASE SleepForDelivery(t)
    <3>1. ~delivery_ready /\ ~match_over
      BY <2>3 DEF SleepForDelivery, MustLeave
    <3>2. UNCHANGED <<delivery_ready, match_over>>
      BY <2>3 DEF SleepForDelivery
    <3> QED
      BY <3>1, <3>2 DEF DeliveryInv
  <2>4. CASE AbandonDelivery(t)
    BY <2>4, <1>2 DEF AbandonDelivery, ReleaseBowler, WakeBowler, MoveTo
  <2>5. CASE PutBackDelivery(t)
    <3>1. bat' = [WakeDelivery(bat) EXCEPT ![t] = "gate"]
      BY <2>5 DEF PutBackDelivery
    <3> QED
      BY <3>1 DEF DeliveryInv, WakeDelivery, Wake
  <2>6. CASE TakeDelivery(t)
    <3>1. bat' = [bat EXCEPT ![t] = "stroke"]
      BY <2>6 DEF TakeDelivery, MoveTo
    <3>2. ~delivery_ready'
      BY <2>6, Zenon DEF TakeDelivery
    <3> QED
      BY <3>1, <3>2, <1>2
  <2>7. CASE ScoreRuns(t)
    BY <2>7, <1>2 DEF ScoreRuns, MoveTo
  <2>8. CASE Dismiss(t)
    BY <2>8, <1>2 DEF Dismiss, MoveTo
  <2>9. CASE Promote(t)
    <3>1. bat' = [bat EXCEPT ![t] = "wakePromoted"]
      BY <2>9, Zenon DEF Promote, MoveTo
    <3>2. UNCHANGED delivery_ready
      BY <2>9, Zenon DEF Promote
    <3> QED
      BY <3>1, <3>2, <1>2
  <2>10. CASE WakePromoted(t)
    BY <2>10, <1>2 DEF WakePromoted, WakeGate, Wake, MoveTo
  <2>11. CASE SpawnNext(t)
    <3>1. PICK k \in 1 .. MaxSpawns :
            /\ bat[<<next_bat, k>>] = "unborn"
            /\ bat' = [bat EXCEPT ![<<next_bat, k>>] = "sem", ![t] = "firstToken"]
      BY <2>11, Zenon DEF SpawnNext
    <3>2. UNCHANGED delivery_ready
      BY <2>11 DEF SpawnNext
    <3> QED
      BY <3>1, <3>2, <1>2
  <2>12. CASE FirstToken(t)
    BY <2>12, <1>2 DEF FirstToken, ReleaseBowler, WakeBowler, MoveTo
  <2>13. CASE EndDismissal(t)
    BY <2>13, <1>2 DEF EndDismissal, MoveTo
  <2>14. CASE PostResult(t)
    BY <2>14, <1>2 DEF PostResult, MoveTo
  <2>15. CASE StageRunOut(t)
    BY <2>15, <1>2 DEF StageRunOut, MoveTo
  <2>16. CASE Cross(t)
    BY <2>16, <1>2 DEF Cross, MoveTo
  <2>17. CASE SwapOnOddRuns(t)
    BY <2>17, <1>2 DEF SwapOnOddRuns, MoveTo
  <2>18. CASE WakeEnds(t)
    BY <2>18, <1>2 DEF WakeEnds, WakeGate, Wake, MoveTo
  <2>19. CASE SecondToken(t)
    BY <2>19, <1>2 DEF SecondToken, ReleaseBowler, WakeBowler, MoveTo
  <2>20. CASE Leave(t)
    BY <2>20, <1>2 DEF Leave, MoveTo
  <2>21. CASE LastToken(t)
    BY <2>21, <1>2 DEF LastToken, ReleaseBowler, WakeBowler, MoveTo
  <2>22. CASE PostCrease(t)
    BY <2>22, <1>2 DEF PostCrease, MoveTo
  <2> QED
    BY <2>1, <2>2, <2>3, <2>4, <2>5, <2>6, <2>7, <2>8, <2>9, <2>10, <2>11,
       <2>12, <2>13, <2>14, <2>15, <2>16, <2>17, <2>18, <2>19, <2>20, <2>21,
       <2>22, <1>4 DEF Batsman
<1>5. CASE InningsReturned \/ UNCHANGED vars
    BY <1>2, <1>5 DEF InningsReturned
<1> QED
    BY <1>3, <1>4, <1>5 DEF Next

LEMMA BowlerStep ==
    ASSUME TypeOK, BowlerInv, [Next]_vars
    PROVE  BowlerInv'
<1> USE DEF TypeOK, ThreadTypeOK
<1>1. ASSUME ReleaseBowler
      PROVE  BowlerInv'
    BY <1>1 DEF BowlerInv, ReleaseBowler, WakeBowler
<1>2. ASSUME bowler' # "asleep"
      PROVE  BowlerInv'
    BY <1>2 DEF BowlerInv
<1>3. ASSUME bowler' = bowler, stroke_done' => stroke_done
      PROVE  BowlerInv'
    BY <1>1, <1>3, FlagsStayPending DEF BowlerInv
<1>4. CASE Engine
  <2>1. ReleaseBowler \/ bowler' \in {"bowl", "idle"} \/ (bowler' = bowler /\ (stroke_done' => stroke_done))
    BY <1>4, Zenon DEF Engine, StartOver, ResetFlags, AssignStriker,
        SpawnStriker, SpawnBowler, JoinBowler, SwapEnds, WakeAfterSwap,
        FinishInnings, WakeAtEnd, RaiseFlags, JoinBatsman, JoinUmpire
  <2> QED
    BY <2>1, <1>1, <1>2, <1>3
<1>5. CASE Bowler
  <2>1. CASE SleepForStroke
    <3>1. ~stroke_done /\ ~match_over
      BY <2>1 DEF SleepForStroke, StrokeOver
    <3>2. UNCHANGED <<stroke_done, match_over>>
      BY <2>1 DEF SleepForStroke
    <3> QED
      BY <3>1, <3>2 DEF BowlerInv
  <2>2. CASE Bowler /\ ~SleepForStroke
    <3>1. bowler' \in {"wait", "done", "count", "bowl"}
      BY <2>2, Zenon DEF Bowler, Deliver, BowlerDone, AckStroke, CountBall
    <3> QED
      BY <3>1, <1>2
  <2> QED
    BY <1>5, <2>1, <2>2
<1>6. CASE Umpire
  <2>1. ReleaseBowler \/ UNCHANGED <<bowler, stroke_done>>
    BY <1>6, Zenon DEF Umpire, DetectDeadlock, MarkRunOut, CountRunOut,
        PromoteSurvivor, SendNextBatsman, SpawnReplacement, UmpireToken,
        WakeSurvivor, EndMatch, WakeGateAtEnd, RaiseFlagsAtEnd, PollAgain,
        UmpireDone
  <2> QED
    BY <2>1, <1>1, <1>3
<1>7. ASSUME NEW t \in Threads, Batsman(t) PROVE BowlerInv'
  <2>1. ReleaseBowler \/ UNCHANGED <<bowler, stroke_done>>
    BY <1>7, Zenon DEF Batsman, EnterCrease, AwaitStrike, SleepForDelivery,
        AbandonDelivery, PutBackDelivery, TakeDelivery, ScoreRuns, Dismiss,
        Promote, WakePromoted, SpawnNext, FirstToken, EndDismissal, PostResult,
        StageRunOut, Cross, SwapOnOddRuns, WakeEnds, SecondToken, Leave,
        LastToken, PostCrease
  <2> QED
    BY <2>1, <1>1, <1>3
<1>8. CASE InningsReturned \/ UNCHANGED vars
    BY <1>3, <1>8 DEF InningsReturned
<1> QED
    BY <1>4, <1>5, <1>6, <1>7, <1>8 DEF Next

-----------------------------------------------------------------------------
(* Deliveries and wickets.                                                 *)

\* The umpire raises the flags only when the match is over.
CallInv == umpire \in {"wakeGate", "flags"} => match_over

LEMMA CallStep ==
    ASSUME TypeOK, CallInv, [Next]_vars
    PROVE  CallInv'
<1>1. match_over => match_over'
    BY NobodyReturns
<1>2. CASE Umpire
  <2>1. CASE EndMatch
    BY <2>1, Zenon DEF EndMatch, CallInv
  <2>2. CASE WakeGateAtEnd
    BY <1>1, <2>2 DEF WakeGateAtEnd, CallInv
  <2>3. CASE Umpire /\ ~EndMatch /\ ~WakeGateAtEnd
    <3>1. umpire' \in {"poll", "victim", "wicket", "ends", "next", "spawn", "token",
                      "broadcast", "check", "done"}
      BY <2>3, Zenon DEF Umpire, DetectDeadlock, MarkRunOut, CountRunOut,
          PromoteSurvivor, SendNextBatsman, SpawnReplacement, UmpireToken,
          WakeSurvivor, RaiseFlagsAtEnd, PollAgain, UmpireDone
    <3> QED
      BY <3>1 DEF CallInv
  <2> QED
    BY <1>2, <2>1, <2>2, <2>3
<1>3. CASE Engine \/ Bowler
  <2>1. UNCHANGED umpire
    BY <1>3, Zenon DEF Engine, Bowler, StartOver, ResetFlags,
        AssignStriker, SpawnStriker, SpawnBowler, JoinBowler, SwapEnds,
        WakeAfterSwap, FinishInnings, WakeAtEnd, RaiseFlags, JoinBatsman,
        JoinUmpire, Deliver, BowlerDone, SleepForStroke, AckStroke, CountBall
  <2> QED
    BY <1>1, <2>1 DEF CallInv
<1>4. ASSUME NEW t \in Threads, Batsman(t) PROVE CallInv'
  <2>1. UNCHANGED umpire
    BY <1>4, Zenon DEF Batsman, EnterCrease, AwaitStrike, SleepForDelivery,
        AbandonDelivery, PutBackDelivery, TakeDelivery, ScoreRuns, Dismiss,
        Promote, WakePromoted, SpawnNext, FirstToken, EndDismissal, PostResult,
        StageRunOut, Cross, SwapOnOddRuns, WakeEnds, SecondToken, Leave,
        LastToken, PostCrease
  <2> QED
    BY <1>1, <2>1 DEF CallInv
<1>5. CASE InningsReturned \/ UNCHANGED vars
    BY <1>1, <1>5 DEF InningsReturned, CallInv
<1> QED
    BY <1>2, <1>3, <1>4, <1>5 DEF Next

\* Only the bowler fills the buffer while the match goes on, and the engine
\* empties it before it lets him.
LEMMA DeliveryIsFresh ==
    ASSUME TypeOK, CallInv, NoStaleDelivery, [Next]_vars
    PROVE  NoStaleDelivery'
<1>1. match_over => match_over'
    BY NobodyReturns
<1>2. ASSUME UNCHANGED <<engine, pitch_buffer, current_over>>,
             delivery_ready' => delivery_ready \/ match_over'
      PROVE  NoStaleDelivery'
    BY <1>1, <1>2 DEF NoStaleDelivery
<1>3. CASE Engine
  <2>1. CASE AssignStriker
    BY <1>1, <2>1 DEF AssignStriker, NoStaleDelivery
  <2>2. CASE SpawnStriker
    BY <1>1, <2>2 DEF SpawnStriker, NoStaleDelivery
  <2>3. CASE SpawnBowler
    BY <1>1, <2>3 DEF SpawnBowler, NoStaleDelivery
  <2>4. CASE ResetFlags
    <3>1. ~delivery_ready'
      BY <2>4, Zenon DEF ResetFlags
    <3> QED
      BY <3>1 DEF NoStaleDelivery
  <2>5. CASE Engine /\ ~AssignStriker /\ ~SpawnStriker /\ ~SpawnBowler /\ ~ResetFlags
    <3>1. engine' \in {"flags", "swap", "over", "wakeSwap", "wakeEnd", "raiseFlags",
                      "joinBatsmen", "done"}
      BY <2>5 DEF Engine, StartOver, JoinBowler, SwapEnds, WakeAfterSwap,
          FinishInnings, WakeAtEnd, RaiseFlags, JoinBatsman, JoinUmpire
    <3> QED
      BY <3>1 DEF NoStaleDelivery
  <2> QED
    BY <1>3, <2>1, <2>2, <2>3, <2>4, <2>5
<1>4. CASE Bowler
  <2>1. CASE Deliver
    BY <2>1 DEF Deliver, NoStaleDelivery
  <2>2. CASE BowlerDone \/ SleepForStroke \/ AckStroke \/ CountBall
    <3>1. UNCHANGED <<engine, pitch_buffer, current_over, delivery_ready>>
      BY <2>2, Zenon DEF BowlerDone, SleepForStroke, AckStroke, CountBall
    <3> QED
      BY <3>1, <1>2
  <2> QED
    BY <1>4, <2>1, <2>2 DEF Bowler
<1>5. CASE Umpire
  <2>1. UNCHANGED <<engine, pitch_buffer, current_over>>
    BY <1>5, Zenon DEF Umpire, DetectDeadlock, MarkRunOut, CountRunOut,
        PromoteSurvivor, SendNextBatsman, SpawnReplacement, UmpireToken,
        WakeSurvivor, EndMatch, WakeGateAtEnd, RaiseFlagsAtEnd, PollAgain,
        UmpireDone
  <2>2. delivery_ready' => delivery_ready \/ umpire = "flags"
    BY <1>5, Zenon DEF Umpire, DetectDeadlock, MarkRunOut, CountRunOut,
        PromoteSurvivor, SendNextBatsman, SpawnReplacement, UmpireToken,
        WakeSurvivor, EndMatch, WakeGateAtEnd, RaiseFlagsAtEnd, PollAgain,
        UmpireDone
  <2> QED
    BY <1>1, <1>2, <2>1, <2>2 DEF CallInv
<1>6. ASSUME NEW t \in Threads, Batsman(t) PROVE NoStaleDelivery'
  <2>1. UNCHANGED <<engine, pitch_buffer, current_over>>
    BY <1>6, Zenon DEF Batsman, EnterCrease, AwaitStrike, SleepForDelivery,
        AbandonDelivery, PutBackDelivery, TakeDelivery, ScoreRuns, Dismiss,
        Promote, WakePromoted, SpawnNext, FirstToken, EndDismissal, PostResult,
        StageRunOut, Cross, SwapOnOddRuns, WakeEnds, SecondToken, Leave,
        LastToken, PostCrease
  <2>2. delivery_ready' => delivery_ready
    BY <1>6, Zenon DEF Batsman, EnterCrease, AwaitStrike, SleepForDelivery,
        AbandonDelivery, PutBackDelivery, TakeDelivery, ScoreRuns, Dismiss,
        Promote, WakePromoted, SpawnNext, FirstToken, EndDismissal, PostResult,
        StageRunOut, Cross, SwapOnOddRuns, WakeEnds, SecondToken, Leave,
        LastToken, PostCrease
  <2> QED
    BY <1>2, <2>1, <2>2
<1>7. CASE InningsReturned \/ UNCHANGED vars
    BY <1>2, <1>7 DEF InningsReturned
<1> QED
    BY <1>3, <1>4, <1>5, <1>6, <1>7 DEF Next

Dismissed == {b \in Batsmen : is_out[b]}

LEMMA OutsAreFinite ==
    IsFiniteSet(Dismissed) /\ Cardinality(Dismissed) \in Nat
<1>1. IsFiniteSet(Batsmen)
    BY FS_Interval, BatsmenAssumption DEF Batsmen
<1>2. Dismissed \in SUBSET Batsmen
    BY DEF Dismissed
<1> QED
    BY <1>1, <1>2, FS_Subset, FS_CardinalityType

\* One dismissal adds one batsman at most to those who are out.
LEMMA OneMoreOut ==
    ASSUME TypeOK, NEW b, is_out' = [is_out EXCEPT ![b] = TRUE]
    PROVE  /\ Cardinality(Dismissed) \in Nat /\ Cardinality(Dismissed') \in Nat
           /\ Cardinality(Dismissed') <= Cardinality(Dismissed) + 1
<1>1. IsFiniteSet(Batsmen)
    BY FS_Interval, BatsmenAssumption DEF Batsmen
<1>2. IsFiniteSet(Dismissed) /\ IsFiniteSet(Dismissed')
  <2>1. Dismissed \in SUBSET Batsmen /\ Dismissed' \in SUBSET Batsmen
    BY DEF Dismissed
  <2> QED
    BY <1>1, <2>1, FS_Subset
<1>3. IsFiniteSet(Dismissed \cup {b})
    BY <1>2, FS_AddElement
<1>4. /\ Cardinality(Dismissed) \in Nat /\ Cardinality(Dismissed') \in Nat
      /\ Cardinality(Dismissed \cup {b}) \in Nat
    BY <1>2, <1>3, FS_CardinalityType
<1>5. Dismissed' \in SUBSET (Dismissed \cup {b})
  <2>1. \A c \in Batsmen : c # b => is_out'[c] = is_out[c]
    BY Zenon DEF TypeOK, OrderTypeOK
  <2> QED
    BY <2>1, Zenon DEF Dismissed
<1>6. Cardinality(Dismissed') <= Cardinality(Dismissed \cup {b})
    BY <1>3, <1>5, FS_Subset
<1>7. Cardinality(Dismissed \cup {b}) <= Cardinality(Dismissed) + 1
  <2>1. CASE b \in Dismissed
    <3>1. Dismissed \cup {b} = Dismissed
      BY <2>1
    <3> QED
      BY <3>1, <1>4
  <2>2. CASE b \notin Dismissed
    <3>1. Cardinality(Dismissed \cup {b}) = Cardinality(Dismissed) + 1
      BY <2>2, <1>2, FS_AddElement
    <3> QED
      BY <3>1, <1>4
  <2> QED
    BY <2>1, <2>2
<1> QED
    BY <1>4, <1>6, <1>7

LEMMA WicketsKeptStep ==
    ASSUME TypeOK, NoWicketLost, [Next]_vars
    PROVE  NoWicketLost'
<1> USE DEF TypeOK, BoardTypeOK
<1> SUFFICES Cardinality(Dismissed') <= wickets' + (IF umpire' = "wicket" THEN 1 ELSE 0)
    BY DEF NoWicketLost, Dismissed
<1>0. Cardinality(Dismissed) <= wickets + (IF umpire = "wicket" THEN 1 ELSE 0)
    BY DEF NoWicketLost, Dismissed
<1>1. ASSUME UNCHANGED <<is_out, wickets>>, umpire' = "wicket" <=> umpire = "wicket"
      PROVE  Cardinality(Dismissed') <= wickets' + (IF umpire' = "wicket" THEN 1 ELSE 0)
    BY <1>0, <1>1 DEF Dismissed
<1>2. CASE Engine \/ Bowler
  <2>1. UNCHANGED <<is_out, wickets, umpire>>
    BY <1>2, Zenon DEF Engine, Bowler, StartOver, ResetFlags,
        AssignStriker, SpawnStriker, SpawnBowler, JoinBowler, SwapEnds,
        WakeAfterSwap, FinishInnings, WakeAtEnd, RaiseFlags, JoinBatsman,
        JoinUmpire, Deliver, BowlerDone, SleepForStroke, AckStroke, CountBall
  <2> QED
    BY <1>1, <2>1
<1>3. CASE Umpire
  <2>1. CASE MarkRunOut
    <3>1. umpire = "victim" /\ umpire' = "wicket" /\ UNCHANGED wickets
      BY <2>1 DEF MarkRunOut
    <3>2. is_out' = [is_out EXCEPT ![runout.victim] = TRUE]
      BY <2>1, Zenon DEF MarkRunOut
    <3>3. /\ Cardinality(Dismissed) \in Nat /\ Cardinality(Dismissed') \in Nat
          /\ Cardinality(Dismissed') <= Cardinality(Dismissed) + 1
      BY <3>2, OneMoreOut, Zenon
    <3> QED
      BY <1>0, <3>1, <3>3
  <2>2. CASE CountRunOut
    <3>1. /\ umpire = "wicket" /\ umpire' = "ends"
          /\ wickets' = wickets + 1 /\ UNCHANGED is_out
      BY <2>2 DEF CountRunOut
    <3>2. Cardinality(Dismissed') = Cardinality(Dismissed)
      BY <3>1 DEF Dismissed
    <3>3. Cardinality(Dismissed) \in Nat
      BY OutsAreFinite
    <3> QED
      BY <1>0, <3>1, <3>2, <3>3
  <2>3. CASE Umpire /\ ~MarkRunOut /\ ~CountRunOut
    <3>1. UNCHANGED <<is_out, wickets>>
      BY <2>3, Zenon DEF Umpire, DetectDeadlock, PromoteSurvivor,
          SendNextBatsman, SpawnReplacement, UmpireToken, WakeSurvivor,
          EndMatch, WakeGateAtEnd, RaiseFlagsAtEnd, PollAgain, UmpireDone
    <3>2. umpire # "wicket" /\ umpire' # "wicket"
      BY <2>3 DEF Umpire, Scanned, DetectDeadlock, PromoteSurvivor,
          SendNextBatsman, SpawnReplacement, UmpireToken, WakeSurvivor,
          EndMatch, WakeGateAtEnd, RaiseFlagsAtEnd, PollAgain, UmpireDone
    <3> QED
      BY <1>1, <3>1, <3>2
  <2> QED
    BY <1>3, <2>1, <2>2, <2>3
<1>4. ASSUME NEW t \in Threads, Batsman(t)
      PROVE  Cardinality(Dismissed') <= wickets' + (IF umpire' = "wicket" THEN 1 ELSE 0)
  <2>1. UNCHANGED umpire
    BY <1>4, Zenon DEF Batsman, EnterCrease, AwaitStrike, SleepForDelivery,
        AbandonDelivery, PutBackDelivery, TakeDelivery, ScoreRuns, Dismiss,
        Promote, WakePromoted, SpawnNext, FirstToken, EndDismissal, PostResult,
        StageRunOut, Cross, SwapOnOddRuns, WakeEnds, SecondToken, Leave,
        LastToken, PostCrease
  <2>2. CASE Dismiss(t)
    <3>1. wickets' = wickets + 1
      BY <2>2 DEF Dismiss
    <3>2. is_out' = [is_out EXCEPT ![Player(t)] = TRUE]
      BY <2>2, Zenon DEF Dismiss
    <3>3. /\ Cardinality(Dismissed) \in Nat /\ Cardinality(Dismissed') \in Nat
          /\ Cardinality(Dismissed') <= Cardinality(Dismissed) + 1
      BY <3>2, OneMoreOut, Zenon
    <3> QED
      BY <1>0, <2>1, <3>1, <3>3
  <2>3. CASE Batsman(t) /\ ~Dismiss(t)
    <3>1. UNCHANGED <<is_out, wickets>>
      BY <2>3, Zenon DEF Batsman, EnterCrease, AwaitStrike,
          SleepForDelivery, AbandonDelivery, PutBackDelivery, TakeDelivery,
          ScoreRuns, Promote, WakePromoted, SpawnNext, FirstToken,
          EndDismissal, PostResult, StageRunOut, Cross, SwapOnOddRuns,
          WakeEnds, SecondToken, Leave, LastToken, PostCrease
    <3> QED
      BY <1>1, <2>1, <3>1
  <2> QED
    BY <1>4, <2>2, <2>3
<1>5. CASE InningsReturned \/ UNCHANGED vars
    BY <1>1, <1>5 DEF InningsReturned
<1> QED
    BY <1>2, <1>3, <1>4, <1>5 DEF Next

-----------------------------------------------------------------------------
(* The invariant.                                                          *)

IInv ==
    /\ TypeOK /\ StrokeInv /\ CreaseConserved /\ PresentInv
    /\ GateInv /\ DeliveryInv /\ BowlerInv
    /\ CallInv /\ NoStaleDelivery /\ NoWicketLost

LEMMA InitiallyInv == Init => IInv
<1> SUFFICES ASSUME Init PROVE IInv
    OBVIOUS
<1> USE DEF Init
<1>1. TypeOK
  <2>1. FlagTypeOK
    BY OutcomesAssumption DEF FlagTypeOK
  <2>2. BoardTypeOK
    BY OversAssumption, BoundsAssumption DEF BoardTypeOK
  <2>3. OrderTypeOK
    BY BatsmenAssumption DEF OrderTypeOK, Batsmen, NoPlayer, NobodyOut
  <2>4. ThreadTypeOK
    BY BatsmenAssumption, OversAssumption, BoundsAssumption DEF ThreadTypeOK
  <2> QED
    BY <2>1, <2>2, <2>3, <2>4 DEF TypeOK
<1>2. \A t \in Threads : bat[t] \in {"sem", "unborn"}
    OBVIOUS
<1>3. StrokeInv /\ PresentInv
    BY <1>2 DEF StrokeInv, PresentInv, Outside
<1>4. CreaseConserved
  <2>1. InsideCrease = {}
    BY <1>2 DEF InsideCrease
  <2> QED
    BY <2>1, FS_EmptySet DEF CreaseConserved
<1>5. GateInv /\ DeliveryInv /\ BowlerInv
    BY <1>2 DEF GateInv, DeliveryInv, BowlerInv
<1>6. CallInv /\ NoStaleDelivery
    BY DEF CallInv, NoStaleDelivery
<1>7. NoWicketLost
  <2>1. {b \in Batsmen : is_out[b]} = {}
    BY Zenon
  <2>2. Cardinality({b \in Batsmen : is_out[b]}) = 0
    BY <2>1, FS_EmptySet
  <2>3. wickets = 0 /\ umpire = "poll"
    OBVIOUS
  <2> QED
    BY <2>2, <2>3 DEF NoWicketLost
<1> QED
    BY <1>1, <1>3, <1>4, <1>5, <1>6, <1>7 DEF IInv

LEMMA InvStep == IInv /\ [Next]_vars => IInv'
<1> SUFFICES ASSUME IInv, [Next]_vars PROVE IInv'
    OBVIOUS
<1> USE DEF IInv
<1>1. CreaseConserved' /\ crease_semaphore' \in 0 .. 2
    BY CreaseStep
<1>2. TypeOK'
    BY <1>1, FlagTypes, BoardTypes, OrderTypes, ThreadTypes DEF TypeOK
<1>3. StrokeInv' /\ PresentInv'
    BY StrokeStep, PresentStep
<1>4. GateInv' /\ DeliveryInv' /\ BowlerInv'
    BY GateStep, DeliveryStep, BowlerStep
<1>5. CallInv' /\ NoStaleDelivery' /\ NoWicketLost'
    BY CallStep, DeliveryIsFresh, WicketsKeptStep
<1> QED
    BY <1>1, <1>2, <1>3, <1>4, <1>5

LEMMA InvHolds == Spec => []IInv
BY InitiallyInv, InvStep, PTL DEF Spec

-----------------------------------------------------------------------------
\* Every variable of an innings keeps its type, whichever threads are at work.
THEOREM TypesHold == Spec => []TypeOK
<1>1. IInv => TypeOK
    BY DEF IInv
<1> QED
    BY <1>1, InvHolds, PTL

\* However many batsmen come and go, the slots of the crease semaphore are
\* free or held by one thread each (batsman_thread_func).
THEOREM CreaseIsConserved == Spec => []CreaseConserved
<1>1. IInv => CreaseConserved
    BY DEF IInv
<1> QED
    BY <1>1, InvHolds, PTL

\* A delivery left over from an over is not played in the next one.
THEOREM DeliveriesAreFresh == Spec => []NoStaleDelivery
<1>1. IInv => NoStaleDelivery
    BY DEF IInv
<1> QED
    BY <1>1, InvHolds, PTL

\* Every dismissal is counted, by the batsman's thread or by the umpire.
THEOREM WicketsAreCounted == Spec => []NoWicketLost
<1>1. IInv => NoWicketLost
    BY DEF IInv
<1> QED
    BY <1>1, InvHolds, PTL

-----------------------------------------------------------------------------
(* The board.                                                              *)

\* run_innings has left the loop of the overs.
Closing == {"wakeEnd", "raiseFlags", "joinBatsmen", "done"}

\* Where a thread is that may still change the score or stage a run-out.
OnTheBall == {"stroke", "promote", "wakePromoted", "spawn", "firstToken",
              "unlock", "result", "stage"}

\* Why the match is over, and who has ended when run_innings returns.
EndInv ==
    /\ match_over => AllOut \/ Chased \/ engine \in Closing
    /\ engine \in Closing => match_over
    /\ engine = "done" => umpire = "done"

\* Before the first over there is nothing to score from.
FirstOverInv ==
    current_over = 0 =>
        /\ engine \in {"over"} \cup Closing
        /\ bowler = "idle"
        /\ delivery_ready => match_over
        /\ \A b \in Batsmen : holds_end[b] = -1
        /\ umpire \notin {"victim", "wicket"}
        /\ \A t \in Threads : bat[t] \notin OnTheBall

\* What a step of a batsman does to the places of the threads.
LEMMA BatsmanMoves ==
    ASSUME NEW t \in Threads, Batsman(t)
    PROVE  \/ \E pc : bat' = [bat EXCEPT ![t] = pc]
           \/ \E pc : bat' = [WakeGate(bat) EXCEPT ![t] = pc]
           \/ \E pc : bat' = [WakeDelivery(bat) EXCEPT ![t] = pc]
           \/ SpawnNext(t)
BY Zenon DEF Batsman, EnterCrease, AwaitStrike, SleepForDelivery,
    AbandonDelivery, PutBackDelivery, TakeDelivery, ScoreRuns, Dismiss,
    Promote, WakePromoted, FirstToken, EndDismissal, PostResult,
    StageRunOut, Cross, SwapOnOddRuns, WakeEnds, SecondToken, Leave,
    LastToken, PostCrease, MoveTo

\* The other threads are woken or spawned, and no more.
LEMMA OthersMove ==
    ASSUME TypeOK, NEW t \in Threads, Batsman(t)
    PROVE  \A u \in Threads \ {t} :
              \/ bat'[u] = bat[u]
              \/ /\ bat[u] \in {"gateAsleep", "awaitAsleep"}
                 /\ bat'[u] \in {"gate", "await"}
              \/ bat[u] = "unborn" /\ bat'[u] = "sem" /\ SpawnNext(t)
<1> USE DEF TypeOK, ThreadTypeOK
<1>1. CASE SpawnNext(t)
  <2>1. PICK k \in 1 .. MaxSpawns :
          /\ bat[<<next_bat, k>>] = "unborn"
          /\ bat' = [bat EXCEPT ![<<next_bat, k>>] = "sem", ![t] = "firstToken"]
    BY <1>1, Zenon DEF SpawnNext
  <2> QED
    BY <1>1, <2>1
<1>2. CASE ~SpawnNext(t)
    BY <1>2, BatsmanMoves DEF Wake, WakeGate, WakeDelivery
<1> QED
    BY <1>1, <1>2

\* The thread itself plays a ball only by taking a delivery.
LEMMA OwnMove ==
    ASSUME TypeOK, NEW t \in Threads, Batsman(t)
    PROVE  /\ bat[t] \notin {"unborn", "done"} /\ bat'[t] # "unborn"
           /\ bat'[t] = "stroke" => TakeDelivery(t)
           /\ bat'[t] \in OnTheBall => bat[t] \in OnTheBall \/ TakeDelivery(t)
<1> USE DEF TypeOK, ThreadTypeOK, OnTheBall, MoveTo
<1>1. CASE \/ EnterCrease(t) \/ AwaitStrike(t) \/ SleepForDelivery(t)
           \/ AbandonDelivery(t) \/ PutBackDelivery(t) \/ TakeDelivery(t)
    BY <1>1 DEF EnterCrease, AwaitStrike, SleepForDelivery, AbandonDelivery,
       PutBackDelivery, TakeDelivery, WakeDelivery, Wake
<1>2. CASE ScoreRuns(t) \/ Dismiss(t) \/ Promote(t) \/ WakePromoted(t)
  <2>1. /\ bat[t] \in {"stroke", "promote", "wakePromoted"}
        /\ \E pc \in {"result", "firstToken", "promote", "wakePromoted", "spawn"} :
              \/ bat' = [bat EXCEPT ![t] = pc]
              \/ bat' = [WakeGate(bat) EXCEPT ![t] = pc]
    BY <1>2, Zenon DEF ScoreRuns, Dismiss, Promote, WakePromoted
  <2> QED
    BY <2>1 DEF WakeGate, Wake
<1>3. CASE SpawnNext(t)
  <2>1. bat[t] = "spawn"
    BY <1>3 DEF SpawnNext
  <2>2. PICK k \in 1 .. MaxSpawns :
          bat' = [bat EXCEPT ![<<next_bat, k>>] = "sem", ![t] = "firstToken"]
    BY <1>3, Zenon DEF SpawnNext
  <2> QED
    BY <2>1, <2>2
<1>4. CASE \/ FirstToken(t) \/ EndDismissal(t) \/ PostResult(t)
           \/ StageRunOut(t) \/ Cross(t) \/ SwapOnOddRuns(t) \/ WakeEnds(t)
    BY <1>4 DEF FirstToken, EndDismissal, PostResult, StageRunOut, Cross,
       SwapOnOddRuns, WakeEnds, WakeGate, Wake
<1>5. CASE SecondToken(t) \/ Leave(t) \/ LastToken(t) \/ PostCrease(t)
    BY <1>5 DEF SecondToken, Leave, LastToken, PostCrease
<1> QED
    BY <1>1, <1>2, <1>3, <1>4, <1>5 DEF Batsman

\* Nobody who has been spawned becomes unborn.
LEMMA SpawnedForGood ==
    ASSUME TypeOK, [Next]_vars, NEW u \in Threads, bat[u] # "unborn"
    PROVE  bat'[u] # "unborn"
<1>1. CASE Engine \/ Bowler \/ Umpire
    BY <1>1, ServiceKeeps
<1>2. ASSUME NEW t \in Threads, Batsman(t) PROVE bat'[u] # "unborn"
    BY <1>2, OthersMove, OwnMove
<1>3. CASE InningsReturned \/ UNCHANGED vars
    BY <1>3 DEF InningsReturned
<1> QED
    BY <1>1, <1>2, <1>3 DEF Next

-----------------------------------------------------------------------------
(* Batsmen run out in their sleep.                                         *)

\* A bowler thread lives only while run_innings waits to join it.
IdleInv == engine # "join" => bowler = "idle"

LEMMA IdleStep ==
    ASSUME TypeOK, IdleInv, [Next]_vars
    PROVE  IdleInv'
<1>1. CASE Engine
  <2>1. CASE SpawnBowler \/ JoinBowler \/ RaiseFlags
    BY <2>1 DEF IdleInv, SpawnBowler, JoinBowler, RaiseFlags, ReleaseBowler,
        WakeBowler
  <2>2. CASE StartOver \/ ResetFlags \/ AssignStriker
    BY <2>2 DEF IdleInv, StartOver, ResetFlags, AssignStriker, tokens
  <2>3. CASE SpawnStriker \/ SwapEnds \/ WakeAfterSwap
    BY <2>3 DEF IdleInv, SpawnStriker, SwapEnds, WakeAfterSwap, tokens
  <2>4. CASE FinishInnings \/ WakeAtEnd
    BY <2>4 DEF IdleInv, FinishInnings, WakeAtEnd, tokens
  <2>5. CASE JoinBatsman \/ JoinUmpire
    BY <2>5 DEF IdleInv, JoinBatsman, JoinUmpire, tokens
  <2> QED
    BY <1>1, <2>1, <2>2, <2>3, <2>4, <2>5 DEF Engine
<1>2. CASE Bowler
    BY <1>2 DEF IdleInv, Bowler, Deliver, BowlerDone, SleepForStroke,
        AckStroke, CountBall, notBowler, engineVars
<1>3. CASE Umpire
  <2>1. UNCHANGED engine /\ (ReleaseBowler \/ UNCHANGED bowler)
    BY <1>3, Zenon DEF Umpire, DetectDeadlock, MarkRunOut, CountRunOut,
        PromoteSurvivor, SendNextBatsman, SpawnReplacement, UmpireToken,
        WakeSurvivor, EndMatch, WakeGateAtEnd, RaiseFlagsAtEnd, PollAgain,
        UmpireDone
  <2> QED
    BY <2>1 DEF IdleInv, ReleaseBowler, WakeBowler
<1>4. ASSUME NEW t \in Threads, Batsman(t) PROVE IdleInv'
  <2>1. UNCHANGED engine /\ (ReleaseBowler \/ UNCHANGED bowler)
    BY <1>4, Zenon DEF Batsman, EnterCrease, AwaitStrike, SleepForDelivery,
        AbandonDelivery, PutBackDelivery, TakeDelivery, ScoreRuns, Dismiss,
        Promote, WakePromoted, SpawnNext, FirstToken, EndDismissal, PostResult,
        StageRunOut, Cross, SwapOnOddRuns, WakeEnds, SecondToken, Leave,
        LastToken, PostCrease
  <2> QED
    BY <2>1 DEF IdleInv, ReleaseBowler, WakeBowler
<1>5. CASE InningsReturned \/ UNCHANGED vars
  <2>1. UNCHANGED <<engine, bowler>>
    BY <1>5, Zenon DEF InningsReturned
  <2> QED
    BY <2>1 DEF IdleInv
<1> QED
    BY <1>1, <1>2, <1>3, <1>4, <1>5 DEF Next

\* The bowler does not wait, or finds a token at once.
BowlerGoesOn == bowler # "asleep" /\ (bowler = "wait" => stroke_done)

RunOutInv ==
    \A t \in Threads : OutWithOneThread(t) =>
        /\ bat[t] = "gateAsleep" => RunOutPending \/ umpire = "broadcast"
        /\ bat[t] = "awaitAsleep" => RunOutPending \/ BowlerGoesOn

\* The bowler who goes on comes to the next delivery, and wakes whoever
\* sleeps before it.
LEMMA GoingOn ==
    ASSUME IdleInv, BowlerGoesOn, [Next]_vars
    PROVE  BowlerGoesOn' \/ bat' = WakeDelivery(bat)
<1> USE DEF BowlerGoesOn
<1>1. ReleaseBowler => BowlerGoesOn'
    BY DEF ReleaseBowler, WakeBowler
<1>2. UNCHANGED <<bowler, stroke_done>> => BowlerGoesOn'
    OBVIOUS
<1>3. CASE Engine
  <2>1. \/ ReleaseBowler \/ bowler' \in {"bowl", "idle"}
        \/ ResetFlags \/ UNCHANGED <<bowler, stroke_done>>
    BY <1>3, Zenon DEF Engine, StartOver, AssignStriker,
        SpawnStriker, SpawnBowler, JoinBowler, SwapEnds, WakeAfterSwap,
        FinishInnings, WakeAtEnd, RaiseFlags, JoinBatsman, JoinUmpire
  <2>2. ResetFlags => BowlerGoesOn'
    BY DEF ResetFlags, IdleInv
  <2> QED
    BY <1>1, <1>2, <2>1, <2>2
<1>4. CASE Bowler
    BY <1>4 DEF Bowler, Deliver, BowlerDone, SleepForStroke, StrokeOver,
        AckStroke, CountBall
<1>5. CASE Umpire
  <2>1. ReleaseBowler \/ UNCHANGED <<bowler, stroke_done>>
    BY <1>5, Zenon DEF Umpire, DetectDeadlock, MarkRunOut, CountRunOut,
        PromoteSurvivor, SendNextBatsman, SpawnReplacement, UmpireToken,
        WakeSurvivor, EndMatch, WakeGateAtEnd, RaiseFlagsAtEnd, PollAgain,
        UmpireDone
  <2> QED
    BY <1>1, <1>2, <2>1
<1>6. ASSUME NEW t \in Threads, Batsman(t) PROVE BowlerGoesOn'
  <2>1. ReleaseBowler \/ UNCHANGED <<bowler, stroke_done>>
    BY <1>6, Zenon DEF Batsman, EnterCrease, AwaitStrike, SleepForDelivery,
        AbandonDelivery, PutBackDelivery, TakeDelivery, ScoreRuns, Dismiss,
        Promote, WakePromoted, SpawnNext, FirstToken, EndDismissal, PostResult,
        StageRunOut, Cross, SwapOnOddRuns, WakeEnds, SecondToken, Leave,
        LastToken, PostCrease
  <2> QED
    BY <1>1, <1>2, <2>1
<1>7. CASE InningsReturned \/ UNCHANGED vars
  <2>1. UNCHANGED <<bowler, stroke_done>>
    BY <1>7, Zenon DEF InningsReturned
  <2> QED
    BY <1>2, <2>1
<1> QED
    BY <1>3, <1>4, <1>5, <1>6, <1>7 DEF Next

\* The umpire goes from the mark to the token and to the broadcast.
LEMMA RunOutGoesOn ==
    ASSUME [Next]_vars
    PROVE  /\ RunOutPending => RunOutPending' \/ UmpireToken
           /\ umpire = "broadcast" => umpire' = "broadcast" \/ WakeSurvivor
<1>1. CASE Umpire
  <2>1. CASE CountRunOut \/ PromoteSurvivor \/ SpawnReplacement
    BY <2>1 DEF RunOutPending, CountRunOut, PromoteSurvivor, SpawnReplacement
  <2>2. CASE SendNextBatsman
    BY <2>2 DEF RunOutPending, SendNextBatsman
  <2>3. CASE UmpireToken
    BY <2>3 DEF RunOutPending, UmpireToken
  <2>4. CASE WakeSurvivor
    BY <2>4 DEF RunOutPending, WakeSurvivor
  <2>5. CASE \/ DetectDeadlock \/ MarkRunOut \/ EndMatch \/ WakeGateAtEnd
             \/ RaiseFlagsAtEnd \/ PollAgain \/ UmpireDone
    <3>1. umpire \in {"poll", "victim", "check", "wakeGate", "flags"}
      BY <2>5, Zenon DEF DetectDeadlock, MarkRunOut, EndMatch, WakeGateAtEnd,
          RaiseFlagsAtEnd, PollAgain, UmpireDone, Scanned
    <3> QED
      BY <3>1 DEF RunOutPending
  <2> QED
    BY <1>1, <2>1, <2>2, <2>3, <2>4, <2>5 DEF Umpire
<1>2. ASSUME Engine \/ Bowler \/ (\E t \in Threads : Batsman(t))
                \/ InningsReturned \/ UNCHANGED vars
      PROVE  UNCHANGED umpire
  <2>1. CASE Engine
    BY <2>1, Zenon DEF Engine, StartOver, ResetFlags, AssignStriker,
        SpawnStriker, SpawnBowler, JoinBowler, SwapEnds, WakeAfterSwap,
        FinishInnings, WakeAtEnd, RaiseFlags, JoinBatsman, JoinUmpire
  <2>2. CASE Bowler
    BY <2>2, Zenon DEF Bowler, Deliver, BowlerDone, SleepForStroke,
        AckStroke, CountBall
  <2>3. CASE \E t \in Threads : Batsman(t)
    BY <2>3, Zenon DEF Batsman, EnterCrease, AwaitStrike, SleepForDelivery,
        AbandonDelivery, PutBackDelivery, TakeDelivery, ScoreRuns, Dismiss,
        Promote, WakePromoted, SpawnNext, FirstToken, EndDismissal, PostResult,
        StageRunOut, Cross, SwapOnOddRuns, WakeEnds, SecondToken, Leave,
        LastToken, PostCrease
  <2>4. CASE InningsReturned \/ UNCHANGED vars
    BY <2>4, Zenon DEF InningsReturned
  <2> QED
    BY <1>2, <2>1, <2>2, <2>3, <2>4
<1> QED
    BY <1>1, <1>2 DEF Next, RunOutPending

\* Who is out: one whose thread plays the ball, or the victim of the umpire.
LEMMA WhoIsOut ==
    ASSUME [Next]_vars
    PROVE  \/ UNCHANGED is_out
           \/ MarkRunOut
           \/ \E u \in Threads : Dismiss(u)
<1>1. CASE Engine
    BY <1>1, Zenon DEF Engine, StartOver, ResetFlags, AssignStriker,
        SpawnStriker, SpawnBowler, JoinBowler, SwapEnds, WakeAfterSwap,
        FinishInnings, WakeAtEnd, RaiseFlags, JoinBatsman, JoinUmpire
<1>2. CASE Bowler
    BY <1>2, Zenon DEF Bowler, Deliver, BowlerDone, SleepForStroke,
        AckStroke, CountBall
<1>3. CASE Umpire
    BY <1>3, Zenon DEF Umpire, DetectDeadlock, CountRunOut,
        PromoteSurvivor, SendNextBatsman, SpawnReplacement, UmpireToken,
        WakeSurvivor, EndMatch, WakeGateAtEnd, RaiseFlagsAtEnd, PollAgain,
        UmpireDone
<1>4. ASSUME NEW t \in Threads, Batsman(t) PROVE UNCHANGED is_out \/ Dismiss(t)
    BY <1>4, Zenon DEF Batsman, EnterCrease, AwaitStrike, SleepForDelivery,
        AbandonDelivery, PutBackDelivery, TakeDelivery, ScoreRuns,
        Promote, WakePromoted, SpawnNext, FirstToken, EndDismissal, PostResult,
        StageRunOut, Cross, SwapOnOddRuns, WakeEnds, SecondToken, Leave,
        LastToken, PostCrease
<1>5. CASE InningsReturned \/ UNCHANGED vars
    BY <1>5, Zenon DEF InningsReturned
<1> QED
    BY <1>1, <1>2, <1>3, <1>4, <1>5 DEF Next

\* Nobody goes to sleep who is out.
LEMMA SleepersWereIn ==
    ASSUME TypeOK, [Next]_vars, NEW t \in Threads, is_out[Player(t)],
           bat'[t] \in {"gateAsleep", "awaitAsleep"}
    PROVE  bat[t] = bat'[t]
<1> USE DEF TypeOK, ThreadTypeOK
<1>1. CASE Engine \/ Bowler \/ Umpire
    BY <1>1, ServiceKeeps
<1>2. ASSUME NEW u \in Threads, Batsman(u) PROVE bat[t] = bat'[t]
  <2>1. CASE u # t
    BY <1>2, <2>1, OthersMove
  <2>2. CASE u = t
    <3> USE DEF MoveTo, MustLeave
    <3>1. CASE AwaitStrike(t) \/ SleepForDelivery(t)
      BY <3>1 DEF AwaitStrike, SleepForDelivery
    <3>2. CASE ~(AwaitStrike(t) \/ SleepForDelivery(t))
      <4>1. \E pc \in {"gate", "leave", "stroke", "result", "firstToken",
                        "promote", "wakePromoted", "spawn", "unlock", "stage",
                        "cross", "secondToken", "swapEnds", "wakeEnds",
                        "lastToken", "post", "done"} :
              \/ bat' = [bat EXCEPT ![t] = pc]
              \/ bat' = [WakeGate(bat) EXCEPT ![t] = pc]
              \/ bat' = [WakeDelivery(bat) EXCEPT ![t] = pc]
              \/ SpawnNext(t)
        BY <1>2, <2>2, <3>2, Zenon DEF Batsman, EnterCrease, AbandonDelivery,
           PutBackDelivery, TakeDelivery, ScoreRuns, Dismiss, Promote,
           WakePromoted, FirstToken, EndDismissal, PostResult,
           StageRunOut, Cross, SwapOnOddRuns, WakeEnds, SecondToken, Leave,
           LastToken, PostCrease
      <4>2. CASE SpawnNext(t)
        <5>1. PICK k \in 1 .. MaxSpawns :
                bat' = [bat EXCEPT ![<<next_bat, k>>] = "sem",
                                   ![t] = "firstToken"]
          BY <4>2, Zenon DEF SpawnNext
        <5> QED
          BY <5>1
      <4>3. CASE ~SpawnNext(t)
        BY <4>1, <4>3 DEF WakeGate, WakeDelivery, Wake
      <4> QED
        BY <4>2, <4>3
    <3> QED
      BY <3>1, <3>2
  <2> QED
    BY <2>1, <2>2
<1>3. CASE InningsReturned \/ UNCHANGED vars
    BY <1>3 DEF InningsReturned
<1> QED
    BY <1>1, <1>2, <1>3 DEF Next

LEMMA RunOutStep ==
    ASSUME TypeOK, TypeOK', IdleInv, RunOutInv, [Next]_vars
    PROVE  RunOutInv'
<1> SUFFICES ASSUME NEW t \in Threads, OutWithOneThread(t)',
                    bat'[t] \in {"gateAsleep", "awaitAsleep"}
             PROVE  /\ bat'[t] = "gateAsleep"
                           => RunOutPending' \/ umpire' = "broadcast"
                    /\ bat'[t] = "awaitAsleep"
                           => RunOutPending' \/ BowlerGoesOn'
    BY DEF RunOutInv
<1>1. \A u \in Threads \ {t} : Player(u) = Player(t) => bat[u] = "unborn"
    BY SpawnedForGood DEF OutWithOneThread, Player
<1>2. CASE is_out[Player(t)]
  <2>1. OutWithOneThread(t) /\ bat[t] = bat'[t]
    BY <1>1, <1>2, SleepersWereIn DEF OutWithOneThread
  <2>2. UmpireToken => umpire' = "broadcast" /\ BowlerGoesOn'
    BY DEF UmpireToken, ReleaseBowler, WakeBowler, BowlerGoesOn
  <2>3. CASE bat'[t] = "gateAsleep"
    <3>1. ~WakeSurvivor
      BY <2>3 DEF WakeSurvivor, WakeGate, Wake
    <3> QED
      BY <2>1, <2>2, <2>3, <3>1, RunOutGoesOn DEF RunOutInv
  <2>4. CASE bat'[t] = "awaitAsleep"
    <3>1. bat' # WakeDelivery(bat)
      BY <2>4 DEF WakeDelivery, Wake
    <3> QED
      BY <2>1, <2>2, <2>4, <3>1, RunOutGoesOn, GoingOn DEF RunOutInv
  <2> QED
    BY <2>3, <2>4
<1>3. CASE ~is_out[Player(t)]
  <2>1. is_out' # is_out
    BY <1>3 DEF OutWithOneThread, Player
  <2>2. ASSUME NEW u \in Threads, Dismiss(u) PROVE FALSE
    <3>1. /\ bat[u] = "stroke"
          /\ is_out' = [is_out EXCEPT ![Player(u)] = TRUE]
          /\ \E pc \in {"firstToken", "promote"} :
                 bat' = [bat EXCEPT ![u] = pc]
      BY <2>2, Zenon DEF Dismiss, MoveTo
    <3>2. Player(u) = Player(t)
      BY <1>3, <3>1, PlayerIsBatsman DEF OutWithOneThread, Player, TypeOK,
         OrderTypeOK
    <3>3. u # t
      BY <3>1 DEF TypeOK, ThreadTypeOK
    <3> QED
      BY <1>1, <3>1, <3>2, <3>3
  <2>3. MarkRunOut
    BY <2>1, <2>2, WhoIsOut
  <2> QED
    BY <2>3 DEF MarkRunOut, RunOutPending
<1> QED
    BY <1>2, <1>3

LEMMA RunOutHolds == Spec => [](IdleInv /\ RunOutInv)
<1>1. Init => IdleInv /\ RunOutInv
    BY Zenon DEF Init, IdleInv, RunOutInv, OutWithOneThread, Player, Threads
<1>2. ASSUME IInv, IInv', IdleInv /\ RunOutInv, [Next]_vars
      PROVE  (IdleInv /\ RunOutInv)'
    BY <1>2, IdleStep, RunOutStep DEF IInv
<1> QED
    BY <1>1, <1>2, InvHolds, PTL DEF Spec

\* No thread sleeps on a condition variable whose condition holds unless the
\* broadcast is still to come, but for a batsman whom the umpire runs out
\* while he sleeps before the delivery; for him the bowler does not wait
\* (batsman_thread_func 194 and 213, umpire_thread_func 671-708).
THEOREM NoWakeupIsLost == Spec => []NoLostWakeup
<1>1. IInv /\ RunOutInv => NoLostWakeup
    BY DEF IInv, GateInv, DeliveryInv, BowlerInv, RunOutInv, BowlerGoesOn,
           NoLostWakeup
<1> QED
    BY <1>1, InvHolds, RunOutHolds, PTL

\* What moves the score: a stroke, a dismissal, a run-out.
LEMMA ScoreMoves ==
    ASSUME [Next]_vars
    PROVE  /\ UNCHANGED target
           /\ \/ UNCHANGED <<total_runs, wickets>>
              \/ CountRunOut /\ Umpire
              \/ \E t \in Threads : Batsman(t) /\ (ScoreRuns(t) \/ Dismiss(t))
<1>1. CASE Engine \/ Bowler
    BY <1>1, Zenon DEF Engine, Bowler, StartOver, ResetFlags,
        AssignStriker, SpawnStriker, SpawnBowler, JoinBowler, SwapEnds,
        WakeAfterSwap, FinishInnings, WakeAtEnd, RaiseFlags, JoinBatsman,
        JoinUmpire, Deliver, BowlerDone, SleepForStroke, AckStroke, CountBall
<1>2. CASE Umpire
    BY <1>2, Zenon DEF Umpire, DetectDeadlock, MarkRunOut, CountRunOut,
        PromoteSurvivor, SendNextBatsman, SpawnReplacement, UmpireToken,
        WakeSurvivor, EndMatch, WakeGateAtEnd, RaiseFlagsAtEnd, PollAgain,
        UmpireDone
<1>3. ASSUME NEW t \in Threads, Batsman(t)
      PROVE  /\ UNCHANGED target
             /\ \/ UNCHANGED <<total_runs, wickets>>
                \/ Batsman(t) /\ (ScoreRuns(t) \/ Dismiss(t))
    BY <1>3, Zenon DEF Batsman, EnterCrease, AwaitStrike, SleepForDelivery,
        AbandonDelivery, PutBackDelivery, TakeDelivery, ScoreRuns, Dismiss,
        Promote, WakePromoted, SpawnNext, FirstToken, EndDismissal, PostResult,
        StageRunOut, Cross, SwapOnOddRuns, WakeEnds, SecondToken, Leave,
        LastToken, PostCrease
<1>4. CASE InningsReturned \/ UNCHANGED vars
    BY <1>4 DEF InningsReturned
<1> QED
    BY <1>1, <1>2, <1>3, <1>4 DEF Next

\* The score only grows, and a decision stands.
LEMMA ScoreGrows ==
    ASSUME IInv, [Next]_vars
    PROVE  /\ total_runs' >= total_runs /\ wickets' >= wickets
           /\ AllOut \/ Chased => AllOut' \/ Chased'
<1>1. total_runs \in Nat /\ wickets \in Nat /\ target \in Nat
    BY TargetAssumption DEF IInv, TypeOK, BoardTypeOK
<1>2. total_runs' \in Nat /\ wickets' \in Nat
    BY InvStep DEF IInv, TypeOK, BoardTypeOK
<1>3. ASSUME NEW t \in Threads, ScoreRuns(t) \/ Dismiss(t)
      PROVE  total_runs' >= total_runs /\ wickets' >= wickets
  <2>1. CASE ScoreRuns(t)
    <3>1. UNCHANGED wickets /\ \E o : total_runs' = total_runs + RunsOf(o)
      BY <2>1, Zenon DEF ScoreRuns
    <3> QED
      BY <1>1, <3>1, RunsOfType
  <2>2. CASE Dismiss(t)
    <3>1. wickets' = wickets + 1 /\ UNCHANGED total_runs
      BY <2>2 DEF Dismiss
    <3> QED
      BY <1>1, <3>1
  <2> QED
    BY <1>3, <2>1, <2>2
<1>4. total_runs' >= total_runs /\ wickets' >= wickets /\ UNCHANGED target
  <2>1. CountRunOut => wickets' = wickets + 1 /\ UNCHANGED total_runs
    BY DEF CountRunOut
  <2> QED
    BY <1>1, <1>3, <2>1, ScoreMoves
<1> QED
    BY <1>1, <1>2, <1>4, OversAssumption DEF AllOut, Chased

\* run_innings does not go back to its overs, nor the umpire to his loop.
LEMMA EndsForGood ==
    ASSUME [Next]_vars
    PROVE  /\ engine \in Closing => engine' \in Closing
           /\ umpire = "done" => umpire' = "done"
           /\ engine' \in Closing => engine \in Closing \/ FinishInnings
           /\ engine' = "done" => engine = "done" \/ JoinUmpire
<1>1. CASE Engine
  <2>1. UNCHANGED umpire
    BY <1>1, Zenon DEF Engine, StartOver, ResetFlags, AssignStriker,
        SpawnStriker, SpawnBowler, JoinBowler, SwapEnds, WakeAfterSwap,
        FinishInnings, WakeAtEnd, RaiseFlags, JoinBatsman, JoinUmpire
  <2>2. CASE WakeAtEnd \/ RaiseFlags \/ JoinBatsman \/ JoinUmpire \/ FinishInnings
    BY <2>1, <2>2 DEF WakeAtEnd, RaiseFlags, JoinBatsman, JoinUmpire,
       FinishInnings, Closing
  <2>3. CASE \/ StartOver \/ ResetFlags \/ AssignStriker \/ SpawnStriker
             \/ SpawnBowler \/ JoinBowler \/ SwapEnds \/ WakeAfterSwap
    <3>1. engine \notin Closing /\ engine' \notin Closing
      BY <2>3 DEF StartOver, ResetFlags, AssignStriker, SpawnStriker,
         SpawnBowler, JoinBowler, SwapEnds, WakeAfterSwap, Closing
    <3> QED
      BY <2>1, <3>1 DEF Closing
  <2> QED
    BY <1>1, <2>2, <2>3 DEF Engine
<1>2. CASE Bowler
  <2>1. UNCHANGED <<engine, umpire>>
    BY <1>2, Zenon DEF Bowler, Deliver, BowlerDone, SleepForStroke,
        AckStroke, CountBall
  <2> QED
    BY <2>1
<1>3. CASE Umpire
  <2>1. UNCHANGED engine
    BY <1>3, Zenon DEF Umpire, DetectDeadlock, MarkRunOut, CountRunOut,
        PromoteSurvivor, SendNextBatsman, SpawnReplacement, UmpireToken,
        WakeSurvivor, EndMatch, WakeGateAtEnd, RaiseFlagsAtEnd, PollAgain,
        UmpireDone
  <2>2. umpire # "done"
    BY <1>3 DEF Umpire, DetectDeadlock, MarkRunOut, CountRunOut,
        PromoteSurvivor, SendNextBatsman, SpawnReplacement, UmpireToken,
        WakeSurvivor, EndMatch, WakeGateAtEnd, RaiseFlagsAtEnd, PollAgain,
        UmpireDone, Scanned
  <2> QED
    BY <2>1, <2>2
<1>4. ASSUME NEW t \in Threads, Batsman(t) PROVE UNCHANGED <<engine, umpire>>
    BY <1>4, Zenon DEF Batsman, EnterCrease, AwaitStrike, SleepForDelivery,
        AbandonDelivery, PutBackDelivery, TakeDelivery, ScoreRuns, Dismiss,
        Promote, WakePromoted, SpawnNext, FirstToken, EndDismissal, PostResult,
        StageRunOut, Cross, SwapOnOddRuns, WakeEnds, SecondToken, Leave,
        LastToken, PostCrease
<1>5. CASE InningsReturned \/ UNCHANGED vars
    BY <1>5 DEF InningsReturned
<1> QED
    BY <1>1, <1>2, <1>3, <1>4, <1>5 DEF Next

\* The match is called by the umpire or ended by run_innings.
LEMMA EndStep ==
    ASSUME IInv, EndInv, [Next]_vars
    PROVE  EndInv'
<1>1. /\ match_over => match_over'
      /\ AllOut \/ Chased => AllOut' \/ Chased'
    BY NobodyReturns, ScoreGrows DEF IInv
<1>2. match_over' => match_over \/ EndMatch \/ FinishInnings
  <2>1. CASE Engine \/ Bowler
    BY <2>1, Zenon DEF Engine, Bowler, StartOver, ResetFlags,
        AssignStriker, SpawnStriker, SpawnBowler, JoinBowler, SwapEnds,
        WakeAfterSwap, FinishInnings, WakeAtEnd, RaiseFlags, JoinBatsman,
        JoinUmpire, Deliver, BowlerDone, SleepForStroke, AckStroke, CountBall
  <2>2. CASE Umpire
    BY <2>2, Zenon DEF Umpire, DetectDeadlock, MarkRunOut, CountRunOut,
        PromoteSurvivor, SendNextBatsman, SpawnReplacement, UmpireToken,
        WakeSurvivor, EndMatch, WakeGateAtEnd, RaiseFlagsAtEnd, PollAgain,
        UmpireDone
  <2>3. ASSUME NEW t \in Threads, Batsman(t) PROVE UNCHANGED match_over
    BY <2>3, Zenon DEF Batsman, EnterCrease, AwaitStrike, SleepForDelivery,
        AbandonDelivery, PutBackDelivery, TakeDelivery, ScoreRuns, Dismiss,
        Promote, WakePromoted, SpawnNext, FirstToken, EndDismissal, PostResult,
        StageRunOut, Cross, SwapOnOddRuns, WakeEnds, SecondToken, Leave,
        LastToken, PostCrease
  <2>4. CASE InningsReturned \/ UNCHANGED vars
    BY <2>4 DEF InningsReturned
  <2> QED
    BY <2>1, <2>2, <2>3, <2>4, Zenon DEF Next
<1>3. EndMatch => AllOut \/ Chased
    BY DEF EndMatch, MatchEnd
<1>4. FinishInnings => engine' \in Closing /\ match_over'
    BY DEF FinishInnings, Closing
<1>5. JoinUmpire => umpire = "done"
    BY DEF JoinUmpire
<1> QED
    BY <1>1, <1>2, <1>3, <1>4, <1>5, EndsForGood DEF EndInv

\* Nothing but the first over lets anybody bat.
LEMMA FirstOverStep ==
    ASSUME IInv, EndInv, FirstOverInv, [Next]_vars
    PROVE  FirstOverInv'
<1> USE DEF IInv, TypeOK, BoardTypeOK
<1>1. match_over => match_over'
    BY NobodyReturns
<1> SUFFICES ASSUME current_over' = 0
             PROVE  /\ engine' \in {"over"} \cup Closing
                    /\ bowler' = "idle"
                    /\ delivery_ready' => match_over'
                    /\ \A b \in Batsmen : holds_end'[b] = -1
                    /\ umpire' \notin {"victim", "wicket"}
                    /\ \A t \in Threads : bat'[t] \notin OnTheBall
    BY DEF FirstOverInv
<1>2. ~StartOver
    BY DEF StartOver
<1>3. current_over = 0
  <2>1. CASE Engine \/ Bowler \/ Umpire
    BY <1>2, <2>1, Zenon DEF Engine, Bowler, Umpire, ResetFlags,
        AssignStriker, SpawnStriker, SpawnBowler, JoinBowler, SwapEnds,
        WakeAfterSwap, FinishInnings, WakeAtEnd, RaiseFlags, JoinBatsman,
        JoinUmpire, Deliver, BowlerDone, SleepForStroke, AckStroke, CountBall,
        DetectDeadlock, MarkRunOut, CountRunOut,
        PromoteSurvivor, SendNextBatsman, SpawnReplacement, UmpireToken,
        WakeSurvivor, EndMatch, WakeGateAtEnd, RaiseFlagsAtEnd, PollAgain,
        UmpireDone
  <2>2. ASSUME NEW t \in Threads, Batsman(t) PROVE UNCHANGED current_over
    BY <2>2, Zenon DEF Batsman, EnterCrease, AwaitStrike, SleepForDelivery,
        AbandonDelivery, PutBackDelivery, TakeDelivery, ScoreRuns, Dismiss,
        Promote, WakePromoted, SpawnNext, FirstToken, EndDismissal, PostResult,
        StageRunOut, Cross, SwapOnOddRuns, WakeEnds, SecondToken, Leave,
        LastToken, PostCrease
  <2>3. CASE InningsReturned \/ UNCHANGED vars
    BY <2>3, Zenon DEF InningsReturned
  <2> QED
    BY <2>1, <2>2, <2>3, Zenon DEF Next
<1>4. /\ engine \in {"over"} \cup Closing
      /\ bowler = "idle"
      /\ delivery_ready => match_over
      /\ \A b \in Batsmen : holds_end[b] = -1
      /\ umpire \notin {"victim", "wicket"}
      /\ \A t \in Threads : bat[t] \notin OnTheBall
    BY <1>3 DEF FirstOverInv
<1>5. CASE Engine \/ Bowler \/ Umpire
  <2>1. \A t \in Threads : bat'[t] \notin OnTheBall
    BY <1>4, <1>5, ServiceKeeps DEF OnTheBall
  <2>2. CASE Engine
    <3>1. UNCHANGED <<holds_end, umpire>>
      BY <2>2, Zenon DEF Engine, StartOver, ResetFlags, AssignStriker,
        SpawnStriker, SpawnBowler, JoinBowler, SwapEnds, WakeAfterSwap,
        FinishInnings, WakeAtEnd, RaiseFlags, JoinBatsman, JoinUmpire
    <3>2. FinishInnings \/ WakeAtEnd \/ RaiseFlags \/ JoinBatsman \/ JoinUmpire
      BY <1>2, <1>4, <2>2 DEF Engine, StartOver, ResetFlags, AssignStriker,
        SpawnStriker, SpawnBowler, JoinBowler, SwapEnds, WakeAfterSwap, Closing
    <3>3. engine' \in Closing
      BY <3>2 DEF FinishInnings, WakeAtEnd, RaiseFlags, JoinBatsman, JoinUmpire,
         Closing
    <3>4. bowler' = bowler \/ bowler' = WakeBowler(bowler)
      BY <3>2, Zenon DEF FinishInnings, WakeAtEnd, RaiseFlags, JoinBatsman,
         JoinUmpire, ReleaseBowler
    <3>5. match_over'
      BY <3>3, EndStep DEF EndInv
    <3> QED
      BY <1>4, <2>1, <3>1, <3>3, <3>4, <3>5 DEF WakeBowler
  <2>3. CASE Bowler
    BY <1>4, <2>3 DEF Bowler, Deliver, BowlerDone, SleepForStroke, AckStroke,
       CountBall
  <2>4. CASE Umpire
    <3>1. UNCHANGED engine
      BY <2>4, Zenon DEF Umpire, DetectDeadlock, MarkRunOut, CountRunOut,
          PromoteSurvivor, SendNextBatsman, SpawnReplacement, UmpireToken,
          WakeSurvivor, EndMatch, WakeGateAtEnd, RaiseFlagsAtEnd, PollAgain,
          UmpireDone
    <3>2. ~DetectDeadlock
      BY <1>3, <1>4 DEF DetectDeadlock, Cycle, CanInject, CircularWait
    <3>3. ~MarkRunOut
      BY <1>4 DEF MarkRunOut
    <3>4. UNCHANGED holds_end
      BY <2>4, <3>2, <3>3, Zenon DEF Umpire, CountRunOut,
          PromoteSurvivor, SendNextBatsman, SpawnReplacement, UmpireToken,
          WakeSurvivor, EndMatch, WakeGateAtEnd, RaiseFlagsAtEnd, PollAgain,
          UmpireDone
    <3>5. umpire' \notin {"victim", "wicket"}
      BY <2>4, <3>2, <3>3 DEF Umpire, CountRunOut,
          PromoteSurvivor, SendNextBatsman, SpawnReplacement, UmpireToken,
          WakeSurvivor, EndMatch, WakeGateAtEnd, RaiseFlagsAtEnd, PollAgain,
          UmpireDone
    <3>6. bowler' = bowler \/ bowler' = WakeBowler(bowler)
      BY <2>4, Zenon DEF Umpire, DetectDeadlock, MarkRunOut, CountRunOut,
          PromoteSurvivor, SendNextBatsman, SpawnReplacement, UmpireToken,
          WakeSurvivor, EndMatch, WakeGateAtEnd, RaiseFlagsAtEnd, PollAgain,
          UmpireDone, ReleaseBowler
    <3>7. UNCHANGED delivery_ready \/ match_over
      <4>1. CASE RaiseFlagsAtEnd
        BY <4>1 DEF RaiseFlagsAtEnd, CallInv
      <4>2. CASE ~RaiseFlagsAtEnd
        BY <2>4, <4>2, Zenon DEF Umpire, DetectDeadlock, MarkRunOut, CountRunOut,
            PromoteSurvivor, SendNextBatsman, SpawnReplacement, UmpireToken,
            WakeSurvivor, EndMatch, WakeGateAtEnd, PollAgain, UmpireDone,
            ReleaseBowler
      <4> QED
        BY <4>1, <4>2
    <3> QED
      BY <1>1, <1>4, <2>1, <3>1, <3>4, <3>5, <3>6, <3>7 DEF WakeBowler
  <2> QED
    BY <1>5, <2>2, <2>3, <2>4
<1>6. ASSUME NEW t \in Threads, Batsman(t)
      PROVE  /\ engine' \in {"over"} \cup Closing
             /\ bowler' = "idle"
             /\ delivery_ready' => match_over'
             /\ \A b \in Batsmen : holds_end'[b] = -1
             /\ umpire' \notin {"victim", "wicket"}
             /\ \A u \in Threads : bat'[u] \notin OnTheBall
  <2>1. UNCHANGED <<engine, umpire>>
    BY <1>6, Zenon DEF Batsman, EnterCrease, AwaitStrike, SleepForDelivery,
        AbandonDelivery, PutBackDelivery, TakeDelivery, ScoreRuns, Dismiss,
        Promote, WakePromoted, SpawnNext, FirstToken, EndDismissal, PostResult,
        StageRunOut, Cross, SwapOnOddRuns, WakeEnds, SecondToken, Leave,
        LastToken, PostCrease
  <2>2. ~TakeDelivery(t)
    BY <1>4 DEF TakeDelivery, MustLeave
  <2>3. ~StageRunOut(t)
    BY <1>4 DEF StageRunOut, OnTheBall
  <2>4. UNCHANGED <<delivery_ready, holds_end>>
    BY <1>6, <2>2, <2>3, Zenon DEF Batsman, EnterCrease, AwaitStrike,
        SleepForDelivery, AbandonDelivery, PutBackDelivery, ScoreRuns, Dismiss,
        Promote, WakePromoted, SpawnNext, FirstToken, EndDismissal, PostResult,
        Cross, SwapOnOddRuns, WakeEnds, SecondToken, Leave,
        LastToken, PostCrease
  <2>5. bowler' = bowler \/ bowler' = WakeBowler(bowler)
    BY <1>6, Zenon DEF Batsman, EnterCrease, AwaitStrike,
        SleepForDelivery, AbandonDelivery, PutBackDelivery, TakeDelivery, ScoreRuns,
        Dismiss, Promote, WakePromoted, SpawnNext, FirstToken, EndDismissal,
        PostResult, StageRunOut, Cross, SwapOnOddRuns, WakeEnds, SecondToken, Leave,
        LastToken, PostCrease, ReleaseBowler
  <2>6. \A u \in Threads : bat'[u] \notin OnTheBall
    BY <1>4, <1>6, <2>2, OthersMove, OwnMove DEF OnTheBall
  <2> QED
    BY <1>1, <1>4, <2>1, <2>4, <2>5, <2>6 DEF WakeBowler
<1>7. CASE InningsReturned \/ UNCHANGED vars
    BY <1>4, <1>7 DEF InningsReturned
<1> QED
    BY <1>5, <1>6, <1>7 DEF Next

-----------------------------------------------------------------------------
(* The handles of the threads.                                             *)

\* As long as nobody is spawned twice the handles run_innings has are those of
\* all threads it has not joined, and it waits for every ball.
HandleInv ==
    SpawnedOnce =>
        /\ engine # "done" =>
              \A t \in Threads :
                  bat[t] # "unborn" /\ (engine = "joinBatsmen" => Player(t) >= joining)
                      => thread_id[Player(t)] = 1
        /\ engine = "joinBatsmen" =>
              \A t \in Threads : bat[t] = "stroke" => Player(t) >= joining
        /\ engine = "done" => \A t \in Threads : bat[t] # "stroke"

LEMMA OnceStaysOnce ==
    ASSUME TypeOK, [Next]_vars, SpawnedOnce' PROVE SpawnedOnce
BY SpawnedForGood DEF SpawnedOnce

\* A thread is started together with its handle.
LEMMA SpawnKeepsHandle ==
    ASSUME TypeOK, SpawnedOnce', NEW b, NEW k \in 1 .. MaxSpawns,
           thread_id' = [thread_id EXCEPT ![b] = k],
           b \in Batsmen => bat'[<<b, k>>] # "unborn",
           \A u \in Threads : u # <<b, k>> /\ bat[u] = "unborn" => bat'[u] = "unborn"
    PROVE  /\ \A c \in Batsmen : thread_id'[c] = thread_id[c] \/ thread_id'[c] = 1
           /\ \A u \in Threads : bat[u] = "unborn" /\ bat'[u] # "unborn"
                                     => thread_id'[Player(u)] = 1
<1>1. CASE b \in Batsmen
  <2>1. <<b, k>> \in Threads
    BY <1>1 DEF Threads
  <2>2. k = 1
    BY <1>1, <2>1 DEF SpawnedOnce
  <2>3. \A c \in Batsmen : thread_id'[c] = IF c = b THEN 1 ELSE thread_id[c]
    BY <2>2 DEF TypeOK, ThreadTypeOK
  <2> QED
    BY <1>1, <2>3 DEF Player
<1>2. CASE b \notin Batsmen
  <2>1. \A u \in Threads : u # <<b, k>>
    BY <1>2 DEF Threads
  <2>2. thread_id' = thread_id
    BY <1>2 DEF TypeOK, ThreadTypeOK
  <2> QED
    BY <2>1, <2>2
<1> QED
    BY <1>1, <1>2

LEMMA ThreadsAreRecorded ==
    ASSUME TypeOK, SpawnedOnce', [Next]_vars, ~JoinBatsman
    PROVE  /\ \A c \in Batsmen : thread_id'[c] = thread_id[c] \/ thread_id'[c] = 1
           /\ \A u \in Threads : bat[u] = "unborn" /\ bat'[u] # "unborn"
                                     => thread_id'[Player(u)] = 1
<1>1. CASE UNCHANGED thread_id /\ \A u \in Threads : bat[u] = "unborn" => bat'[u] = "unborn"
    BY <1>1
<1>2. ASSUME NEW b, Spawn(b)
      PROVE  /\ \A c \in Batsmen : thread_id'[c] = thread_id[c] \/ thread_id'[c] = 1
             /\ \A u \in Threads : bat[u] = "unborn" /\ bat'[u] # "unborn"
                                       => thread_id'[Player(u)] = 1
  <2>1. PICK k \in 1 .. MaxSpawns :
          /\ bat' = [bat EXCEPT ![<<b, k>>] = "sem"]
          /\ thread_id' = [thread_id EXCEPT ![b] = k]
    BY <1>2, Zenon DEF Spawn
  <2>2. b \in Batsmen => <<b, k>> \in Threads
    BY DEF Threads
  <2> QED
    BY <2>1, <2>2, SpawnKeepsHandle DEF TypeOK, ThreadTypeOK
<1>3. ASSUME NEW t \in Threads, SpawnNext(t)
      PROVE  /\ \A c \in Batsmen : thread_id'[c] = thread_id[c] \/ thread_id'[c] = 1
             /\ \A u \in Threads : bat[u] = "unborn" /\ bat'[u] # "unborn"
                                       => thread_id'[Player(u)] = 1
  <2>1. PICK k \in 1 .. MaxSpawns :
          /\ bat' = [bat EXCEPT ![<<next_bat, k>>] = "sem", ![t] = "firstToken"]
          /\ thread_id' = [thread_id EXCEPT ![next_bat] = k]
    BY <1>3, Zenon DEF SpawnNext
  <2>2. next_bat \in Batsmen => <<next_bat, k>> \in Threads
    BY DEF Threads
  <2>3. bat[t] = "spawn"
    BY <1>3 DEF SpawnNext
  <2> QED
    BY <2>1, <2>2, <2>3, SpawnKeepsHandle DEF TypeOK, ThreadTypeOK
<1>4. CASE Engine \/ Bowler \/ Umpire
  <2>1. \/ UNCHANGED thread_id /\ \/ UNCHANGED bat
                                  \/ bat' = WakeGate(bat) \/ bat' = WakeDelivery(bat)
        \/ Spawn(striker_id) \/ Spawn(runout.next)
    BY <1>4, Zenon DEF Engine, Bowler, Umpire, StartOver, ResetFlags,
        AssignStriker, SpawnStriker, SpawnBowler, JoinBowler, SwapEnds,
        WakeAfterSwap, FinishInnings, WakeAtEnd, RaiseFlags,
        JoinUmpire, Deliver, BowlerDone, SleepForStroke, AckStroke, CountBall,
        DetectDeadlock, MarkRunOut, CountRunOut,
        PromoteSurvivor, SendNextBatsman, SpawnReplacement, UmpireToken,
        WakeSurvivor, EndMatch, WakeGateAtEnd, RaiseFlagsAtEnd, PollAgain,
        UmpireDone
  <2> QED
    BY <1>1, <1>2, <2>1 DEF WakeGate, WakeDelivery, Wake
<1>5. ASSUME NEW t \in Threads, Batsman(t), ~SpawnNext(t)
      PROVE  UNCHANGED thread_id /\ \A u \in Threads : bat[u] = "unborn" => bat'[u] = "unborn"
  <2>1. UNCHANGED thread_id
    BY <1>5, Zenon DEF Batsman, EnterCrease, AwaitStrike, SleepForDelivery,
        AbandonDelivery, PutBackDelivery, TakeDelivery, ScoreRuns, Dismiss,
        Promote, WakePromoted, FirstToken, EndDismissal, PostResult,
        StageRunOut, Cross, SwapOnOddRuns, WakeEnds, SecondToken, Leave,
        LastToken, PostCrease
  <2> QED
    BY <1>5, <2>1, OthersMove, OwnMove
<1>6. CASE InningsReturned \/ UNCHANGED vars
    BY <1>1, <1>6 DEF InningsReturned
<1> QED
    BY <1>1, <1>3, <1>4, <1>5, <1>6 DEF Next

\* Joining goes from batsman to batsman once the flags are raised.
LEMMA JoiningGoesOn ==
    ASSUME [Next]_vars, ~JoinBatsman, ~JoinUmpire, ~RaiseFlags
    PROVE  /\ UNCHANGED joining
           /\ engine' = "joinBatsmen" <=> engine = "joinBatsmen"
           /\ engine' = "done" <=> engine = "done"
<1>1. CASE Engine
  <2>1. UNCHANGED joining
    BY <1>1, Zenon DEF Engine, StartOver, ResetFlags, AssignStriker,
        SpawnStriker, SpawnBowler, JoinBowler, SwapEnds, WakeAfterSwap,
        FinishInnings, WakeAtEnd
  <2>2. /\ engine \notin {"joinBatsmen", "done"}
        /\ engine' \notin {"joinBatsmen", "done"}
    BY <1>1 DEF Engine, StartOver, ResetFlags, AssignStriker,
        SpawnStriker, SpawnBowler, JoinBowler, SwapEnds, WakeAfterSwap,
        FinishInnings, WakeAtEnd
  <2> QED
    BY <2>1, <2>2
<1>2. CASE Bowler \/ Umpire
  <2>1. UNCHANGED <<joining, engine>>
    BY <1>2, Zenon DEF Bowler, Umpire,
        Deliver, BowlerDone, SleepForStroke, AckStroke, CountBall,
        DetectDeadlock, MarkRunOut, CountRunOut,
        PromoteSurvivor, SendNextBatsman, SpawnReplacement, UmpireToken,
        WakeSurvivor, EndMatch, WakeGateAtEnd, RaiseFlagsAtEnd, PollAgain,
        UmpireDone
  <2> QED
    BY <2>1
<1>3. ASSUME NEW t \in Threads, Batsman(t) PROVE UNCHANGED <<joining, engine>>
    BY <1>3, Zenon DEF Batsman, EnterCrease, AwaitStrike, SleepForDelivery,
        AbandonDelivery, PutBackDelivery, TakeDelivery, ScoreRuns, Dismiss,
        Promote, WakePromoted, SpawnNext, FirstToken, EndDismissal, PostResult,
        StageRunOut, Cross, SwapOnOddRuns, WakeEnds, SecondToken, Leave,
        LastToken, PostCrease
<1>4. CASE InningsReturned \/ UNCHANGED vars
    BY <1>4 DEF InningsReturned
<1> QED
    BY <1>1, <1>2, <1>3, <1>4 DEF Next

\* Nobody takes a delivery when the match is over.
LEMMA NoLateStroke ==
    ASSUME TypeOK, [Next]_vars, match_over, NEW u \in Threads, bat'[u] = "stroke"
    PROVE  bat[u] = "stroke"
<1>1. CASE Engine \/ Bowler \/ Umpire
    BY <1>1, ServiceKeeps
<1>2. ASSUME NEW t \in Threads, Batsman(t) PROVE bat[u] = "stroke"
  <2>1. ~TakeDelivery(t)
    BY Zenon DEF TakeDelivery, MustLeave
  <2> QED
    BY <1>2, <2>1, OthersMove, OwnMove
<1>3. CASE InningsReturned \/ UNCHANGED vars
    BY <1>3 DEF InningsReturned
<1> QED
    BY <1>1, <1>2, <1>3 DEF Next

\* What JoinBatsman has waited for.
LEMMA JoinedIsDone ==
    ASSUME SpawnedOnce, HandleInv, JoinBatsman,
           NEW t \in Threads, Player(t) = joining, bat[t] # "unborn"
    PROVE  bat[t] = "done"
<1>1. t = <<joining, 1>>
    BY DEF SpawnedOnce, Threads, Player
<1>2. thread_id[joining] = 1
  <2>1. engine = "joinBatsmen" /\ joining >= joining
    BY BatsmenAssumption DEF JoinBatsman, Batsmen
  <2> QED
    BY <2>1 DEF HandleInv
<1> QED
    BY <1>1, <1>2 DEF JoinBatsman

LEMMA HandleStep ==
    ASSUME IInv, EndInv, HandleInv, [Next]_vars
    PROVE  HandleInv'
<1> SUFFICES ASSUME SpawnedOnce'
             PROVE  /\ engine' # "done" =>
                         \A t \in Threads :
                             bat'[t] # "unborn"
                             /\ (engine' = "joinBatsmen" => Player(t) >= joining')
                                 => thread_id'[Player(t)] = 1
                    /\ engine' = "joinBatsmen" =>
                         \A t \in Threads : bat'[t] = "stroke" => Player(t) >= joining'
                    /\ engine' = "done" => \A t \in Threads : bat'[t] # "stroke"
    BY DEF HandleInv, Player
<1> USE DEF IInv
<1>1. SpawnedOnce
    BY OnceStaysOnce
<1>2. \A t \in Threads : Player(t) \in Batsmen /\ Player(t) \in Nat
                         /\ Player(t) >= 1 /\ Player(t) < NB + 1
    BY PlayerIsBatsman, BatsmenAssumption DEF Batsmen
<1>3. CASE JoinBatsman
  <2>1. /\ engine = "joinBatsmen" /\ engine' = "joinBatsmen" /\ bat' = bat
        /\ joining \in Batsmen /\ joining' = joining + 1
        /\ thread_id' = [thread_id EXCEPT ![joining] = 0]
    BY <1>3 DEF JoinBatsman
  <2>2. joining \in Nat
    BY <2>1, BatsmenAssumption DEF Batsmen
  <2>3. ASSUME NEW t \in Threads, bat'[t] # "unborn", Player(t) >= joining'
        PROVE  thread_id'[Player(t)] = 1
    <3>1. Player(t) # joining /\ Player(t) >= joining
      BY <1>2, <2>1, <2>2, <2>3
    <3>2. thread_id[Player(t)] = 1
      BY <1>1, <2>1, <2>3, <3>1 DEF HandleInv
    <3> QED
      BY <1>2, <2>1, <3>1, <3>2 DEF TypeOK, ThreadTypeOK
  <2>4. ASSUME NEW t \in Threads, bat'[t] = "stroke" PROVE Player(t) >= joining'
    <3>1. Player(t) >= joining
      BY <1>1, <2>1, <2>4 DEF HandleInv
    <3>2. Player(t) # joining
      BY <1>1, <1>3, <2>1, <2>4, JoinedIsDone
    <3> QED
      BY <1>2, <2>1, <2>2, <3>1, <3>2
  <2> QED
    BY <2>1, <2>3, <2>4
<1>4. CASE ~JoinBatsman
  <2>1. /\ \A c \in Batsmen : thread_id'[c] = thread_id[c] \/ thread_id'[c] = 1
        /\ \A u \in Threads : bat[u] = "unborn" /\ bat'[u] # "unborn"
                                  => thread_id'[Player(u)] = 1
    BY <1>4, ThreadsAreRecorded
  <2>2. CASE JoinUmpire
    <3>1. engine = "joinBatsmen" /\ engine' = "done" /\ joining = NB + 1 /\ bat' = bat
      BY <2>2 DEF JoinUmpire
    <3>2. \A t \in Threads : bat[t] # "stroke"
      BY <1>1, <1>2, <3>1, BatsmenAssumption DEF HandleInv
    <3> QED
      BY <3>1, <3>2
  <2>3. CASE RaiseFlags
    <3>1. engine = "raiseFlags" /\ engine' = "joinBatsmen" /\ joining' = 1
      BY <2>3 DEF RaiseFlags
    <3>2. \A t \in Threads : bat[t] # "unborn" => thread_id[Player(t)] = 1
      BY <1>1, <3>1 DEF HandleInv
    <3> QED
      BY <1>2, <2>1, <3>1, <3>2
  <2>4. CASE ~JoinUmpire /\ ~RaiseFlags
    <3>1. /\ UNCHANGED joining
          /\ engine' = "joinBatsmen" <=> engine = "joinBatsmen"
          /\ engine' = "done" <=> engine = "done"
      BY <1>4, <2>4, JoiningGoesOn
    <3>2. engine \in {"joinBatsmen", "done"} => match_over
      BY DEF EndInv, Closing
    <3>3. match_over => \A t \in Threads : bat'[t] = "stroke" => bat[t] = "stroke"
      BY NoLateStroke
    <3> QED
      BY <1>1, <1>2, <2>1, <3>1, <3>2, <3>3 DEF HandleInv
  <2> QED
    BY <2>2, <2>3, <2>4
<1> QED
    BY <1>3, <1>4

-----------------------------------------------------------------------------
\* What the match over, its first over and its handles come to.
PlayInv == IInv /\ EndInv /\ FirstOverInv /\ HandleInv

LEMMA InitiallyPlay == Init => PlayInv
<1> SUFFICES ASSUME Init PROVE EndInv /\ FirstOverInv /\ HandleInv
    BY InitiallyInv DEF PlayInv
<1> USE DEF Init
<1>1. \A t \in Threads :
          /\ bat[t] \in {"sem", "unborn"}
          /\ bat[t] # "unborn" => t[1] \in Openers
    OBVIOUS
<1>2. \A t \in Threads : bat[t] # "unborn" => thread_id[Player(t)] = 1
    BY <1>1, PlayerIsBatsman DEF Player
<1> QED
    BY <1>1, <1>2 DEF EndInv, FirstOverInv, HandleInv, Closing, OnTheBall

LEMMA PlayStep == PlayInv /\ [Next]_vars => PlayInv'
BY InvStep, EndStep, FirstOverStep, HandleStep DEF PlayInv

LEMMA PlayHolds == Spec => []PlayInv
BY InitiallyPlay, PlayStep, PTL DEF Spec

-----------------------------------------------------------------------------
(* The board implements InningsScore.                                      *)

Stage ==
    CASE engine \in {"over", "wakeSwap"} -> "between"
      [] engine \in {"wakeEnd", "raiseFlags", "joinBatsmen"} -> "closing"
      [] engine = "done" -> "closed"
      [] OTHER -> "over"

LEMMA SameBoard ==
    ASSUME UNCHANGED <<target, current_over, total_runs, wickets, Stage>>
    PROVE  UNCHANGED Board!board
BY DEF Board!board, Stage

\* Who is at work when the score moves.
LEMMA ScoreOnBoard ==
    ASSUME PlayInv, SpawnedOnce, [Next]_vars,
           CountRunOut \/ \E t \in Threads : ScoreRuns(t) \/ Dismiss(t)
    PROVE  Board!Score
<1> USE DEF PlayInv
<1>0. IInv /\ IInv' /\ BoardTypeOK /\ BoardTypeOK'
    BY InvStep DEF IInv, TypeOK
<1>1. current_over > 0 /\ engine # "done" /\ UNCHANGED <<current_over, engine>>
  <2>1. CASE CountRunOut
    <3>1. umpire = "wicket" /\ UNCHANGED <<current_over, engine>>
      BY <2>1 DEF CountRunOut
    <3>2. engine # "done"
      BY <3>1 DEF EndInv
    <3>3. current_over # 0
      BY <3>1 DEF FirstOverInv
    <3> QED
      BY <1>0, <3>1, <3>2, <3>3 DEF BoardTypeOK
  <2>2. ASSUME NEW t \in Threads, ScoreRuns(t) \/ Dismiss(t)
        PROVE  current_over > 0 /\ engine # "done" /\ UNCHANGED <<current_over, engine>>
    <3>1. bat[t] = "stroke" /\ UNCHANGED <<current_over, engine>>
      BY <2>2 DEF ScoreRuns, Dismiss
    <3>2. engine # "done"
      BY <3>1 DEF HandleInv
    <3>3. current_over # 0
      BY <3>1 DEF FirstOverInv, OnTheBall
    <3> QED
      BY <1>0, <3>1, <3>2, <3>3 DEF BoardTypeOK
  <2> QED
    BY <2>1, <2>2
<1>2. /\ total_runs' \in Nat /\ total_runs' >= total_runs
      /\ wickets' \in Nat /\ wickets' >= wickets /\ UNCHANGED target
    BY <1>0, ScoreGrows, ScoreMoves DEF BoardTypeOK
<1> QED
    BY <1>1, <1>2 DEF Board!Score

LEMMA EngineOnBoard ==
    ASSUME PlayInv, Engine
    PROVE  Board!Next \/ UNCHANGED Board!board
<1> USE DEF PlayInv
<1>0. BoardTypeOK
    BY DEF IInv, TypeOK
<1>1. UNCHANGED <<total_runs, target, wickets>>
    BY Zenon DEF Engine, StartOver, ResetFlags, AssignStriker, SpawnStriker,
        SpawnBowler, JoinBowler, SwapEnds, WakeAfterSwap, FinishInnings,
        WakeAtEnd, RaiseFlags, JoinBatsman, JoinUmpire
<1>2. CASE StartOver
  <2>1. /\ engine = "over" /\ engine' = "flags" /\ current_over < Overs
        /\ current_over' = current_over + 1 /\ ~InningsOver
    BY <1>2 DEF StartOver, OversLeft
  <2>2. Board!StartOver
    BY <1>1, <2>1
    DEF Board!StartOver, Board!Decided, InningsOver, AllOut, Chased
  <2> QED
    BY <2>2 DEF Board!Next
<1>3. CASE SwapEnds
  <2>1. engine = "swap" /\ engine' \in {"over", "wakeSwap"} /\ UNCHANGED current_over
    BY <1>3 DEF SwapEnds
  <2>2. Board!EndOver
    BY <1>1, <2>1 DEF Board!EndOver
  <2> QED
    BY <2>2 DEF Board!Next
<1>4. CASE FinishInnings
  <2>1. /\ engine = "over" /\ engine' = "wakeEnd"
        /\ current_over >= Overs \/ InningsOver
        /\ UNCHANGED current_over
    BY <1>0, <1>4, OversAssumption DEF FinishInnings, OversLeft, BoardTypeOK
  <2>2. InningsOver => AllOut \/ Chased
    BY <2>1 DEF InningsOver, EndInv, Closing
  <2>3. current_over = Overs \/ AllOut \/ Chased
    BY <1>0, <2>1, <2>2, OversAssumption DEF BoardTypeOK
  <2>4. Board!Close
    BY <1>1, <2>1, <2>3 DEF Board!Close, Board!Decided, AllOut, Chased
  <2> QED
    BY <2>4 DEF Board!Next
<1>5. CASE JoinUmpire
  <2>1. engine = "joinBatsmen" /\ engine' = "done" /\ UNCHANGED current_over
    BY <1>5 DEF JoinUmpire
  <2>2. Board!Report
    BY <1>1, <2>1 DEF Board!Report
  <2> QED
    BY <2>2 DEF Board!Next
<1>6. CASE \/ ResetFlags \/ AssignStriker \/ SpawnStriker \/ SpawnBowler
           \/ JoinBowler \/ WakeAfterSwap \/ WakeAtEnd \/ RaiseFlags \/ JoinBatsman
  <2>1. UNCHANGED current_over
    BY <1>6, Zenon DEF ResetFlags, AssignStriker, SpawnStriker, SpawnBowler,
        JoinBowler, WakeAfterSwap, WakeAtEnd, RaiseFlags, JoinBatsman
  <2>2. UNCHANGED Stage
    BY <1>6 DEF ResetFlags, AssignStriker, SpawnStriker, SpawnBowler,
        JoinBowler, WakeAfterSwap, WakeAtEnd, RaiseFlags, JoinBatsman, Stage
  <2> QED
    BY <1>1, <2>1, <2>2, SameBoard
<1> QED
    BY <1>2, <1>3, <1>4, <1>5, <1>6, Zenon DEF Engine

LEMMA BoardStep ==
    ASSUME PlayInv, SpawnedOnce, [Next]_vars
    PROVE  Board!Next \/ UNCHANGED Board!board
<1>1. CASE Engine
    BY <1>1, EngineOnBoard
<1>2. CASE CountRunOut \/ \E t \in Threads : ScoreRuns(t) \/ Dismiss(t)
    BY <1>2, ScoreOnBoard DEF Board!Next
<1>3. CASE ~Engine /\ ~CountRunOut /\ ~\E t \in Threads : ScoreRuns(t) \/ Dismiss(t)
  <2>1. UNCHANGED <<total_runs, wickets, target>>
    BY <1>3, ScoreMoves
  <2>2. UNCHANGED <<current_over, engine>>
    <3>1. CASE Bowler
      BY <3>1, Zenon DEF Bowler, Deliver, BowlerDone, SleepForStroke,
          AckStroke, CountBall
    <3>2. CASE Umpire
      BY <3>2, Zenon DEF Umpire, DetectDeadlock, MarkRunOut, CountRunOut,
          PromoteSurvivor, SendNextBatsman, SpawnReplacement, UmpireToken,
          WakeSurvivor, EndMatch, WakeGateAtEnd, RaiseFlagsAtEnd, PollAgain,
          UmpireDone
    <3>3. ASSUME NEW t \in Threads, Batsman(t) PROVE UNCHANGED <<current_over, engine>>
      BY <3>3, Zenon DEF Batsman, EnterCrease, AwaitStrike, SleepForDelivery,
          AbandonDelivery, PutBackDelivery, TakeDelivery, ScoreRuns, Dismiss,
          Promote, WakePromoted, SpawnNext, FirstToken, EndDismissal, PostResult,
          StageRunOut, Cross, SwapOnOddRuns, WakeEnds, SecondToken, Leave,
          LastToken, PostCrease
    <3>4. CASE InningsReturned \/ UNCHANGED vars
      BY <3>4 DEF InningsReturned
    <3> QED
      BY <1>3, <3>1, <3>2, <3>3, <3>4, Zenon DEF Next
  <2> QED
    BY <2>1, <2>2, SameBoard DEF Stage
<1> QED
    BY <1>1, <1>2, <1>3

\* Whatever the outcomes of the balls, dismissals and run-outs included: until
\* a batsman is given a second thread, every step of the innings is one that
\* InningsScore allows the board, or leaves the board alone.
THEOREM TheBoardIsKept == Spec => BoardIsKept
<1>1. PlayInv /\ [Next]_vars
          => [SpawnedOnce => Board!Next \/ UNCHANGED Board!board]_vars
    BY BoardStep
<1> QED
    BY <1>1, PlayHolds, PTL DEF Spec, BoardIsKept

\* So an innings in which that never happens goes through its overs, ends early
\* only when it is decided, and its score stands when run_innings has returned:
\* the detailed innings implements InningsScore.
THEOREM TheInningsIsPlayed ==
    Spec /\ []SpawnedOnce => PlaysTheInnings
<1>1. Init => Board!Init
    BY TargetAssumption DEF Init, Board!Init
<1>2. PlayInv /\ SpawnedOnce /\ [Next]_vars => [Board!Next]_(Board!board)
    BY BoardStep
<1> QED
    BY <1>1, <1>2, PlayHolds, PTL DEF Spec, PlaysTheInnings, Board!Spec

-----------------------------------------------------------------------------
(* The batting order without the deadlock simulation.                      *)

\* Where a thread holds score_mutex across steps, and where next_bat matters.
Dismissing == {"promote", "wakePromoted", "spawn", "firstToken", "unlock"}
Replacing  == {"promote", "wakePromoted", "spawn"}

Spawned(b) == \E t \in Threads : Player(t) = b /\ bat[t] # "unborn"

\* One thread at most deals with a wicket.
MutexInv ==
    /\ \A t \in Threads :
          /\ bat[t] \in Dismissing => score_locked
          /\ bat[t] \in Replacing => next_bat \in Batsmen
    /\ \A t, u \in Threads :
          bat[t] \in Dismissing /\ bat[u] \in Dismissing => t = u

\* The batsmen come in batting order.
InTurnInv ==
    /\ \A b \in Batsmen : is_out[b] \/ is_active[b] => Spawned(b)
    /\ next_bat \in Batsmen => \A b \in Batsmen : b < next_bat => Spawned(b)
    /\ \A b, c \in Batsmen : c < b /\ Spawned(b) => Spawned(c)

\* Both ends are taken, so that nobody but a dismissed batsman's thread has
\* anybody to spawn.
EndsInv ==
    /\ umpire \in {"poll", "wakeGate", "flags", "done"}
    /\ striker_id \in Batsmen /\ non_striker_id \in Batsmen
    /\ engine # "spawn"

OrderInv == MutexInv /\ InTurnInv /\ EndsInv

\* Joined batsmen stay away.
JoinedInv ==
    SpawnedOnce =>
        /\ engine = "joinBatsmen" =>
              \A t \in Threads : Player(t) < joining => bat[t] \in {"unborn", "done"}
        /\ engine = "done" => \A t \in Threads : bat[t] \in {"unborn", "done"}

LEMMA InitialOrder == Init => OrderInv /\ JoinedInv
<1> SUFFICES ASSUME Init PROVE OrderInv /\ JoinedInv
    OBVIOUS
<1> USE DEF Init
<1>1. \A t \in Threads : bat[t] \in {"sem", "unborn"}
    OBVIOUS
<1>2. MutexInv
    BY <1>1 DEF MutexInv, Dismissing, Replacing
<1>3. \A b \in Openers : Spawned(b)
  <2> SUFFICES ASSUME NEW b \in Openers PROVE Spawned(b)
    OBVIOUS
  <2>1. <<b, 1>> \in Threads
    BY BatsmenAssumption, BoundsAssumption DEF Threads, Batsmen, Openers
  <2>2. bat[<<b, 1>>] = "sem"
    BY <2>1
  <2> QED
    BY <2>1, <2>2 DEF Spawned, Player
<1>4. ASSUME NEW b \in Batsmen, Spawned(b) PROVE b \in Openers
    BY <1>4 DEF Spawned, Player
<1>5. next_bat \notin Batsmen
    BY BatsmenAssumption DEF Batsmen, NoPlayer
<1>6. \A b, c \in Batsmen : c < b /\ Spawned(b) => Spawned(c)
    BY <1>3, <1>4, BatsmenAssumption DEF Openers, Batsmen
<1>7. InTurnInv
    BY <1>3, <1>5, <1>6 DEF InTurnInv
<1>8. EndsInv
    BY BatsmenAssumption DEF EndsInv, Batsmen
<1> QED
    BY <1>2, <1>7, <1>8 DEF OrderInv, JoinedInv

\* Nobody but a dismissed batsman's thread starts another thread.
LEMMA WhoSpawns ==
    ASSUME TypeOK, EndsInv, [Next]_vars, NEW u \in Threads,
           bat[u] = "unborn", bat'[u] # "unborn"
    PROVE  \E t \in Threads : SpawnNext(t) /\ Player(u) = next_bat
<1>1. CASE Engine \/ Bowler \/ Umpire
  <2>1. ~SpawnStriker /\ ~SpawnReplacement
    BY DEF EndsInv, SpawnStriker, SpawnReplacement
  <2>2. UNCHANGED bat \/ bat' = WakeGate(bat) \/ bat' = WakeDelivery(bat)
    BY <1>1, <2>1, Zenon DEF Engine, Bowler, Umpire, StartOver, ResetFlags,
        AssignStriker, SpawnBowler, JoinBowler, SwapEnds,
        WakeAfterSwap, FinishInnings, WakeAtEnd, RaiseFlags, JoinBatsman,
        JoinUmpire, Deliver, BowlerDone, SleepForStroke, AckStroke, CountBall,
        DetectDeadlock, MarkRunOut, CountRunOut,
        PromoteSurvivor, SendNextBatsman, UmpireToken,
        WakeSurvivor, EndMatch, WakeGateAtEnd, RaiseFlagsAtEnd, PollAgain,
        UmpireDone
  <2> QED
    BY <2>2 DEF WakeGate, WakeDelivery, Wake
<1>2. ASSUME NEW t \in Threads, Batsman(t) PROVE SpawnNext(t) /\ Player(u) = next_bat
  <2>1. SpawnNext(t)
    BY <1>2, OthersMove, OwnMove
  <2>2. bat[t] = "spawn"
    BY <2>1 DEF SpawnNext
  <2>3. PICK k \in 1 .. MaxSpawns :
          bat' = [bat EXCEPT ![<<next_bat, k>>] = "sem", ![t] = "firstToken"]
    BY <2>1, Zenon DEF SpawnNext
  <2>4. u = <<next_bat, k>>
    BY <2>2, <2>3 DEF TypeOK, ThreadTypeOK
  <2> QED
    BY <2>1, <2>4 DEF Player
<1>3. CASE InningsReturned \/ UNCHANGED vars
    BY <1>3 DEF InningsReturned
<1> QED
    BY <1>1, <1>2, <1>3 DEF Next

LEMMA StillSpawned ==
    ASSUME TypeOK, [Next]_vars, NEW b, Spawned(b) PROVE Spawned(b)'
BY SpawnedForGood DEF Spawned, Player

\* What the steps do to a wicket that is being dealt with.
LEMMA WicketMoves ==
    ASSUME TypeOK, [Next]_vars
    PROVE  \/ UNCHANGED <<score_locked, next_bat>>
           \/ \E t \in Threads : Batsman(t) /\ (Dismiss(t) \/ EndDismissal(t))
<1>1. CASE Engine \/ Bowler \/ Umpire
    BY <1>1, Zenon DEF Engine, Bowler, Umpire, StartOver, ResetFlags,
        AssignStriker, SpawnStriker, SpawnBowler, JoinBowler, SwapEnds,
        WakeAfterSwap, FinishInnings, WakeAtEnd, RaiseFlags, JoinBatsman,
        JoinUmpire, Deliver, BowlerDone, SleepForStroke, AckStroke, CountBall,
        DetectDeadlock, MarkRunOut, CountRunOut,
        PromoteSurvivor, SendNextBatsman, SpawnReplacement, UmpireToken,
        WakeSurvivor, EndMatch, WakeGateAtEnd, RaiseFlagsAtEnd, PollAgain,
        UmpireDone
<1>2. ASSUME NEW t \in Threads, Batsman(t)
      PROVE  \/ UNCHANGED <<score_locked, next_bat>>
             \/ Batsman(t) /\ (Dismiss(t) \/ EndDismissal(t))
    BY <1>2, Zenon DEF Batsman, EnterCrease, AwaitStrike, SleepForDelivery,
        AbandonDelivery, PutBackDelivery, TakeDelivery, ScoreRuns, Dismiss,
        Promote, WakePromoted, SpawnNext, FirstToken, EndDismissal, PostResult,
        StageRunOut, Cross, SwapOnOddRuns, WakeEnds, SecondToken, Leave,
        LastToken, PostCrease
<1>3. CASE InningsReturned \/ UNCHANGED vars
    BY <1>3 DEF InningsReturned
<1> QED
    BY <1>1, <1>2, <1>3 DEF Next

\* A thread comes to deal with a wicket by a dismissal, and ends doing so when
\* it unlocks score_mutex.
LEMMA WicketPlaces ==
    ASSUME TypeOK, NEW t \in Threads, Batsman(t)
    PROVE  /\ bat'[t] \in Dismissing => bat[t] \in Dismissing \/ Dismiss(t)
           /\ bat'[t] \in Replacing => bat[t] \in Replacing \/ Dismiss(t)
<1> USE DEF TypeOK, ThreadTypeOK, Dismissing, Replacing, MoveTo
<1>1. CASE \/ EnterCrease(t) \/ AwaitStrike(t) \/ SleepForDelivery(t)
           \/ AbandonDelivery(t) \/ PutBackDelivery(t) \/ TakeDelivery(t)
    BY <1>1 DEF EnterCrease, AwaitStrike, SleepForDelivery,
       AbandonDelivery, PutBackDelivery, TakeDelivery, WakeDelivery, Wake
<1>2. CASE ScoreRuns(t) \/ Promote(t) \/ WakePromoted(t)
  <2>1. \/ bat' = [bat EXCEPT ![t] = "result"]
        \/ bat[t] \in Replacing
    BY <1>2 DEF ScoreRuns, Promote, WakePromoted
  <2> QED
    BY <2>1
<1>3. CASE SpawnNext(t)
    BY <1>3 DEF SpawnNext
<1>4. CASE \/ FirstToken(t) \/ EndDismissal(t) \/ PostResult(t)
           \/ StageRunOut(t) \/ Cross(t) \/ SwapOnOddRuns(t) \/ WakeEnds(t)
    BY <1>4 DEF FirstToken, EndDismissal, PostResult, StageRunOut, Cross,
       SwapOnOddRuns, WakeEnds, WakeGate, Wake
<1>5. CASE SecondToken(t) \/ Leave(t) \/ LastToken(t) \/ PostCrease(t)
    BY <1>5 DEF SecondToken, Leave, LastToken, PostCrease
<1>6. CASE Dismiss(t)
    BY <1>6
<1> QED
    BY <1>1, <1>2, <1>3, <1>4, <1>5, <1>6 DEF Batsman

LEMMA MutexStep ==
    ASSUME TypeOK, MutexInv, [Next]_vars
    PROVE  MutexInv'
<1> USE DEF TypeOK, ThreadTypeOK
<1>1. CASE Engine \/ Bowler \/ Umpire
  <2>1. UNCHANGED <<score_locked, next_bat>>
    BY <1>1, Zenon DEF Engine, Bowler, Umpire, StartOver, ResetFlags,
        AssignStriker, SpawnStriker, SpawnBowler, JoinBowler, SwapEnds,
        WakeAfterSwap, FinishInnings, WakeAtEnd, RaiseFlags, JoinBatsman,
        JoinUmpire, Deliver, BowlerDone, SleepForStroke, AckStroke, CountBall,
        DetectDeadlock, MarkRunOut, CountRunOut,
        PromoteSurvivor, SendNextBatsman, SpawnReplacement, UmpireToken,
        WakeSurvivor, EndMatch, WakeGateAtEnd, RaiseFlagsAtEnd, PollAgain,
        UmpireDone
  <2>2. \A u \in Threads : /\ bat'[u] \in Dismissing => bat[u] \in Dismissing
                           /\ bat'[u] \in Replacing => bat[u] \in Replacing
    BY <1>1, ServiceKeeps DEF Dismissing, Replacing
  <2> QED
    BY <2>1, <2>2 DEF MutexInv
<1>2. ASSUME NEW t \in Threads, Batsman(t) PROVE MutexInv'
  <2>1. \A u \in Threads \ {t} :
            /\ bat'[u] \in Dismissing => bat[u] \in Dismissing
            /\ bat'[u] \in Replacing => bat[u] \in Replacing
    BY <1>2, OthersMove DEF Dismissing, Replacing
  <2>2. CASE Dismiss(t)
    <3>1. ~score_locked /\ score_locked'
      BY <2>2 DEF Dismiss
    <3>2. next_bat' = NoPlayer => bat'[t] = "firstToken"
      BY <2>2 DEF Dismiss, MoveTo
    <3>3. next_bat' \in Batsmen \cup {NoPlayer}
      BY <2>2, Zenon DEF Dismiss
    <3>4. \A u \in Threads \ {t} : bat'[u] \notin Dismissing
      BY <2>1, <3>1 DEF MutexInv
    <3>5. \A u \in Threads : bat'[u] \in Replacing => bat'[u] \in Dismissing
      BY DEF Replacing, Dismissing
    <3>6. bat'[t] \in Replacing => next_bat' \in Batsmen
      BY <3>2, <3>3 DEF Replacing
    <3> QED
      BY <3>1, <3>4, <3>5, <3>6 DEF MutexInv
  <2>3. CASE EndDismissal(t)
    <3>1. bat[t] = "unlock" /\ bat'[t] = "result"
      BY <2>3 DEF EndDismissal, MoveTo
    <3>2. \A u \in Threads : bat'[u] \notin Dismissing
      BY <2>1, <3>1 DEF MutexInv, Dismissing
    <3> QED
      BY <3>2 DEF MutexInv, Dismissing, Replacing
  <2>4. CASE ~Dismiss(t) /\ ~EndDismissal(t)
    <3>1. UNCHANGED <<score_locked, next_bat>>
      BY <1>2, <2>4, Zenon DEF Batsman, EnterCrease, AwaitStrike, SleepForDelivery,
          AbandonDelivery, PutBackDelivery, TakeDelivery, ScoreRuns,
          Promote, WakePromoted, SpawnNext, FirstToken, PostResult,
          StageRunOut, Cross, SwapOnOddRuns, WakeEnds, SecondToken, Leave,
          LastToken, PostCrease
    <3>2. /\ bat'[t] \in Dismissing => bat[t] \in Dismissing
          /\ bat'[t] \in Replacing => bat[t] \in Replacing
      BY <1>2, <2>4, WicketPlaces
    <3> QED
      BY <2>1, <3>1, <3>2 DEF MutexInv
  <2> QED
    BY <2>2, <2>3, <2>4
<1>3. CASE InningsReturned \/ UNCHANGED vars
    BY <1>3 DEF InningsReturned, MutexInv
<1> QED
    BY <1>1, <1>2, <1>3 DEF Next

LEMMA EndsStep ==
    ASSUME ~EnableDeadlockSim, TypeOK, MutexInv, EndsInv, [Next]_vars
    PROVE  EndsInv'
<1> USE DEF EndsInv
<1>1. striker_id # NoPlayer
    BY BatsmenAssumption DEF Batsmen, NoPlayer
<1>2. CASE Engine
  <2>1. UNCHANGED umpire
    BY <1>2, Zenon DEF Engine, StartOver, ResetFlags, AssignStriker,
        SpawnStriker, SpawnBowler, JoinBowler, SwapEnds, WakeAfterSwap,
        FinishInnings, WakeAtEnd, RaiseFlags, JoinBatsman, JoinUmpire
  <2>2. CASE AssignStriker
    BY <1>1, <2>1, <2>2 DEF AssignStriker
  <2>3. CASE SwapEnds
    BY <2>1, <2>3 DEF SwapEnds
  <2>4. CASE Engine /\ ~AssignStriker /\ ~SwapEnds
    <3>1. UNCHANGED <<striker_id, non_striker_id>>
      BY <2>4, Zenon DEF Engine, StartOver, ResetFlags,
          SpawnStriker, SpawnBowler, JoinBowler, WakeAfterSwap,
          FinishInnings, WakeAtEnd, RaiseFlags, JoinBatsman, JoinUmpire
    <3>2. engine' # "spawn"
      BY <2>4 DEF Engine, StartOver, ResetFlags,
          SpawnStriker, SpawnBowler, JoinBowler, WakeAfterSwap,
          FinishInnings, WakeAtEnd, RaiseFlags, JoinBatsman, JoinUmpire
    <3> QED
      BY <2>1, <3>1, <3>2
  <2> QED
    BY <1>2, <2>2, <2>3, <2>4
<1>3. CASE Bowler
  <2>1. UNCHANGED <<umpire, engine, striker_id, non_striker_id>>
    BY <1>3, Zenon DEF Bowler, Deliver, BowlerDone, SleepForStroke,
        AckStroke, CountBall
  <2> QED
    BY <2>1
<1>4. CASE Umpire
  <2>1. /\ ~DetectDeadlock /\ ~MarkRunOut /\ ~CountRunOut /\ ~PromoteSurvivor
        /\ ~SendNextBatsman /\ ~SpawnReplacement /\ ~UmpireToken /\ ~WakeSurvivor
    BY DEF DetectDeadlock, MarkRunOut, CountRunOut, PromoteSurvivor,
       SendNextBatsman, SpawnReplacement, UmpireToken, WakeSurvivor
  <2>2. UNCHANGED <<engine, striker_id, non_striker_id>>
    BY <1>4, <2>1, Zenon DEF Umpire, EndMatch, WakeGateAtEnd, RaiseFlagsAtEnd,
        PollAgain, UmpireDone
  <2>3. umpire' \in {"poll", "wakeGate", "flags", "done"}
    BY <1>4, <2>1 DEF Umpire, EndMatch, WakeGateAtEnd, RaiseFlagsAtEnd,
        PollAgain, UmpireDone
  <2> QED
    BY <2>2, <2>3
<1>5. ASSUME NEW t \in Threads, Batsman(t) PROVE EndsInv'
  <2>1. UNCHANGED <<umpire, engine>>
    BY <1>5, Zenon DEF Batsman, EnterCrease, AwaitStrike, SleepForDelivery,
        AbandonDelivery, PutBackDelivery, TakeDelivery, ScoreRuns, Dismiss,
        Promote, WakePromoted, SpawnNext, FirstToken, EndDismissal, PostResult,
        StageRunOut, Cross, SwapOnOddRuns, WakeEnds, SecondToken, Leave,
        LastToken, PostCrease
  <2>2. CASE Promote(t)
    <3>1. bat[t] = "promote" /\ striker_id' = next_bat
      BY <2>2 DEF Promote
    <3>2. next_bat \in Batsmen
      BY <3>1 DEF MutexInv, Replacing
    <3>3. AtCrease \subseteq Batsmen
      BY DEF AtCrease
    <3>4. non_striker_id' \in Batsmen
      BY <2>2, <3>3 DEF Promote, IsFirst
    <3> QED
      BY <2>1, <3>1, <3>2, <3>4
  <2>3. CASE SwapOnOddRuns(t)
    BY <2>1, <2>3 DEF SwapOnOddRuns
  <2>4. CASE ~Promote(t) /\ ~SwapOnOddRuns(t)
    <3>1. UNCHANGED <<striker_id, non_striker_id>>
      BY <1>5, <2>4, Zenon DEF Batsman, EnterCrease, AwaitStrike, SleepForDelivery,
          AbandonDelivery, PutBackDelivery, TakeDelivery, ScoreRuns, Dismiss,
          WakePromoted, SpawnNext, FirstToken, EndDismissal, PostResult,
          StageRunOut, Cross, WakeEnds, SecondToken, Leave,
          LastToken, PostCrease
    <3> QED
      BY <2>1, <3>1
  <2> QED
    BY <2>2, <2>3, <2>4
<1>6. CASE InningsReturned \/ UNCHANGED vars
    BY <1>6 DEF InningsReturned
<1> QED
    BY <1>2, <1>3, <1>4, <1>5, <1>6 DEF Next

\* Nobody is out or at the crease who has never been there.
LEMMA WhoIsIn ==
    ASSUME TypeOK, EndsInv, [Next]_vars, NEW b \in Batsmen,
           is_out'[b] \/ is_active'[b]
    PROVE  is_out[b] \/ is_active[b] \/ Spawned(b)
<1> USE DEF TypeOK, OrderTypeOK, ThreadTypeOK
<1>1. CASE UNCHANGED <<is_out, is_active>>
    BY <1>1
<1>2. CASE Engine \/ Bowler \/ Umpire
  <2>1. ~MarkRunOut
    BY DEF MarkRunOut, EndsInv
  <2>2. UNCHANGED <<is_out, is_active>>
    BY <1>2, <2>1, Zenon DEF Engine, Bowler, Umpire, StartOver, ResetFlags,
        AssignStriker, SpawnStriker, SpawnBowler, JoinBowler, SwapEnds,
        WakeAfterSwap, FinishInnings, WakeAtEnd, RaiseFlags, JoinBatsman,
        JoinUmpire, Deliver, BowlerDone, SleepForStroke, AckStroke, CountBall,
        DetectDeadlock, CountRunOut,
        PromoteSurvivor, SendNextBatsman, SpawnReplacement, UmpireToken,
        WakeSurvivor, EndMatch, WakeGateAtEnd, RaiseFlagsAtEnd, PollAgain,
        UmpireDone
  <2> QED
    BY <1>1, <2>2
<1>3. ASSUME NEW t \in Threads, Batsman(t)
      PROVE  is_out[b] \/ is_active[b] \/ Spawned(b)
  <2>1. Player(t) = b => Spawned(b)
    BY <1>3, OwnMove DEF Spawned
  <2>2. CASE Dismiss(t)
    <3>1. is_out' = [is_out EXCEPT ![Player(t)] = TRUE] /\ UNCHANGED is_active
      BY <2>2 DEF Dismiss
    <3>2. b # Player(t) => is_out'[b] = is_out[b]
      BY <3>1
    <3> QED
      BY <2>1, <3>1, <3>2
  <2>3. CASE EnterCrease(t)
    <3>1. is_active' = [is_active EXCEPT ![Player(t)] = TRUE] /\ UNCHANGED is_out
      BY <2>3 DEF EnterCrease
    <3>2. b # Player(t) => is_active'[b] = is_active[b]
      BY <3>1
    <3> QED
      BY <2>1, <3>1, <3>2
  <2>4. CASE Leave(t)
    <3>1. is_active' = [is_active EXCEPT ![Player(t)] = FALSE] /\ UNCHANGED is_out
      BY <2>4 DEF Leave
    <3>2. b # Player(t) => is_active'[b] = is_active[b]
      BY <3>1
    <3> QED
      BY <2>1, <3>1, <3>2
  <2>5. CASE ~Dismiss(t) /\ ~EnterCrease(t) /\ ~Leave(t)
    BY <1>1, <1>3, <2>5, Zenon DEF Batsman, AwaitStrike, SleepForDelivery,
        AbandonDelivery, PutBackDelivery, TakeDelivery, ScoreRuns,
        Promote, WakePromoted, SpawnNext, FirstToken, EndDismissal, PostResult,
        StageRunOut, Cross, SwapOnOddRuns, WakeEnds, SecondToken,
        LastToken, PostCrease
  <2> QED
    BY <2>2, <2>3, <2>4, <2>5
<1>4. CASE InningsReturned \/ UNCHANGED vars
    BY <1>1, <1>4 DEF InningsReturned
<1> QED
    BY <1>2, <1>3, <1>4 DEF Next

LEMMA InTurnStep ==
    ASSUME TypeOK, EndsInv, InTurnInv, [Next]_vars
    PROVE  InTurnInv'
<1>1. \A b \in Batsmen : Spawned(b) => Spawned(b)'
    BY StillSpawned
<1>2. \A b \in Batsmen : is_out'[b] \/ is_active'[b] => Spawned(b)'
    BY <1>1, WhoIsIn DEF InTurnInv
<1>3. ASSUME next_bat' \in Batsmen, NEW b \in Batsmen, b < next_bat'
      PROVE  Spawned(b)
  <2>1. CASE UNCHANGED next_bat
    BY <1>3, <2>1 DEF InTurnInv
  <2>2. ASSUME NEW t \in Threads, Batsman(t), Dismiss(t) PROVE Spawned(b)
    <3>1. IsFirst(next_bat', Waiting \ {Player(t)})
      BY <2>2, Zenon DEF Dismiss
    <3>2. next_bat' # NoPlayer
      BY <1>3, BatsmenAssumption DEF Batsmen, NoPlayer
    <3>3. \A c \in Waiting \ {Player(t)} : next_bat' <= c
      BY <3>1, <3>2 DEF IsFirst
    <3>4. b \notin Waiting \ {Player(t)}
      BY <1>3, <3>3, BatsmenAssumption DEF Batsmen
    <3>5. CASE b = Player(t)
      BY <2>2, <3>5, OwnMove DEF Spawned
    <3>6. CASE b # Player(t)
      BY <3>4, <3>6 DEF Waiting, InTurnInv
    <3> QED
      BY <3>5, <3>6
  <2>3. ASSUME NEW t \in Threads, EndDismissal(t) PROVE FALSE
    BY <1>3, <2>3, BatsmenAssumption DEF EndDismissal, Batsmen, NoPlayer
  <2> QED
    BY <2>1, <2>2, <2>3, WicketMoves
<1>4. ASSUME NEW b \in Batsmen, NEW c \in Batsmen, c < b, Spawned(b)'
      PROVE  Spawned(c)
  <2>1. CASE Spawned(b)
    BY <1>4, <2>1 DEF InTurnInv
  <2>2. CASE ~Spawned(b)
    <3>1. PICK u \in Threads : Player(u) = b /\ bat'[u] # "unborn"
      BY <1>4 DEF Spawned, Player
    <3>2. bat[u] = "unborn"
      BY <2>2, <3>1 DEF Spawned
    <3>3. b = next_bat
      BY <3>1, <3>2, WhoSpawns
    <3> QED
      BY <1>4, <3>3 DEF InTurnInv
  <2> QED
    BY <2>1, <2>2
<1> QED
    BY <1>1, <1>2, <1>3, <1>4 DEF InTurnInv

\* A joined batsman is not spawned again, for he would be spawned twice.
LEMMA JoinedStep ==
    ASSUME PlayInv, OrderInv, JoinedInv, [Next]_vars
    PROVE  JoinedInv'
<1> SUFFICES ASSUME SpawnedOnce'
             PROVE  /\ engine' = "joinBatsmen" =>
                         \A t \in Threads : Player(t) < joining'
                                                => bat'[t] \in {"unborn", "done"}
                    /\ engine' = "done" =>
                         \A t \in Threads : bat'[t] \in {"unborn", "done"}
    BY DEF JoinedInv, Player
<1> USE DEF PlayInv, IInv
<1>1. SpawnedOnce
    BY OnceStaysOnce
<1>2. \A t \in Threads : Player(t) \in Batsmen /\ Player(t) \in Nat
                         /\ Player(t) >= 1 /\ Player(t) < NB + 1
    BY PlayerIsBatsman, BatsmenAssumption DEF Batsmen
<1>3. CASE JoinBatsman
  <2>1. /\ engine = "joinBatsmen" /\ engine' = "joinBatsmen" /\ bat' = bat
        /\ joining \in Batsmen /\ joining' = joining + 1
    BY <1>3 DEF JoinBatsman
  <2>2. joining \in Nat
    BY <2>1, BatsmenAssumption DEF Batsmen
  <2>3. ASSUME NEW t \in Threads, Player(t) < joining'
        PROVE  bat'[t] \in {"unborn", "done"}
    <3>1. Player(t) < joining \/ Player(t) = joining
      BY <1>2, <2>1, <2>2, <2>3
    <3>2. CASE Player(t) < joining
      BY <1>1, <2>1, <3>2 DEF JoinedInv
    <3>3. CASE Player(t) = joining
      BY <1>1, <1>3, <2>1, <3>3, JoinedIsDone
    <3> QED
      BY <3>1, <3>2, <3>3
  <2> QED
    BY <2>1, <2>3
<1>4. CASE JoinUmpire
  <2>1. engine = "joinBatsmen" /\ engine' = "done" /\ joining = NB + 1 /\ bat' = bat
    BY <1>4 DEF JoinUmpire
  <2> QED
    BY <1>1, <1>2, <2>1 DEF JoinedInv
<1>5. CASE RaiseFlags
  <2>1. engine' = "joinBatsmen" /\ joining' = 1
    BY <1>5 DEF RaiseFlags
  <2> QED
    BY <1>2, <2>1
<1>6. CASE ~JoinBatsman /\ ~JoinUmpire /\ ~RaiseFlags
  <2>1. /\ UNCHANGED joining
        /\ engine' = "joinBatsmen" <=> engine = "joinBatsmen"
        /\ engine' = "done" <=> engine = "done"
    BY <1>6, JoiningGoesOn
  <2>2. ASSUME NEW u \in Threads, bat[u] \in {"unborn", "done"},
               engine = "done" \/ (engine = "joinBatsmen" /\ Player(u) < joining)
        PROVE  bat'[u] \in {"unborn", "done"}
    <3>1. CASE bat[u] = "done"
      <4>1. CASE Engine \/ Bowler \/ Umpire
        BY <3>1, <4>1, ServiceKeeps
      <4>2. ASSUME NEW t \in Threads, Batsman(t) PROVE bat'[u] = "done"
        BY <3>1, <4>2, OthersMove, OwnMove
      <4>3. CASE InningsReturned \/ UNCHANGED vars
        BY <3>1, <4>3 DEF InningsReturned
      <4> QED
        BY <4>1, <4>2, <4>3 DEF Next
    <3>2. CASE bat[u] = "unborn" /\ bat'[u] # "unborn"
      <4>1. PICK t \in Threads : SpawnNext(t) /\ Player(u) = next_bat
        BY <3>2, WhoSpawns DEF OrderInv
      <4>2. bat[t] = "spawn"
        BY <4>1 DEF SpawnNext
      <4>3. engine = "joinBatsmen" /\ Player(u) < joining /\ ~(Player(t) < joining)
        BY <1>1, <2>2, <4>2 DEF JoinedInv
      <4>4. joining \in Nat
        BY BatsmenAssumption DEF TypeOK, ThreadTypeOK
      <4>5. Player(u) < Player(t)
        BY <1>2, <4>3, <4>4
      <4>6. Spawned(Player(t))
        BY <4>2 DEF Spawned
      <4>7. Spawned(Player(u))
        BY <1>2, <4>5, <4>6 DEF OrderInv, InTurnInv
      <4>8. PICK v \in Threads : Player(v) = Player(u) /\ bat[v] # "unborn"
        BY <4>7 DEF Spawned
      <4>9. bat'[v] # "unborn"
        BY <4>8, SpawnedForGood
      <4>10. v[2] = 1 /\ u[2] = 1
        BY <3>2, <4>9 DEF SpawnedOnce
      <4>11. v = u
        BY <4>8, <4>10 DEF Threads, Player
      <4> QED
        BY <3>2, <4>8, <4>11
    <3> QED
      BY <2>2, <3>1, <3>2
  <2> QED
    BY <1>1, <2>1, <2>2 DEF JoinedInv
<1> QED
    BY <1>3, <1>4, <1>5, <1>6

-----------------------------------------------------------------------------
\* Without the deadlock simulation, whatever the outcomes of the balls: as long
\* as no batsman is given a second thread, every thread of the innings has
\* ended when run_innings returns, those of the batsmen who came in after
\* wickets included.
THEOREM NobodyIsLeftBehind ==
    ASSUME ~EnableDeadlockSim
    PROVE  Spec => []LeakNeedsSecondThread
<1>1. OrderInv /\ PlayInv /\ [Next]_vars => OrderInv'
    BY MutexStep, InTurnStep, EndsStep DEF OrderInv, PlayInv, IInv
<1>2. OrderInv /\ PlayInv /\ JoinedInv /\ [Next]_vars => JoinedInv'
    BY JoinedStep
<1>3. JoinedInv => LeakNeedsSecondThread
    BY DEF JoinedInv, NoThreadLeaks, LeakNeedsSecondThread
<1> QED
    BY <1>1, <1>2, <1>3, InitialOrder, PlayHolds, PTL DEF Spec
=============================================================================
