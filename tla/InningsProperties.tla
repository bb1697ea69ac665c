------------------------- MODULE InningsProperties -------------------------
(***************************************************************************)
(* What the threads of an innings promise one another, as state predicates *)
(* and temporal formulas over Innings.                                     *)
(***************************************************************************)
EXTENDS Innings

\* Threads that play a ball whose result has not been posted.
Playing == {t \in Threads : bat[t] \in {"stroke", "promote", "wakePromoted",
                "spawn", "firstToken", "unlock", "result"}}

\* Threads that hold a slot of the crease.
InsideCrease == {t \in Threads : bat[t] \notin {"unborn", "sem", "done"}}

FlagTypeOK ==
    /\ match_over \in BOOLEAN /\ score_locked \in BOOLEAN
    /\ delivery_ready \in BOOLEAN /\ stroke_done \in BOOLEAN
    /\ deadlock_forced \in BOOLEAN

BoardTypeOK ==
    /\ target \in Targets
    /\ wickets \in Nat /\ total_runs \in Nat /\ extras \in 0 .. MaxExtras
    /\ current_over \in 0 .. Overs /\ current_ball \in Nat
    /\ legal_balls \in Nat /\ runs_conceded \in Nat /\ wickets_taken \in Nat
    /\ runs_scored \in [Batsmen -> Nat]
    /\ last_outcome \in Outcomes \cup {"DOT"}
    /\ stroke \in [Threads -> Outcomes \cup {"none"}]

OrderTypeOK ==
    /\ striker_id \in Batsmen \cup {NoPlayer}
    /\ non_striker_id \in Batsmen \cup {NoPlayer}
    /\ next_bat \in Batsmen \cup {NoPlayer}
    /\ is_out \in [Batsmen -> BOOLEAN]
    /\ is_active \in [Batsmen -> BOOLEAN]
    /\ holds_end \in [Batsmen -> {-1, 0, 1}]
    /\ runout \in [victim : Batsmen \cup {NoPlayer},
                   survivor : Batsmen \cup {NoPlayer},
                   next : Batsmen \cup {NoPlayer}]

ThreadTypeOK ==
    /\ thread_id \in [Batsmen -> 0 .. MaxSpawns]
    /\ pitch_buffer \in 0 .. Overs
    /\ crease_semaphore \in 0 .. 2
    /\ bat \in [Threads -> {"unborn", "sem", "gate", "gateAsleep", "await",
                            "awaitAsleep", "stroke", "promote",
                            "wakePromoted", "spawn", "firstToken", "unlock",
                            "result", "stage", "cross", "swapEnds", "wakeEnds",
                            "secondToken", "leave", "lastToken", "post",
                            "done"}]
    /\ bowler \in {"idle", "bowl", "wait", "asleep", "count", "done"}
    /\ umpire \in {"poll", "victim", "wicket", "ends", "next", "spawn",
                   "token", "broadcast", "check", "wakeGate", "flags", "done"}
    /\ engine \in {"over", "flags", "striker", "spawn", "bowler", "join",
                   "swap", "wakeSwap", "wakeEnd", "raiseFlags",
                   "joinBatsmen", "done"}
    /\ joining \in 0 .. NB + 1

TypeOK == FlagTypeOK /\ BoardTypeOK /\ OrderTypeOK /\ ThreadTypeOK

-----------------------------------------------------------------------------
(* The protocol of one ball.  These hold until the first wicket; the runs   *)
(* with dismissals show which of them a dismissal breaks.                   *)

\* Nobody has been out yet.
BeforeFirstWicket == \A b \in Batsmen : ~is_out[b]

\* When the bowler starts a ball, the batsmen have counted the same balls as
\* he has, and neither a delivery nor a token is left over.
BallInLockstep ==
    bowler = "bowl" /\ ~match_over =>
        /\ legal_balls = current_ball
        /\ ~delivery_ready /\ ~stroke_done

\* Between two balls the bowlers have been charged with exactly the runs on
\* the board, although they learn of them through g_last_runs only.
RunsAreCharged ==
    bowler \in {"bowl", "idle"} /\ ~match_over => runs_conceded = total_runs

\* The ball is played by the striker of the moment, and by nobody else: the
\* race guard catches a non-striker who woke too early.
StrikerPlays ==
    \A t \in Threads : bat[t] = "stroke" => OnStrike(t)

\* One thread plays the ball, and the bowler does not go on before it has
\* posted the result.
PitchFreeMeansPlayed ==
    /\ \A t, u \in Playing : t = u
    /\ Playing # {} /\ ~match_over =>
           bowler \in {"wait", "asleep"} /\ ~delivery_ready

\* The whole over is bowled before the bowler is joined.
OverIsComplete ==
    bowler = "done" /\ ~match_over => current_ball = BallsPerOver

-----------------------------------------------------------------------------
(* Condition variables and the semaphore.                                  *)

\* Someone is about to broadcast striker_changed_cond.
GateBroadcastPending ==
    \/ engine \in {"wakeSwap", "wakeEnd"}
    \/ umpire \in {"wakeGate", "next", "spawn", "token", "broadcast"}
    \/ \E t \in Threads : bat[t] \in {"wakePromoted", "wakeEnds"}

\* Someone is about to raise both flags and broadcast to both their waiters.
FlagsPending ==
    \/ engine \in {"wakeEnd", "raiseFlags"}
    \/ umpire \in {"wakeGate", "flags"}

\* Both waits of a batsman also end on is_out.  The other thread of a
\* batsman who was given two is told nothing when the first is dismissed, so
\* this is about a batsman with one thread: only the umpire can get him out
\* while he sleeps.
OutWithOneThread(t) ==
    /\ is_out[Player(t)]
    /\ \A u \in Threads \ {t} : Player(u) = Player(t) => bat[u] = "unborn"

\* The umpire marked a batsman out and has not posted the token for it yet.
RunOutPending == umpire \in {"wicket", "ends", "next", "spawn", "token"}

\* No batsman sleeps before striker_changed_cond although his loop would end,
\* because he is on strike, out, or the match is over, unless a broadcast is
\* still to come.  On delivery_ready_cond this holds of the delivery and the
\* end of the match; a batsman whom the umpire runs out there is not woken
\* (resolve_runout does not broadcast it) and sleeps on until the next
\* delivery, and what is promised is that the bowler does not wait for him.
\* The bowler is never left asleep on a token that is there.
NoLostWakeup ==
    /\ \A t \in Threads :
        /\ bat[t] = "gateAsleep" /\ (OnStrike(t) \/ match_over)
               => GateBroadcastPending
        /\ bat[t] = "gateAsleep" /\ OutWithOneThread(t)
               => RunOutPending \/ umpire = "broadcast"
        /\ bat[t] = "awaitAsleep" => ~delivery_ready
        /\ bat[t] = "awaitAsleep" /\ match_over => FlagsPending
        /\ bat[t] = "awaitAsleep" /\ OutWithOneThread(t)
               => RunOutPending \/ bowler # "asleep"
    /\ bowler = "asleep" => ~stroke_done
    /\ bowler = "asleep" /\ match_over => FlagsPending

\* Every slot of the crease is free or held by exactly one thread, through
\* dismissals, run-outs and the end of the innings.
CreaseConserved == crease_semaphore + Cardinality(InsideCrease) = 2

\* A delivery nobody took in the over it was bowled in is not played in the
\* next one.
NoStaleDelivery ==
    engine \in {"striker", "spawn", "bowler", "join"} /\ delivery_ready
        /\ ~match_over => pitch_buffer = current_over

-----------------------------------------------------------------------------
(* Wickets and the end of the innings.                                     *)

\* No dismissal goes uncounted, whether a batsman's thread or the umpire saw
\* it, and whoever held score_mutex meanwhile (one that both see counts twice).
NoWicketLost ==
    Cardinality({b \in Batsmen : is_out[b]})
        <= wickets + (IF umpire = "wicket" THEN 1 ELSE 0)

\* No batsman has been given a second thread.
SpawnedOnce == \A t \in Threads : bat[t] # "unborn" => t[2] = 1

\* Every thread of the innings has ended when run_innings returns.
NoThreadLeaks ==
    engine = "done" => \A t \in Threads : bat[t] \in {"unborn", "done"}

\* Without run-outs by the umpire a thread outlives the innings only when a
\* batsman was given a second one: whoever comes in after a wicket is joined.
LeakNeedsSecondThread == SpawnedOnce => NoThreadLeaks

\* The last batsman is out and nobody is left to follow him.
Exhausted == Waiting = {} /\ striker_id # NoPlayer /\ is_out[striker_id]

\* The innings comes to its end.
InningsReturns == <>(engine = "done")

\* Dismissals do not stop the innings as long as there is a next batsman.
ReturnsUnlessExhausted == <>(engine = "done" \/ Exhausted)

\* Once the match is over every thread notices it and is joined.
ShutdownCompletes == match_over ~> engine = "done"

-----------------------------------------------------------------------------
(* The deadlock simulation.                                                *)

\* A run-out that was staged is found by the scan of the umpire.
StagedRunOutIsDetected ==
    (\E t \in Threads : bat[t] = "stage") ~> umpire = "victim"

-----------------------------------------------------------------------------
(* The scorer's view.                                                      *)

\* The runs are on the board and the batsmen have not changed ends yet.
Crossing ==
    \E t \in Threads :
        bat[t] \in {"result", "cross", "swapEnds"} /\ OddRuns(stroke[t])

Scorer == INSTANCE Scorebook WITH
    LegalRuns <- {RunsOf(o) : o \in Outcomes \ Extras},
    Left      <- 1,
    Right     <- 2,
    over      <- current_over,
    ball      <- current_ball,
    runs      <- total_runs,
    facing    <- IF Crossing THEN non_striker_id ELSE striker_id,
    standing  <- IF Crossing THEN striker_id ELSE non_striker_id,
    phase     <- CASE engine \in {"over", "wakeSwap"} -> "between"
                   [] engine \in {"wakeEnd", "raiseFlags", "joinBatsmen",
                                  "done"} -> "closed"
                   [] OTHER -> "over"

\* The threads together keep the book: six balls, ends changed on odd runs
\* and after the over, extras bowled again, and no over is begun or left early
\* unless the chase is won.
KeepsTheBook == Scorer!Spec

\* The board of the innings.
Board == INSTANCE InningsScore WITH
    over  <- current_over,
    runs  <- total_runs,
    stage <- CASE engine \in {"over", "wakeSwap"} -> "between"
               [] engine \in {"wakeEnd", "raiseFlags", "joinBatsmen"} -> "closing"
               [] engine = "done" -> "closed"
               [] OTHER -> "over"

\* No over is begun once the innings is decided and none is left out before,
\* and nothing is scored any more when run_innings has returned.
PlaysTheInnings == Board!Spec

\* Dismissals and run-outs included, every step that the board shows is one of
\* an innings, until a batsman is given a second thread.
BoardIsKept == [][SpawnedOnce => Board!Next \/ UNCHANGED Board!board]_vars
=============================================================================
