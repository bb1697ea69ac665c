---------------------------- MODULE FielderRace ----------------------------
(***************************************************************************)
(* The fielder race: the batsman who hit the ball publishes the shot on    *)
(* the board g_shot_state, raises ball_in_air and broadcasts ball_hit_cond.*)
(* Every fielder thread that wakes writes its reach time in a slot of its  *)
(* own and decrements fielders_remaining; the one whose fetch_sub returns  *)
(* 1 scans the slots, names the winner, lowers ball_in_air and signals the *)
(* batsman.  batsman_thread_func 255-286, fielder_thread_func,             *)
(* shot_state_reset; the umpire ends the match at any moment.              *)
(*                                                                         *)
(* Nothing in this code keeps a second batsman out of the race: the token  *)
(* of a run-out or of a dismissal (player_threads.cpp 357, 434, 445,       *)
(* 700-708) lets the bowler bowl while a ball is still being fielded, and  *)
(* after a change of the strike another batsman plays it.  So every        *)
(* batsman at the crease may hit a ball at any moment, and the history     *)
(* variable overlaps counts the balls hit since the last one that was hit  *)
(* on a board at rest.                                                     *)
(*                                                                         *)
(* One action is one step between two accesses to shared state; a check of *)
(* a predicate and the sleep on its condition variable are one step,       *)
(* because the mutex of the condition variable is held over both.          *)
(***************************************************************************)
EXTENDS Naturals, FiniteSets

CONSTANTS
    Batsmen,      \* the places at the crease; a new batsman takes one over
    Fielders,     \* the fielder threads of the innings (state_.active_fielders)
    RaceShots,    \* shots whose outcome the race decides: AERIAL, GROUND
    OtherShots,   \* shots the fielders run for although the outcome is fixed
    MaxOverlap    \* bound: balls hit into races that are not over

ASSUME FieldersAssumption == IsFiniteSet(Fielders) /\ Fielders # {}

\* shot_state_reset sets the type to 0, which is no shot that is fielded.
ASSUME ShotsAssumption ==
    /\ RaceShots \cap OtherShots = {}
    /\ "none" \notin RaceShots \cup OtherShots

ASSUME OverlapAssumption == MaxOverlap \in Nat

NoShot   == "none"
NoWinner == "none"       \* winner_idx = -1
AWinner  == "fielder"    \* any other index: ShotOutcome says which
Unset    == "unset"      \* a reset slot, 99999.0f, loses every comparison
Voted    == "voted"      \* any reach time a fielder computes

FieldedShots == RaceShots \cup OtherShots

VARIABLES
    match_over,           \* ms->match_over
    ending,               \* TRUE between match_over = true and its broadcast
    ball_in_air,          \* ms->ball_in_air
    shot_type,            \* g_shot_state.type (with zone, power, flight time)
    reach_ms,             \* the slots: set by a vote, or unset
    fielders_remaining,   \* the countdown; 0 stands for every value <= 0
    fielding_done,        \* g_shot_state.fielding_done
    winner_idx,           \* g_shot_state.winner_idx
    shot,                 \* the local ShotResult of each batsman
    batsman,              \* program counters of the batsmen
    fielder,              \* program counters of the fielders
    snapshot,             \* the local shot_type of each fielder
    overlaps              \* history: balls hit since one was hit AtRest

board == <<shot_type, reach_ms, winner_idx>>
ends  == <<match_over, ending>>
local == <<shot, snapshot>>
vars  == <<ends, ball_in_air, board, fielders_remaining, fielding_done,
           local, batsman, fielder, overlaps>>

Waiting == {"await", "asleep"}

TypeOK ==
    /\ match_over \in BOOLEAN
    /\ ending \in BOOLEAN
    /\ ball_in_air \in BOOLEAN
    /\ shot_type \in FieldedShots \cup {NoShot}
    /\ reach_ms \in [Fielders -> {Unset, Voted}]
    /\ fielders_remaining \in 0 .. Cardinality(Fielders)
    /\ fielding_done \in BOOLEAN
    /\ winner_idx \in {NoWinner, AWinner}
    /\ shot \in [Batsmen -> FieldedShots \cup {NoShot}]
    /\ batsman \in [Batsmen -> {"ready", "reset", "counter", "flag",
                                "publish", "broadcast", "await", "asleep",
                                "resolve", "left"}]
    /\ fielder \in [Fielders -> {"gate", "asleep", "snapshot", "vote",
                                 "countdown", "scan", "clear", "signal",
                                 "exit"}]
    /\ snapshot \in [Fielders -> FieldedShots \cup {NoShot}]
    /\ overlaps \in 0 .. MaxOverlap

Init ==
    /\ match_over = FALSE /\ ending = FALSE
    /\ ball_in_air = FALSE
    /\ shot_type = NoShot
    /\ reach_ms = [f \in Fielders |-> Unset]
    /\ fielders_remaining = Cardinality(Fielders)
    /\ fielding_done = FALSE
    /\ winner_idx = NoWinner
    /\ shot = [b \in Batsmen |-> NoShot]
    /\ batsman = [b \in Batsmen |-> "ready"]
    /\ fielder = [f \in Fielders |-> "gate"]
    /\ snapshot = [f \in Fielders |-> NoShot]
    /\ overlaps = 0

-----------------------------------------------------------------------------
(* The batsmen.                                                            *)

\* A batsman between the hit and the outcome of his ball.
InRace(b) == batsman[b] \notin {"ready", "left"}

\* Fielders that saw a ball up and have not counted down for it yet.
InFlight == {f \in Fielders : fielder[f] \in {"snapshot", "vote", "countdown"}}

\* Fielders between the vote that ended the countdown and their signal.
Resolvers == {f \in Fielders : fielder[f] \in {"scan", "clear", "signal"}}

\* Nobody is in a race, the ball is down, and the votes that are still on
\* their way, if any, find the countdown over.
AtRest ==
    /\ \A b \in Batsmen : ~InRace(b)
    /\ Resolvers = {} /\ ~ball_in_air
    /\ fielders_remaining = 0 \/ InFlight = {}

BatsmanGoesTo(b, pc) == batsman' = [batsman EXCEPT ![b] = pc]

\* pthread_cond_broadcast(&ball_hit_cond): the sleepers re-test their loop.
WakeFielders(pcs) ==
    [f \in Fielders |-> IF pcs[f] = "asleep" THEN "gate" ELSE pcs[f]]

\* A batsman in mid-match hits a ball the fielders have to run for, whether
\* or not they are still running for the ball of another one.
PlayShot(b) ==
    /\ batsman[b] = "ready" /\ ~match_over
    /\ \E s \in FieldedShots : shot' = [shot EXCEPT ![b] = s]
    /\ BatsmanGoesTo(b, "reset")
    /\ IF AtRest THEN overlaps' = 0
                 ELSE overlaps < MaxOverlap /\ overlaps' = overlaps + 1
    /\ UNCHANGED <<ends, ball_in_air, board, fielders_remaining,
                   fielding_done, fielder, snapshot>>

LeaveCrease(b) ==
    /\ batsman[b] = "ready" /\ match_over
    /\ BatsmanGoesTo(b, "left")
    /\ UNCHANGED <<ends, ball_in_air, board, fielders_remaining,
                   fielding_done, local, fielder, overlaps>>

\* shot_state_reset takes no lock.  First the shot, the slots, the winner,
ResetBoard(b) ==
    /\ batsman[b] = "reset"
    /\ shot_type' = NoShot
    /\ reach_ms' = [f \in Fielders |-> Unset]
    /\ winner_idx' = NoWinner
    /\ BatsmanGoesTo(b, "counter")
    /\ UNCHANGED <<ends, ball_in_air, fielders_remaining, fielding_done,
                   local, fielder, overlaps>>

\* Mutants of the count: one vote too few, one too many.
OneVoteLess == Cardinality(Fielders) - 1
OneVoteMore == Cardinality(Fielders) + 1

\* The count shot_state_reset starts from: the threads really spawned.
VotesExpected == Cardinality(Fielders)

\* then the countdown,
ResetCounter(b) ==
    /\ batsman[b] = "counter"
    /\ fielders_remaining' = VotesExpected
    /\ BatsmanGoesTo(b, "flag")
    /\ UNCHANGED <<ends, ball_in_air, board, fielding_done, local, fielder,
                   overlaps>>

\* and last the flag the batsman is going to wait for.
ResetFlag(b) ==
    /\ batsman[b] = "flag"
    /\ fielding_done' = FALSE
    /\ BatsmanGoesTo(b, "publish")
    /\ UNCHANGED <<ends, ball_in_air, board, fielders_remaining, local,
                   fielder, overlaps>>

PublishShot(b) ==
    /\ batsman[b] = "publish"
    /\ shot_type' = shot[b]
    /\ BatsmanGoesTo(b, "broadcast")
    /\ UNCHANGED <<ends, ball_in_air, reach_ms, winner_idx,
                   fielders_remaining, fielding_done, local, fielder,
                   overlaps>>

\* Mutant: the flag is raised but the broadcast is forgotten.
HitBallSilently(b) ==
    /\ batsman[b] = "broadcast"
    /\ ball_in_air' = TRUE
    /\ BatsmanGoesTo(b, "await")
    /\ UNCHANGED <<ends, board, fielders_remaining, fielding_done, local,
                   fielder, overlaps>>

HitBall(b) ==
    /\ batsman[b] = "broadcast"
    /\ ball_in_air' = TRUE
    /\ fielder' = WakeFielders(fielder)
    /\ BatsmanGoesTo(b, "await")
    /\ UNCHANGED <<ends, board, fielders_remaining, fielding_done, local,
                   overlaps>>

\* Mutant: the "hard timeout" ends the wait, whether the race is done or not.
GiveUpAwait(b) ==
    /\ batsman[b] = "await"
    /\ \E pc \in {"resolve", "asleep"} : BatsmanGoesTo(b, pc)
    /\ UNCHANGED <<ends, ball_in_air, board, fielders_remaining,
                   fielding_done, local, fielder, overlaps>>

\* while (!fielding_done && !match_over) pthread_cond_timedwait(...)
AwaitRace(b) ==
    /\ batsman[b] = "await"
    /\ BatsmanGoesTo(b, IF fielding_done \/ match_over THEN "resolve"
                                                       ELSE "asleep")
    /\ UNCHANGED <<ends, ball_in_air, board, fielders_remaining,
                   fielding_done, local, fielder, overlaps>>

\* Mutant: a plain pthread_cond_wait, which has no deadline.
NoDeadline(b) == FALSE

\* The two-second deadline passes: the batsman re-tests its loop, and once
\* it has passed every further wait returns at once.
DeadlinePasses(b) ==
    /\ batsman[b] = "asleep"
    /\ BatsmanGoesTo(b, "await")
    /\ UNCHANGED <<ends, ball_in_air, board, fielders_remaining,
                   fielding_done, local, fielder, overlaps>>

\* resolve_fielding_outcome reads the winner; the ball is over for the race.
ResolveOutcome(b) ==
    /\ batsman[b] = "resolve"
    /\ shot' = [shot EXCEPT ![b] = NoShot]
    /\ BatsmanGoesTo(b, "ready")
    /\ UNCHANGED <<ends, ball_in_air, board, fielders_remaining,
                   fielding_done, fielder, snapshot, overlaps>>

\* The steps a batsman takes once he has hit a ball, or the match is over.
Batsman(b) ==
    \/ LeaveCrease(b) \/ ResetBoard(b) \/ ResetCounter(b) \/ ResetFlag(b)
    \/ PublishShot(b) \/ HitBall(b) \/ AwaitRace(b) \/ ResolveOutcome(b)

-----------------------------------------------------------------------------
(* The fielders.                                                           *)

GoTo(f, pc) == fielder' = [fielder EXCEPT ![f] = pc]

\* while (!ball_in_air && !match_over) pthread_cond_wait(&ball_hit_cond, ...)
WaitForBall(f) ==
    /\ fielder[f] = "gate" /\ ~ball_in_air /\ ~match_over
    /\ GoTo(f, "asleep")
    /\ UNCHANGED <<ends, ball_in_air, board, fielders_remaining,
                   fielding_done, local, batsman, overlaps>>

WakeForBall(f) ==
    /\ fielder[f] = "gate" /\ ball_in_air /\ ~match_over
    /\ GoTo(f, "snapshot")
    /\ UNCHANGED <<ends, ball_in_air, board, fielders_remaining,
                   fielding_done, local, batsman, overlaps>>

LeaveField(f) ==
    /\ fielder[f] = "gate" /\ match_over
    /\ GoTo(f, "exit")
    /\ UNCHANGED <<ends, ball_in_air, board, fielders_remaining,
                   fielding_done, local, batsman, overlaps>>

\* The fielder copies the shot it will run for.
SnapshotShot(f) ==
    /\ fielder[f] = "snapshot"
    /\ snapshot' = [snapshot EXCEPT ![f] = shot_type]
    /\ GoTo(f, "vote")
    /\ UNCHANGED <<ends, ball_in_air, board, fielders_remaining,
                   fielding_done, shot, batsman, overlaps>>

\* The reach time goes to the fielder's own slot.
WriteSlot(f) ==
    /\ fielder[f] = "vote"
    /\ reach_ms' = [reach_ms EXCEPT ![f] = Voted]
    /\ GoTo(f, "countdown")
    /\ UNCHANGED <<ends, ball_in_air, shot_type, winner_idx,
                   fielders_remaining, fielding_done, local, batsman,
                   overlaps>>

\* Mutant: every decrement at or below one counts as the last vote.
IsLateVote(prev) == prev <= 1

\* The value fetch_sub returned that makes a fielder the last voter.
IsLastVote(prev) == prev = 1

\* fielders_remaining.fetch_sub(1): only the last voter goes on to resolve,
\* every other one loops, and votes again while the ball is still in the air.
CountDown(f) ==
    /\ fielder[f] = "countdown"
    /\ fielders_remaining' =
           IF fielders_remaining = 0 THEN 0 ELSE fielders_remaining - 1
    /\ IF IsLastVote(fielders_remaining)
          THEN GoTo(f, "scan") /\ UNCHANGED snapshot
          ELSE GoTo(f, "gate") /\ snapshot' = [snapshot EXCEPT ![f] = NoShot]
    /\ UNCHANGED <<ends, ball_in_air, board, fielding_done, shot, batsman,
                   overlaps>>

\* The slots the scan of the last voter can find the minimum in.
Votes == {g \in Fielders : reach_ms[g] # Unset}

\* The scan: a slot that is set can be the fastest; the winner is stored
\* only when the last voter's own snapshot is a shot that is raced for.
ScanSlots(f) ==
    /\ fielder[f] = "scan"
    /\ winner_idx' = IF Votes # {} /\ snapshot[f] \in RaceShots
                        THEN AWinner ELSE winner_idx
    /\ GoTo(f, "clear")
    /\ UNCHANGED <<ends, ball_in_air, shot_type, reach_ms,
                   fielders_remaining, fielding_done, local, batsman,
                   overlaps>>

\* Mutant: the last voter forgets to lower the ball.
LeaveBallUp(f) ==
    /\ fielder[f] = "clear"
    /\ GoTo(f, "signal")
    /\ UNCHANGED <<ends, ball_in_air, board, fielders_remaining,
                   fielding_done, local, batsman, overlaps>>

ClearBall(f) ==
    /\ fielder[f] = "clear"
    /\ ball_in_air' = FALSE
    /\ GoTo(f, "signal")
    /\ UNCHANGED <<ends, board, fielders_remaining, fielding_done, local,
                   batsman, overlaps>>

\* pthread_cond_broadcast(&g_shot_state.cond) wakes whoever waits there.
WakeBatsmen(pcs) ==
    [b \in Batsmen |-> IF pcs[b] = "asleep" THEN "await" ELSE pcs[b]]

SignalDone(f) ==
    /\ fielder[f] = "signal"
    /\ fielding_done' = TRUE
    /\ batsman' = WakeBatsmen(batsman)
    /\ GoTo(f, "gate")
    /\ snapshot' = [snapshot EXCEPT ![f] = NoShot]
    /\ UNCHANGED <<ends, ball_in_air, board, fielders_remaining, shot,
                   overlaps>>

Fielder(f) ==
    \/ WaitForBall(f) \/ WakeForBall(f) \/ LeaveField(f) \/ SnapshotShot(f)
    \/ WriteSlot(f) \/ CountDown(f) \/ ScanSlots(f) \/ ClearBall(f)
    \/ SignalDone(f)

-----------------------------------------------------------------------------
(* The end of the match, decided elsewhere: match_over first, then          *)
(* ball_in_air and the broadcast under ball_hit_mutex.  g_shot_state.cond   *)
(* is not signalled.                                                        *)

EndMatch ==
    /\ ~match_over
    /\ match_over' = TRUE /\ ending' = TRUE
    /\ UNCHANGED <<ball_in_air, board, fielders_remaining, fielding_done,
                   local, batsman, fielder, overlaps>>

BroadcastEnd ==
    /\ ending
    /\ ending' = FALSE
    /\ ball_in_air' = TRUE
    /\ fielder' = WakeFielders(fielder)
    /\ UNCHANGED <<match_over, board, fielders_remaining, fielding_done,
                   local, batsman, overlaps>>

\* Everyone has left: the threads are joined.
AllJoined ==
    /\ \A b \in Batsmen : batsman[b] = "left"
    /\ \A f \in Fielders : fielder[f] = "exit"
    /\ ~ending
    /\ UNCHANGED vars

Next ==
    \/ \E b \in Batsmen : PlayShot(b) \/ Batsman(b) \/ DeadlinePasses(b)
    \/ \E f \in Fielders : Fielder(f)
    \/ EndMatch \/ BroadcastEnd \/ AllJoined

(* Every thread that can take a step eventually does, and the clock passes *)
(* the deadline of a timed wait.  Nobody has to hit a ball, and the match  *)
(* need not end.                                                           *)
Fairness ==
    /\ \A b \in Batsmen : WF_vars(Batsman(b)) /\ WF_vars(DeadlinePasses(b))
    /\ \A f \in Fielders : WF_vars(Fielder(f))
    /\ WF_vars(BroadcastEnd)

Spec == Init /\ [][Next]_vars
FairSpec == Spec /\ Fairness

-----------------------------------------------------------------------------
(* Properties.  All but ShutdownDrains speak of races that are alone: two  *)
(* batsmen in one race break every one of them.                            *)

\* The last ball was hit on a board at rest, and no other one since.
Alone == overlaps = 0

\* However often the fielders vote on one ball, and however many votes of
\* the previous ball arrive late, at most one fielder scans the slots, writes
\* the winner and signals (fetch_sub and its test, fielder_thread_func).
OneLastVoter == Alone => \A f, g \in Resolvers : f = g

\* Votes left over from the previous ball never finish the countdown of a
\* ball that has not been hit: a race is resolved only while the batsman
\* waits for it (the end of the match may have taken the batsman away).
RaceStartsWithHit ==
    Alone /\ Resolvers # {} =>
        (\E b \in Batsmen : batsman[b] \in Waiting) \/ match_over

\* Although shot_state_reset may wipe a slot after its fielder wrote it and
\* before the fielder counts down, the last voter always finds a slot set.
LastVoterFindsVote ==
    Alone => \A f \in Fielders : fielder[f] = "scan" => Votes # {}

\* The batsman reads the result of a finished race: no fielder is still
\* writing the winner, unless the match ended under the race.
ResultIsSettled ==
    Alone /\ ~match_over =>
        \A b \in Batsmen :
            batsman[b] = "resolve" => fielding_done /\ Resolvers = {}

\* While no batsman waits for a race the ball is down: no fielder joins a
\* race that has not been published.
BallDownBetweenRaces ==
    Alone /\ ~match_over /\ (\A b \in Batsmen : batsman[b] \notin Waiting)
        => ~ball_in_air

\* Every ball that is hit is resolved and its batsman goes on, unless a
\* second ball is hit into the race.
RaceResolves ==
    Alone /\ (\E b \in Batsmen : InRace(b))
        ~> ~Alone \/ (\A b \in Batsmen : ~InRace(b))

\* After the end of the match every fielder and every batsman leave, although
\* nothing signals g_shot_state.cond, and whatever two batsmen did to the
\* race: one asleep on it is saved by the deadline of his timed wait.
ShutdownDrains ==
    match_over ~> /\ \A b \in Batsmen : batsman[b] = "left"
                  /\ \A f \in Fielders : fielder[f] = "exit"

-----------------------------------------------------------------------------
(* What a comment says of the race, and the code does not do.               *)

\* "Last voter determines winner": a ball that is raced for gets a winner.
RacedBallHasWinner ==
    ~match_over =>
        \A b \in Batsmen :
            batsman[b] = "resolve" /\ shot[b] \in RaceShots =>
                winner_idx # NoWinner
=============================================================================
