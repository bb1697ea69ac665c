----------------------------- MODULE Scorebook -----------------------------
(***************************************************************************)
(* What an innings without wickets amounts to for the scorer: six legal    *)
(* balls an over, the batsmen cross on odd runs and change ends after the  *)
(* over, a wide or a no-ball costs a run and is bowled again.  A chase is  *)
(* won when the target is reached; balls already on their way then still   *)
(* count, and where the batsmen end up does not matter any more.           *)
(***************************************************************************)
EXTENDS Naturals

CONSTANTS
    Overs,         \* overs of the innings
    BallsPerOver,  \* legal balls of an over
    LegalRuns,     \* runs a legal ball can bring
    Left, Right    \* the two batsmen

VARIABLES
    target,    \* the score to reach, 0 in the first innings
    over,      \* overs begun
    ball,      \* legal balls of the current over
    runs,      \* the board
    facing,    \* the batsman on strike
    standing,  \* his partner
    phase      \* "between" overs, in an "over", or "closed"

book == <<target, over, ball, runs, facing, standing, phase>>

Won == target > 0 /\ runs >= target

Init ==
    /\ target \in Nat
    /\ over = 0 /\ ball = 0 /\ runs = 0
    /\ facing = Left /\ standing = Right
    /\ phase = "between"

StartOver ==
    /\ phase = "between" /\ over < Overs /\ ~Won
    /\ over' = over + 1 /\ ball' = 0 /\ phase' = "over"
    /\ UNCHANGED <<target, runs, facing, standing>>

LegalBall(r) ==
    /\ phase = "over" /\ ball < BallsPerOver /\ ~Won
    /\ ball' = ball + 1 /\ runs' = runs + r
    /\ IF r % 2 = 1 THEN facing' = standing /\ standing' = facing
                    ELSE UNCHANGED <<facing, standing>>
    /\ UNCHANGED <<target, over, phase>>

ExtraBall ==
    /\ phase = "over" /\ ball < BallsPerOver /\ ~Won
    /\ runs' = runs + 1
    /\ UNCHANGED <<target, over, ball, facing, standing, phase>>

EndOver ==
    /\ phase = "over" /\ ball = BallsPerOver /\ ~Won
    /\ facing' = standing /\ standing' = facing
    /\ phase' = "between"
    /\ UNCHANGED <<target, over, ball, runs>>

\* The over is not finished once the chase is won.
CallOff ==
    /\ phase = "over" /\ Won
    /\ phase' = "between"
    /\ UNCHANGED <<target, over, ball, runs, facing, standing>>

\* A ball on its way when the chase was won.
LateBall ==
    /\ Won
    /\ \E r \in LegalRuns \cup {0, 1} : runs' = runs + r
    /\ ball' \in {ball, ball + 1}
    /\ {facing', standing'} = {Left, Right}
    /\ facing' \in {Left, Right}
    /\ UNCHANGED <<target, over, phase>>

Close ==
    /\ phase = "between" /\ (over = Overs \/ Won)
    /\ phase' = "closed"
    /\ UNCHANGED <<target, over, ball, runs, facing, standing>>

Next ==
    \/ StartOver \/ (\E r \in LegalRuns : LegalBall(r)) \/ ExtraBall
    \/ EndOver \/ CallOff \/ LateBall \/ Close

Spec == Init /\ [][Next]_book
=============================================================================
