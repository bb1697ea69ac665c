---------------------------- MODULE InningsScore ----------------------------
(***************************************************************************)
(* What a match comes to for somebody who only looks at the board: an      *)
(* innings goes through its overs, and ends early only with the wickets or *)
(* when the target is reached; the score grows until the innings is closed *)
(* for good, and then stands; the second side has to get one run more.     *)
(***************************************************************************)
EXTENDS Naturals

CONSTANTS
    Overs,       \* overs of an innings
    AllOutAt     \* wickets that end it

VARIABLES
    target,      \* the score to reach, 0 in the first innings
    over,        \* overs begun
    runs, wickets,
    stage        \* "between" overs, in an "over", "closing" or "closed"

board == <<target, over, runs, wickets, stage>>

Decided == wickets >= AllOutAt \/ (target > 0 /\ runs >= target)

Init ==
    /\ target \in Nat
    /\ over = 0 /\ runs = 0 /\ wickets = 0
    /\ stage = "between"

StartOver ==
    /\ stage = "between" /\ over < Overs /\ ~Decided
    /\ over' = over + 1 /\ stage' = "over"
    /\ UNCHANGED <<target, runs, wickets>>

\* Also between the overs and while the innings is being closed: a ball that
\* is on its way still counts.
Score ==
    /\ over > 0 /\ stage # "closed"
    /\ runs' \in Nat /\ runs' >= runs
    /\ wickets' \in Nat /\ wickets' >= wickets
    /\ UNCHANGED <<target, over, stage>>

EndOver ==
    /\ stage = "over" /\ stage' = "between"
    /\ UNCHANGED <<target, over, runs, wickets>>

Close ==
    /\ stage = "between" /\ (over = Overs \/ Decided)
    /\ stage' = "closing"
    /\ UNCHANGED <<target, over, runs, wickets>>

Report ==
    /\ stage = "closing" /\ stage' = "closed"
    /\ UNCHANGED <<target, over, runs, wickets>>

ChangeSides ==
    /\ stage = "closed" /\ target = 0
    /\ target' = runs + 1
    /\ over' = 0 /\ runs' = 0 /\ wickets' = 0
    /\ stage' = "between"

Next == StartOver \/ Score \/ EndOver \/ Close \/ Report \/ ChangeSides

Spec == Init /\ [][Next]_board
=============================================================================
