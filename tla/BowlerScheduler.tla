-------------------------- MODULE BowlerScheduler --------------------------
(***************************************************************************)
(* Scheduler: which bowler bowls the next over of an innings.  Bowlers are *)
(* numbered by their place in bowler_queue_.  Their is_out flag is never   *)
(* set (the batting side holds copies of the players).                     *)
(*                                                                         *)
(* A bowler is done with his over when he has bowled six legal balls, so   *)
(* balls_bowled / BALLS_PER_OVER is kept as overs_bowled; only the end of  *)
(* the innings cuts an over short.  What an over adds to the runs and the  *)
(* wickets of its bowler is free.  The over loop is in MatchPlay.          *)
(***************************************************************************)
EXTENDS BowlerPriority

CONSTANTS
    MaxOvers,       \* config.max_overs (at most 20)
    Policies,       \* the SchedulerTypes; all but RR schedule by priority
    OverFigures,    \* the runs and wickets an over can cost and bring
    MaxConceded     \* bound: runs conceded by a bowler

ASSUME QuotaAssumption ==
    Quota \in Nat /\ MaxOvers \in Nat /\ MaxOvers <= NBowlers * Quota

Nobody == -1      \* an id that no bowler of this innings has

ASSUME PolicyAssumption == Policies \subseteq {"RR", "SJF", "PRIORITY"}
ASSUME FiguresAssumption == OverFigures \subseteq [runs : Nat, wickets : Nat]

VARIABLES
    type_,                \* the policy of the match
    current_over,
    current_phase,        \* update_phase has set it when a bowler is chosen
    current_bowler_idx,   \* the bowler of the latest over
    overs_bowled,         \* balls_bowled / BALLS_PER_OVER of each bowler
    runs_conceded, wickets_taken,
    rr_head,
    pcb                   \* overs_bowled in the saved context of each bowler

figures == <<overs_bowled, runs_conceded, wickets_taken>>
schedulerVars == <<current_bowler_idx, figures, rr_head, pcb>>

\* The figures and the saved contexts of bowlers who have not bowled.
NoOvers == [b \in Bowlers |-> 0]

\* A new scheduler and its bowlers.
InitScheduler ==
    /\ overs_bowled = NoOvers /\ runs_conceded = NoOvers /\ wickets_taken = NoOvers
    /\ rr_head = 0 /\ pcb = NoOvers

\* Mutant: a bowler who has bowled his quota gets one more over.
AtMostQuota(b) == overs_bowled[b] <= Quota

HasOvers(b) == overs_bowled[b] < Quota

\* Mutant: the bowler of the latest over is not passed over.
AnyWithOvers(b) == HasOvers(b)

\* Neither the bowler of the latest over nor one whose quota is used up.
Candidate(b) == b # current_bowler_idx /\ HasOvers(b)

-----------------------------------------------------------------------------
(* rr_next.                                                                *)

\* (rr_head_ + k) % n
Turn(k) == IF rr_head + k < NBowlers THEN rr_head + k
                                     ELSE rr_head + k - NBowlers

\* The k-th bowler after the head is the first candidate.
IsNext(k) ==
    /\ k \in 1 .. NBowlers
    /\ Candidate(Turn(k))
    /\ \A j \in 1 .. k - 1 : ~Candidate(Turn(j))

\* Anybody with overs left, the latest bowler too; failing that the first.
IsFallback(b) ==
    /\ \A c \in Bowlers : ~Candidate(c)
    /\ IF \E c \in Bowlers : HasOvers(c)
          THEN HasOvers(b) /\ \A c \in 0 .. b - 1 : ~HasOvers(c)
          ELSE b = 0

\* Mutant: the queue is served from the front instead of in turn.
ServeFront(b) ==
    /\ HasOvers(b) /\ \A c \in 0 .. b - 1 : ~HasOvers(c)
    /\ UNCHANGED rr_head

\* Mutant: the head of the queue does not move.
StayAtHead(b) ==
    /\ \/ \E k \in 1 .. NBowlers : IsNext(k) /\ b = Turn(k)
       \/ IsFallback(b)
    /\ UNCHANGED rr_head

\* The fallback has gone round the queue once: the head is where it was.
rr_next(b) ==
    \/ \E k \in 1 .. NBowlers : IsNext(k) /\ b = Turn(k) /\ rr_head' = b
    \/ IsFallback(b) /\ UNCHANGED rr_head

-----------------------------------------------------------------------------
(* priority_next.                                                          *)

\* Over 1 is for a bowler of swing or pace, if there is one.
MayOpen(b) ==
    /\ current_over' = 1 /\ Speciality[b] \in {"SWING", "MEDIUM"}
    /\ b # current_bowler_idx /\ overs_bowled[b] = 0

\* schedule_next_bowler is called when current_over and current_phase are set.
PriorityOf(b) ==
    Priority(b, overs_bowled[b], runs_conceded[b], wickets_taken[b],
             current_phase', MaxOvers - current_over' + 1)

\* The best score of all, and the first in the queue to have it.
IsOpener(b) ==
    /\ MayOpen(b)
    /\ \A c \in Bowlers : MayOpen(c) =>
          \/ OpenerScore(c) < OpenerScore(b)
          \/ OpenerScore(c) = OpenerScore(b) /\ b <= c

IsBest(b) ==
    /\ Candidate(b)
    /\ \A c \in Bowlers : Candidate(c) =>
          \/ PriorityOf(c) < PriorityOf(b)
          \/ PriorityOf(c) = PriorityOf(b) /\ b <= c

priority_next(b) ==
    IF \E c \in Bowlers : MayOpen(c) THEN IsOpener(b) /\ UNCHANGED rr_head
    ELSE IF \E c \in Bowlers : Candidate(c) THEN IsBest(b) /\ UNCHANGED rr_head
    ELSE rr_next(b)

-----------------------------------------------------------------------------
\* schedule_next_bowler; the over loop writes current_bowler_idx.
ScheduleNextBowler ==
    /\ \E b \in Bowlers :
        /\ IF type_ = "RR" THEN rr_next(b) ELSE priority_next(b)
        /\ current_bowler_idx' = b
    /\ UNCHANGED <<figures, pcb>>

\* What the bowler's thread has counted when it is joined, and
\* notify_over_complete.  An over is full or was cut short.
OverComplete(full) ==
    LET b == current_bowler_idx
    IN  /\ overs_bowled' = [overs_bowled EXCEPT ![b] = IF full THEN @ + 1 ELSE @]
        /\ \E f \in OverFigures :
              /\ runs_conceded[b] + f.runs <= MaxConceded
              /\ runs_conceded' = [runs_conceded EXCEPT ![b] = @ + f.runs]
              /\ wickets_taken' = [wickets_taken EXCEPT ![b] = @ + f.wickets]
        /\ pcb' = [pcb EXCEPT ![b] = overs_bowled'[b]]
        /\ UNCHANGED <<current_bowler_idx, rr_head>>

-----------------------------------------------------------------------------
\* The part of the type invariant that is the scheduler's.
SchedulerTypeOK ==
    /\ type_ \in Policies
    /\ current_over \in 0 .. MaxOvers
    /\ current_phase \in {"POWERPLAY", "MIDDLE", "DEATH"}
    /\ current_bowler_idx \in Bowlers \cup {Nobody}
    /\ overs_bowled \in [Bowlers -> Nat]
    /\ runs_conceded \in [Bowlers -> Nat] /\ wickets_taken \in [Bowlers -> Nat]
    /\ rr_head \in Bowlers
    /\ pcb \in [Bowlers -> Nat]
=============================================================================
