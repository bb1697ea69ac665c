---------------------------- MODULE MCMatchPlay ----------------------------
(***************************************************************************)
(* MatchPlay with the five bowlers of a team in the order of the queue: a  *)
(* medium pacer and a spinner who also bat, then spin, swing and death.    *)
(* Their form is the worst for the order by speciality: the specialists of *)
(* powerplay and death overs are as weak, the others as strong, as they    *)
(* can be drawn.                                                           *)
(***************************************************************************)
EXTENDS MatchPlay

QueueSpeciality ==
    [b \in 0 .. 4 |-> <<"MEDIUM", "SPIN", "SPIN", "SWING", "DEATH">>[b + 1]]
WorstSkill == [b \in 0 .. 4 |-> <<85, 83, 93, 75, 72>>[b + 1]]
WorstSpeed == [b \in 0 .. 4 |-> <<140, 125, 115, 132, 128>>[b + 1]]

\* An over without runs, and a dear one without and with a wicket.
QuietOrDear == {[runs |-> 0, wickets |-> 0], [runs |-> 12, wickets |-> 0],
                [runs |-> 12, wickets |-> 1]}
=============================================================================
