--------------------------- MODULE TeamSelection ---------------------------
(***************************************************************************)
(* create_teams and select_team: two teams of eleven are drawn, one after  *)
(* the other, from four shuffled pools.  A pick takes the first player of  *)
(* the wanted kind or, failing that, the last of his pool.  Players of a   *)
(* kind differ in nothing that is asked about here but their burst time,   *)
(* so a pool is a number of players of each kind, the n-th of a kind to be *)
(* picked has the id <<kind, n>>, and which kind the last player of a      *)
(* shuffled pool is of is free.                                            *)
(***************************************************************************)
EXTENDS Integers, Sequences, FiniteSetsExt

CONSTANTS
    PoolSize,        \* how many of each kind init_all_players makes
    ExpectedBalls    \* the values that expected_balls has in a kind

BatsmanKinds    == {"ATTACKING_OPENER", "ANCHOR_OPENER", "TECHNICAL_ANCHOR",
                    "MIDDLE_HITTER", "FINISHER"}
KeeperKinds     == {"WK_BATSMAN"}
AllRounderKinds == {"MEDIUM_AR", "DEATH_AR", "SWING_AR", "SPIN_AR"}
BowlerKinds     == {"SPIN", "SWING", "DEATH"}
Kinds == BatsmanKinds \cup KeeperKinds \cup AllRounderKinds \cup BowlerKinds

ASSUME PoolsAssumption ==
    PoolSize \in [Kinds -> Nat] /\ ExpectedBalls \in [Kinds -> SUBSET Nat]

VARIABLES
    pool,     \* players left of each kind
    teams,    \* the two teams, in the order of the picks
    place,    \* the place of a team that is to be filled next
    picking   \* "check", "A", "B", "picked" or "exit"

teamVars == <<pool, teams, place, picking>>

-----------------------------------------------------------------------------
(* One pick.                                                               *)

\* The kinds that are asked for in turn, and the pool of each place.
Wishes == <<
    <<"ATTACKING_OPENER">>, <<"ANCHOR_OPENER">>, <<"TECHNICAL_ANCHOR">>,
    <<"MIDDLE_HITTER">>, <<"FINISHER">>, <<>>, <<"MEDIUM_AR", "DEATH_AR">>,
    <<"SPIN_AR">>, <<"SPIN">>, <<"SWING">>, <<"DEATH">> >>

PoolOf(i) == IF i <= 5 THEN BatsmanKinds
             ELSE IF i = 6 THEN KeeperKinds
             ELSE IF i <= 8 THEN AllRounderKinds
             ELSE BowlerKinds

Places == 1 .. 11

Left(i) == {k \in PoolOf(i) : pool[k] > 0}

\* Mutant: the wishes are tried from the last to the first.
LastWish(i) ==
    {k \in Left(i) :
        \/ \E j \in DOMAIN Wishes[i] :
              /\ Wishes[i][j] = k
              /\ \A h \in DOMAIN Wishes[i] : h > j => Wishes[i][h] \notin Left(i)
        \/ \A j \in DOMAIN Wishes[i] : Wishes[i][j] \notin Left(i)}

\* The first wish that can be met, or else anybody who is left in the pool.
KindsFor(i) ==
    {k \in Left(i) :
        \/ \E j \in DOMAIN Wishes[i] :
              Wishes[i][j] = k /\ \A h \in 1 .. j - 1 : Wishes[i][h] \notin Left(i)
        \/ \A j \in DOMAIN Wishes[i] : Wishes[i][j] \notin Left(i)}

\* The team that picks, and the number of the next player of a kind.
Picker    == IF picking = "A" THEN 1 ELSE 2
NextOf(k) == PoolSize[k] - pool[k] + 1

Picked(k, b) == [kind |-> k, n |-> NextOf(k), balls |-> b]

Take(k) ==
    /\ \E b \in ExpectedBalls[k] :
           teams' = [teams EXCEPT ![Picker] = Append(@, Picked(k, b))]
    /\ pool' = [pool EXCEPT ![k] = @ - 1]

Pick ==
    /\ picking \in {"A", "B"} /\ place \in Places
    /\ IF Left(place) = {}
          THEN UNCHANGED <<pool, teams>>
          ELSE \E k \in KindsFor(place) : Take(k)
    /\ place' = place + 1
    /\ UNCHANGED picking

-----------------------------------------------------------------------------
InitTeams ==
    /\ pool = PoolSize
    /\ teams = [t \in 1 .. 2 |-> <<>>]
    /\ place = 1 /\ picking = "check"

PlayersIn(kinds) == MapThenSumSet(LAMBDA k : pool[k], kinds)

\* The sizes the program insists on; it exits if they are not met.
EnoughPlayers ==
    /\ PlayersIn(BatsmanKinds) >= 8 /\ PlayersIn(KeeperKinds) >= 2
    /\ PlayersIn(BowlerKinds) >= 6  /\ PlayersIn(AllRounderKinds) >= 6

CheckPools ==
    /\ picking = "check"
    /\ picking' = IF EnoughPlayers THEN "A" ELSE "exit"
    /\ UNCHANGED <<pool, teams, place>>

\* Mutant: the second team is picked from full pools again.
RefillPools == PoolSize

KeepPools == pool

TeamComplete ==
    /\ picking \in {"A", "B"} /\ place \notin Places
    /\ IF picking = "A" THEN picking' = "B" /\ place' = 1
                        ELSE picking' = "picked" /\ UNCHANGED place
    /\ pool' = KeepPools
    /\ UNCHANGED teams

SelectTeams == CheckPools \/ Pick \/ TeamComplete

Spec == InitTeams /\ [][SelectTeams]_teamVars

-----------------------------------------------------------------------------
Player == [kind : Kinds, n : Nat, balls : Nat]

TeamTypeOK ==
    /\ pool \in [Kinds -> Nat] /\ \A k \in Kinds : pool[k] <= PoolSize[k]
    /\ teams \in [1 .. 2 -> Seq(Player)]
    /\ place \in 1 .. 12
    /\ picking \in {"check", "A", "B", "picked", "exit"}

\* The kind that fills each place when there are enough of every kind.
Filled == <<"ATTACKING_OPENER", "ANCHOR_OPENER", "TECHNICAL_ANCHOR",
            "MIDDLE_HITTER", "FINISHER", "WK_BATSMAN", "MEDIUM_AR", "SPIN_AR",
            "SPIN", "SWING", "DEATH">>

\* Both teams, also the one that picks second from what the first has left,
\* have eleven players, one in every role, and so eight who bat, five who bowl
\* and a bowler of swing or medium pace for the first over (select_team).
TeamsAreBalanced ==
    picking = "picked" =>
        \A t \in 1 .. 2 :
            /\ Len(teams[t]) = 11
            /\ \A i \in Places : teams[t][i].kind = Filled[i]

\* The id of a player.
Id(p) == <<p.kind, p.n>>

\* Nobody is picked twice, for the same team or for both.
NobodyPickedTwice ==
    \A t, u \in 1 .. 2 :
        \A i \in DOMAIN teams[t], j \in DOMAIN teams[u] :
            Id(teams[t][i]) = Id(teams[u][j]) => t = u /\ i = j
=============================================================================
