----------------------------- MODULE MatchSetup -----------------------------
(***************************************************************************)
(* What MatchEngine makes of the two teams: who bats and who bowls, who    *)
(* fields in each innings, and the analysis of waiting times after the     *)
(* match.  The innings are played between these steps and change nothing   *)
(* that is asked about here.  Times are in units of ball_delay_ms.         *)
(***************************************************************************)
EXTENDS TeamSelection

CONSTANT MaxFielders     \* MAX_FIELDERS (10)

ASSUME FieldersAssumption == MaxFielders \in Nat \ {0}

VARIABLES
    first,       \* the team that bats first, 0 before the toss
    innings,     \* 0 before the match, 2 in the second and after it
    fielders,    \* fielders_
    analysis     \* what the analysis has reported, team after team

vars == <<teamVars, first, innings, fielders, analysis>>

-----------------------------------------------------------------------------
(* The sides.                                                              *)

\* The elements of s at the places in I, in their order.
At(s, I) ==
    LET out[i \in 0 .. Len(s)] ==
            IF i = 0 THEN <<>>
            ELSE IF i \in I THEN Append(out[i - 1], s[i])
            ELSE out[i - 1]
    IN  out[Len(s)]

\* A loop over s that keeps what passes the test.
Only(s, Test(_)) == At(s, {i \in DOMAIN s : Test(s[i])})

Bats(p)  == p.kind \in BatsmanKinds \cup AllRounderKinds \cup KeeperKinds
Bowls(p) == p.kind \in BowlerKinds \cup AllRounderKinds

\* team is one of the two teams, as it was picked.
BattingSide(team) == Only(team, Bats)
BowlingSide(team) == Only(team, Bowls)

Keeper(p)    == p.kind \in KeeperKinds
NotKeeper(p) == ~Keeper(p)

\* The wicket-keeper, or else the first of the side, then the others in their
\* order as long as there is room: whoever bats and bowls comes twice.
FieldersOf(team) ==
    LET side   == BattingSide(team) \o BowlingSide(team)
        keeper == Only(side, Keeper)
        behind == IF keeper # <<>> THEN <<Head(keeper)>>
                  ELSE IF side # <<>> THEN <<Head(side)>>
                  ELSE <<>>
        field  == behind \o Only(side, NotKeeper)
    IN  SubSeq(field, 1, IF Len(field) < MaxFielders THEN Len(field) ELSE MaxFielders)

Ids(s) == {Id(s[i]) : i \in DOMAIN s}

\* Mutant: the all-rounders are listed twice.
SquadWithRepeats(team) == BattingSide(team) \o BowlingSide(team)

\* Those who bat, then those who only bowl.
Squad(team) ==
    LET known == Ids(BattingSide(team))
        New(p) == Id(p) \notin known
    IN  BattingSide(team) \o Only(BowlingSide(team), New)

-----------------------------------------------------------------------------
(* run_sjf_vs_fcfs_analysis.                                               *)

\* Mutant: the longest job first.
Behind(s, j, i) ==
    s[j].balls > s[i].balls \/ (s[j].balls = s[i].balls /\ j < i)

\* stable_sort by expected_balls puts s[j] before s[i].
Before(s, j, i) ==
    s[j].balls < s[i].balls \/ (s[j].balls = s[i].balls /\ j < i)

SjfOrder(s) ==
    [k \in DOMAIN s |->
        s[CHOOSE i \in DOMAIN s :
              Cardinality({j \in DOMAIN s : Before(s, j, i)}) = k - 1]]

\* The time until each of s has his turn: everybody ahead of him has batted.
Waits(s) ==
    LET wait[i \in DOMAIN s] ==
            IF i = 1 THEN 0 ELSE wait[i - 1] + s[i - 1].balls
    IN  wait

\* What the totals of a column come to.
SumOf(w) == MapThenSumSet(LAMBDA i : w[i], DOMAIN w)

\* sjf_wait_map: what was stored last for an id.
SjfWait(sjf, p) ==
    LET i == Max({k \in DOMAIN sjf : Id(sjf[k]) = Id(p)})
    IN  Waits(sjf)[i]

\* The order and the two columns of the table, by place in the squad.
Report(team) ==
    LET squad == Squad(team)
        sjf   == SjfOrder(squad)
    IN  [order |-> sjf,
         fcfs  |-> Waits(squad),
         sjf   |-> [i \in DOMAIN squad |-> SjfWait(sjf, squad[i])]]

-----------------------------------------------------------------------------
(* The match.                                                              *)

Init ==
    /\ InitTeams
    /\ first = 0 /\ innings = 0 /\ fielders = <<>> /\ analysis = <<>>

Select == SelectTeams /\ UNCHANGED <<first, innings, fielders, analysis>>

\* The toss and the names of the teams decide who bats first; the constructor
\* sends the other team into the field.
ConstructEngine ==
    /\ picking = "picked" /\ first = 0
    /\ first' \in 1 .. 2
    /\ fielders' = FieldersOf(teams[3 - first'])
    /\ UNCHANGED <<teamVars, innings, analysis>>

\* Mutant: the fielders of the constructor stay for both innings.
FieldersStay(inn) == fielders

\* run_innings sends out the team that does not bat.
FieldersFor(inn) == FieldersOf(teams[IF inn = 1 THEN 3 - first ELSE first])

RunInnings ==
    /\ first # 0 /\ innings < 2
    /\ innings' = innings + 1
    /\ fielders' = FieldersFor(innings')
    /\ UNCHANGED <<teamVars, first, analysis>>

\* With --analysis, after the match, team1 before team2.
Analyse ==
    /\ innings = 2 /\ Len(analysis) < 2
    /\ analysis' = Append(analysis,
                          Report(teams[IF analysis = <<>> THEN first ELSE 3 - first]))
    /\ UNCHANGED <<teamVars, first, innings, fielders>>

Next == Select \/ ConstructEngine \/ RunInnings \/ Analyse

SetupSpec == Init /\ [][Next]_vars

-----------------------------------------------------------------------------
Batting == IF innings = 1 THEN first ELSE 3 - first

\* The wicket-keeper stands in slot 0 and nowhere else, and all who field are
\* of the team that is not batting, in both innings (run_innings rebuilds the
\* list the constructor made for the first).
OwnKeeperBehindStumps ==
    innings > 0 =>
        /\ Len(fielders) = MaxFielders
        /\ \A i \in DOMAIN fielders : Keeper(fielders[i]) <=> i = 1
        /\ Ids(fielders) \cap Ids(teams[Batting]) = {}

\* The shortest job first makes the least of the waiting: of any two players
\* one waits at least for the shorter of their two jobs, and no more than that.
SjfIsOptimal ==
    \A a \in DOMAIN analysis :
        LET s == analysis[a].order
            pairs == {p \in (DOMAIN s) \X (DOMAIN s) : p[1] < p[2]}
        IN  SumOf(analysis[a].sjf)
                = SumOf([p \in pairs |-> Min({s[p[1]].balls, s[p[2]].balls})])

\* The bowlers, who have no balls to face, bat before everybody else, and the
\* order that is printed is an order of the whole squad.
TailGoesFirst ==
    \A a \in DOMAIN analysis :
        LET s == analysis[a].order
        IN  /\ Len(s) = 11 /\ Cardinality(Ids(s)) = 11
            /\ \A i, j \in DOMAIN s :
                  s[i].kind \in BowlerKinds /\ s[j].kind \notin BowlerKinds => i < j
=============================================================================
