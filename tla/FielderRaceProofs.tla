------------------------- MODULE FielderRaceProofs -------------------------
(***************************************************************************)
(* The safety properties of FielderRace, for every set of batsmen, every   *)
(* finite set of fielders and every number of overlapping balls.           *)
(*                                                                         *)
(* The argument counts votes.  A fielder is in flight from the moment it   *)
(* saw the ball up until it decremented the countdown.  The last voter has *)
(* left the flight when it lowers the ball, so at most N - 1 fielders are  *)
(* in flight when the next countdown starts at N: their late votes leave   *)
(* it at 1 or more until the new ball is up.  While a race is alone only   *)
(* one batsman is in it, and he is back before another one starts.         *)
(***************************************************************************)
EXTENDS FielderRace, FiniteSetTheorems, TLAPS

Counting == {f \in Fielders : fielder[f] = "countdown"}

\* Where the race stands: the program counter of the batsman who is in it.
NobodyInRace == \A b \in Batsmen : ~InRace(b)
Striker == CHOOSE b \in Batsmen : InRace(b)
Place == IF NobodyInRace THEN "ready" ELSE batsman[Striker]

\* At most one batsman is in a race that is alone.
OneBatsman == \A b, c \in Batsmen : InRace(b) /\ InRace(c) => b = c

\* Before the ball of the batsman is up.
BallDown == {"ready", "reset", "counter", "flag", "publish", "broadcast"}

\* Whoever lowers the ball is not in flight, and nobody joins the flight
\* while the ball is down: this much holds of every race.
FlightInv == ~ball_in_air => InFlight # Fielders

\* While a fielder resolves, the countdown is over, the batsman has not been
\* told, and he still waits unless the match ended.
ResolvingInv ==
    Resolvers # {} =>
        /\ fielders_remaining = 0
        /\ ~fielding_done
        /\ \/ Place \in Waiting
           \/ match_over /\ Place \in {"resolve", "ready"}

DoneInv == fielding_done =>
    /\ Place \in {"reset", "counter", "flag"} \/ fielders_remaining = 0
    /\ Resolvers = {}
    /\ Place \notin {"publish", "broadcast"}
    /\ ~match_over => ~ball_in_air

\* Between two races no vote can end a countdown.
BetweenInv ==
    /\ Place \in {"reset", "counter"} \/ (Place = "ready" /\ ~match_over)
           => fielders_remaining = 0 \/ InFlight = {}
    /\ Place \in {"reset", "counter"} => InFlight # Fielders
    /\ Place \in {"flag", "publish", "broadcast"}
           => Cardinality(InFlight) + 1 <= fielders_remaining

BallInv ==
    /\ Place \in BallDown /\ ~match_over => ~ball_in_air
    /\ ~match_over =>
           \A f \in Fielders : fielder[f] = "signal" => ~ball_in_air
    /\ Place = "resolve" /\ ~match_over => fielding_done

\* Until a slot is set, only fielders whose slot was wiped have counted.
VoteInv ==
    /\ (~fielding_done \/ Place = "flag")
           /\ Place \notin {"reset", "counter"} /\ Votes = {}
               => Cardinality(Counting) + 1 <= fielders_remaining
    /\ \A f \in Fielders : fielder[f] = "scan" => Votes # {}

OneResolver == \A f, g \in Resolvers : f = g

\* What holds of a race that is alone.
RaceInv ==
    /\ OneBatsman /\ OneResolver /\ ResolvingInv /\ DoneInv /\ BetweenInv
    /\ BallInv /\ VoteInv

\* What every race keeps, whoever is in it.
BaseInv ==
    /\ TypeOK
    /\ ending => match_over
    /\ \A b \in Batsmen : batsman[b] = "left" => match_over
    /\ FlightInv

IInv == BaseInv /\ (Alone => RaceInv)

-----------------------------------------------------------------------------
(* Cardinalities of sets of fielders.                                      *)

\* Sets of fielders are finite, and one that misses a fielder is smaller.
LEMMA FielderSets ==
    ASSUME NEW S \in SUBSET Fielders
    PROVE  /\ IsFiniteSet(S)
           /\ Cardinality(S) \in Nat
           /\ Cardinality(S) <= Cardinality(Fielders)
           /\ S # Fielders => Cardinality(S) + 1 <= Cardinality(Fielders)
<1>1. IsFiniteSet(S) /\ Cardinality(S) <= Cardinality(Fielders)
      /\ (Cardinality(Fielders) = Cardinality(S) => Fielders = S)
    BY FieldersAssumption, FS_Subset
<1>2. Cardinality(S) \in Nat /\ Cardinality(Fielders) \in Nat
    BY <1>1, FieldersAssumption, FS_CardinalityType
<1> QED
    BY <1>1, <1>2

\* There is at least one fielder to count.
LEMMA SomeFielders == Cardinality(Fielders) \in Nat \ {0}
BY FieldersAssumption, FS_CardinalityType, FS_EmptySet

\* A fielder that leaves a set of fielders makes it smaller by one.
LEMMA OneFielderLess ==
    ASSUME NEW S \in SUBSET Fielders, NEW f \in S
    PROVE  Cardinality(S \ {f}) + 1 = Cardinality(S)
<1>1. Cardinality(S \ {f}) = Cardinality(S) - 1
    BY FielderSets, FS_RemoveElement
<1> QED
    BY <1>1, FielderSets

\* Cardinality is monotone on sets of fielders.
LEMMA FielderSubsets ==
    ASSUME NEW S \in SUBSET Fielders, NEW T \in SUBSET S
    PROVE  Cardinality(T) <= Cardinality(S)
BY FielderSets, FS_Subset

-----------------------------------------------------------------------------
(* Where the race stands.                                                  *)

PlaceFollows ==
    /\ NobodyInRace => Place = "ready"
    /\ \A b \in Batsmen : InRace(b) => Place = batsman[b]

\* Place is the program counter of whoever is in the race.
LEMMA PlaceIs == OneBatsman => PlaceFollows
BY DEF OneBatsman, PlaceFollows, NobodyInRace, Place, Striker

\* A batsman outside a race is no place of it.
LEMMA PlaceType ==
    TypeOK /\ OneBatsman =>
        Place \in {"ready", "reset", "counter", "flag", "publish",
                   "broadcast", "await", "asleep", "resolve"}
BY PlaceIs DEF PlaceFollows, NobodyInRace, InRace, TypeOK

\* The race follows the batsman who is in it.
LEMMA PlaceMoves ==
    ASSUME TypeOK, OneBatsman, NEW b \in Batsmen, InRace(b),
           NEW pc, pc # "left", BatsmanGoesTo(b, pc)
    PROVE  Place = batsman[b] /\ Place' = pc /\ OneBatsman'
<1>1. \A c \in Batsmen : c # b => ~InRace(c) /\ batsman'[c] = batsman[c]
    BY DEF OneBatsman, BatsmanGoesTo, TypeOK
<1>2. batsman'[b] = pc
    BY DEF BatsmanGoesTo, TypeOK
<1>3. OneBatsman'
    BY <1>1 DEF OneBatsman, InRace
<1>4. (OneBatsman => PlaceFollows)'
    BY PlaceIs, PTL
<1>5. Place' = pc
    <2>1. CASE pc = "ready"
        BY <1>1, <1>2, <1>3, <1>4, <2>1 DEF PlaceFollows, NobodyInRace, InRace
    <2>2. CASE pc # "ready"
        BY <1>2, <1>3, <1>4, <2>2 DEF PlaceFollows, InRace
    <2> QED
        BY <2>1, <2>2
<1> QED
    BY <1>3, <1>5, PlaceIs DEF PlaceFollows

\* It stays where it is when nobody in it moves, and nobody joins it.
LEMMA PlaceStays ==
    ASSUME TypeOK, OneBatsman,
           \A c \in Batsmen : InRace(c) => batsman'[c] = batsman[c],
           \A c \in Batsmen : ~InRace(c) => batsman'[c] \in {"ready", "left"}
    PROVE  Place' = Place /\ OneBatsman'
<1>1. OneBatsman'
    BY DEF OneBatsman, InRace
<1>2. (OneBatsman => PlaceFollows)'
    BY PlaceIs, PTL
<1>3. CASE NobodyInRace
    BY <1>1, <1>2, <1>3, PlaceIs DEF PlaceFollows, NobodyInRace, InRace
<1>4. CASE ~NobodyInRace
    BY <1>1, <1>2, <1>4, PlaceIs DEF PlaceFollows, NobodyInRace, InRace
<1> QED
    BY <1>1, <1>3, <1>4

\* The broadcast of the last voter wakes the batsman who sleeps in it.
LEMMA PlaceWakes ==
    ASSUME TypeOK, OneBatsman, batsman' = WakeBatsmen(batsman)
    PROVE  /\ OneBatsman'
           /\ Place' = Place \/ (Place = "asleep" /\ Place' = "await")
<1>1. \A b \in Batsmen : batsman'[b] = IF batsman[b] = "asleep" THEN "await"
                                                              ELSE batsman[b]
    BY DEF WakeBatsmen
<1>2. OneBatsman'
    BY <1>1 DEF OneBatsman, InRace
<1>3. (OneBatsman => PlaceFollows)'
    BY PlaceIs, PTL
<1>4. CASE NobodyInRace
    BY <1>1, <1>2, <1>3, <1>4, PlaceIs DEF PlaceFollows, NobodyInRace, InRace
<1>5. CASE ~NobodyInRace
    <2>1. PICK b \in Batsmen : InRace(b)
        BY <1>5 DEF NobodyInRace
    <2>2. Place = batsman[b]
        BY <2>1, PlaceIs DEF PlaceFollows
    <2>3. InRace(b)' /\ Place' = batsman'[b]
        BY <1>1, <1>2, <1>3, <2>1 DEF PlaceFollows, InRace
    <2> QED
        BY <1>1, <1>2, <2>2, <2>3
<1> QED
    BY <1>4, <1>5

-----------------------------------------------------------------------------
(* Type correctness.                                                       *)

LEMMA TypeInit == Init => TypeOK
<1> SUFFICES ASSUME Init PROVE TypeOK
    OBVIOUS
<1>1. fielders_remaining \in 0 .. Cardinality(Fielders)
    BY SomeFielders DEF Init
<1>2. reach_ms \in [Fielders -> {Unset, Voted}]
    BY DEF Init
<1>3. /\ snapshot \in [Fielders -> FieldedShots \cup {NoShot}]
      /\ shot \in [Batsmen -> FieldedShots \cup {NoShot}]
    BY DEF Init
<1>4. fielder \in [Fielders -> {"gate", "asleep", "snapshot", "vote",
                               "countdown", "scan", "clear", "signal",
                               "exit"}]
    BY DEF Init
<1>5. overlaps \in 0 .. MaxOverlap
    BY OverlapAssumption DEF Init
<1> QED
    BY <1>1, <1>2, <1>3, <1>4, <1>5 DEF Init, TypeOK

LEMMA TypeStep == TypeOK /\ [Next]_vars => TypeOK'
<1> SUFFICES ASSUME TypeOK, [Next]_vars PROVE TypeOK'
    OBVIOUS
<1> USE SomeFielders, OverlapAssumption DEF TypeOK
<1>1. ASSUME NEW b \in Batsmen, PlayShot(b) PROVE TypeOK'
    <2>1. /\ batsman' \in [Batsmen -> {"ready", "reset", "counter", "flag",
                                       "publish", "broadcast", "await",
                                       "asleep", "resolve", "left"}]
          /\ shot' \in [Batsmen -> FieldedShots \cup {NoShot}]
        BY <1>1 DEF PlayShot, BatsmanGoesTo
    <2>2. overlaps' \in 0 .. MaxOverlap
        BY <1>1 DEF PlayShot
    <2> QED
        BY <1>1, <2>1, <2>2 DEF PlayShot, ends, board
<1>2. ASSUME NEW b \in Batsmen, Batsman(b) \/ DeadlinePasses(b) PROVE TypeOK'
    <2> USE DEF BatsmanGoesTo
    <2>1. CASE LeaveCrease(b)
        BY <2>1 DEF LeaveCrease, ends, board, local
    <2>2. CASE ResetBoard(b)
        BY <2>2 DEF ResetBoard, ends, local
    <2>3. CASE ResetCounter(b)
        <3>1. fielders_remaining' \in 0 .. Cardinality(Fielders)
            BY <2>3 DEF ResetCounter, VotesExpected
        <3> QED
            BY <2>3, <3>1 DEF ResetCounter, ends, board, local
    <2>4. CASE ResetFlag(b)
        BY <2>4 DEF ResetFlag, ends, board, local
    <2>5. CASE PublishShot(b)
        BY <2>5 DEF PublishShot, ends, local
    <2>6. CASE HitBall(b)
        BY <2>6 DEF HitBall, WakeFielders, ends, board, local
    <2>7. CASE AwaitRace(b)
        BY <2>7 DEF AwaitRace, ends, board, local
    <2>8. CASE ResolveOutcome(b)
        BY <2>8 DEF ResolveOutcome, ends, board
    <2>9. CASE DeadlinePasses(b)
        BY <2>9 DEF DeadlinePasses, ends, board, local
    <2> QED
        BY <1>2, <2>1, <2>2, <2>3, <2>4, <2>5, <2>6, <2>7, <2>8, <2>9
           DEF Batsman
<1>3. ASSUME NEW f \in Fielders, Fielder(f) PROVE TypeOK'
    <2>1. CASE WaitForBall(f) \/ WakeForBall(f) \/ LeaveField(f)
        BY <2>1 DEF WaitForBall, WakeForBall, LeaveField, GoTo, ends, board,
                    local
    <2>2. CASE SnapshotShot(f)
        BY <2>2 DEF SnapshotShot, GoTo, ends, board
    <2>3. CASE WriteSlot(f)
        BY <2>3 DEF WriteSlot, GoTo, ends, local
    <2>4. CASE CountDown(f)
        <3>1. fielders_remaining' \in 0 .. Cardinality(Fielders)
            BY <2>4 DEF CountDown
        <3> QED
            BY <2>4, <3>1 DEF CountDown, GoTo, ends, board
    <2>5. CASE ScanSlots(f)
        BY <2>5 DEF ScanSlots, GoTo, ends, local
    <2>6. CASE ClearBall(f)
        BY <2>6 DEF ClearBall, GoTo, ends, board, local
    <2>7. CASE SignalDone(f)
        BY <2>7 DEF SignalDone, WakeBatsmen, GoTo, ends, board
    <2> QED
        BY <1>3, <2>1, <2>2, <2>3, <2>4, <2>5, <2>6, <2>7 DEF Fielder
<1>4. CASE EndMatch
    BY <1>4 DEF EndMatch, board, local
<1>5. CASE BroadcastEnd
    BY <1>5 DEF BroadcastEnd, WakeFielders, board, local
<1>6. CASE AllJoined \/ UNCHANGED vars
    BY <1>6 DEF AllJoined, vars, ends, board, local
<1> QED
    BY <1>1, <1>2, <1>3, <1>4, <1>5, <1>6 DEF Next

\* Every reachable state is well typed, for every set of batsmen and of
\* fielders and every number of overlapping balls.
THEOREM TypeCorrect == Spec => []TypeOK
BY TypeInit, TypeStep, PTL DEF Spec

-----------------------------------------------------------------------------
(* The invariant.                                                          *)

LEMMA BaseInit == Init => BaseInv
<1> SUFFICES ASSUME Init PROVE BaseInv
    OBVIOUS
<1>1. InFlight = {}
    BY DEF Init, InFlight
<1> QED
    BY <1>1, TypeInit, FieldersAssumption DEF Init, BaseInv, FlightInv

LEMMA BaseStep == BaseInv /\ [Next]_vars => BaseInv'
<1> SUFFICES ASSUME BaseInv, [Next]_vars PROVE BaseInv'
    OBVIOUS
<1>1. TypeOK'
    BY TypeStep DEF BaseInv
<1> USE DEF BaseInv, TypeOK
<1>2. ASSUME NEW b \in Batsmen, PlayShot(b) \/ Batsman(b) \/ DeadlinePasses(b)
      PROVE  BaseInv'
    <2>1. InFlight' = InFlight
        BY <1>2 DEF PlayShot, Batsman, LeaveCrease, ResetBoard, ResetCounter,
                    ResetFlag, PublishShot, HitBall, WakeFielders, AwaitRace,
                    ResolveOutcome, DeadlinePasses, InFlight
    <2>2. ~ball_in_air' => ~ball_in_air
        BY <1>2 DEF PlayShot, Batsman, LeaveCrease, ResetBoard, ResetCounter,
                    ResetFlag, PublishShot, HitBall, AwaitRace,
                    ResolveOutcome, DeadlinePasses
    <2>3. /\ match_over' = match_over /\ ending' = ending
          /\ \A c \in Batsmen : batsman'[c] = "left" => match_over
        BY <1>2 DEF PlayShot, Batsman, LeaveCrease, ResetBoard, ResetCounter,
                    ResetFlag, PublishShot, HitBall, AwaitRace,
                    ResolveOutcome, DeadlinePasses, BatsmanGoesTo, ends
    <2> QED
        BY <1>1, <2>1, <2>2, <2>3 DEF FlightInv
<1>3. ASSUME NEW f \in Fielders, Fielder(f) PROVE BaseInv'
    <2>1. /\ match_over' = match_over /\ ending' = ending
          /\ \A b \in Batsmen : batsman'[b] = "left" => match_over
        BY <1>3 DEF Fielder, WaitForBall, WakeForBall, LeaveField,
                    SnapshotShot, WriteSlot, CountDown, ScanSlots, ClearBall,
                    SignalDone, WakeBatsmen, ends
    <2>2. CASE ClearBall(f)
        \* The fielder that lowers the ball is not in flight itself.
        <3>1. f \notin InFlight'
            BY <2>2 DEF ClearBall, GoTo, InFlight
        <3> QED
            BY <1>1, <2>1, <3>1 DEF FlightInv
    <2>3. CASE WakeForBall(f)
        BY <1>1, <2>1, <2>3 DEF WakeForBall, FlightInv
    <2>4. CASE CountDown(f)
        <3>1. f \notin InFlight'
            BY <2>4 DEF CountDown, GoTo, InFlight
        <3> QED
            BY <1>1, <2>1, <3>1 DEF FlightInv
    <2>5. CASE \/ WaitForBall(f) \/ LeaveField(f) \/ SnapshotShot(f)
               \/ WriteSlot(f) \/ ScanSlots(f) \/ SignalDone(f)
        <3>1. InFlight' = InFlight /\ ball_in_air' = ball_in_air
            BY <2>5 DEF WaitForBall, LeaveField, SnapshotShot, WriteSlot,
                        ScanSlots, SignalDone, GoTo, InFlight
        <3> QED
            BY <1>1, <2>1, <3>1 DEF FlightInv
    <2> QED
        BY <1>3, <2>2, <2>3, <2>4, <2>5 DEF Fielder
<1>4. CASE EndMatch \/ BroadcastEnd \/ AllJoined \/ UNCHANGED vars
    <2>1. InFlight' = InFlight /\ (~ball_in_air' => ~ball_in_air)
        BY <1>4 DEF EndMatch, BroadcastEnd, WakeFielders, AllJoined, vars,
                    InFlight
    <2>2. /\ ending' => match_over'
          /\ \A b \in Batsmen : batsman'[b] = "left" => match_over'
        BY <1>4 DEF EndMatch, BroadcastEnd, AllJoined, vars, ends
    <2> QED
        BY <1>1, <2>1, <2>2 DEF FlightInv
<1> QED
    BY <1>2, <1>3, <1>4 DEF Next

LEMMA RaceInit == Init => RaceInv
<1> SUFFICES ASSUME Init PROVE RaceInv
    OBVIOUS
<1>1. Resolvers = {} /\ InFlight = {} /\ Counting = {}
    BY DEF Init, Resolvers, InFlight, Counting
<1>2. OneBatsman /\ Place = "ready"
    BY DEF Init, OneBatsman, InRace, Place, NobodyInRace
<1>3. Cardinality(Counting) + 1 <= fielders_remaining
    BY <1>1, SomeFielders, FS_EmptySet DEF Init
<1> QED
    BY <1>1, <1>2, <1>3
       DEF Init, RaceInv, OneResolver, ResolvingInv, DoneInv, BetweenInv,
           BallInv, VoteInv, BallDown

\* A ball hit on a board at rest starts a race that is alone.
LEMMA StartStep ==
    ASSUME BaseInv, NEW b \in Batsmen, PlayShot(b), AtRest
    PROVE  RaceInv'
<1>1. OneBatsman /\ ~InRace(b)
    BY DEF AtRest, OneBatsman
<1>2. batsman'[b] = "reset" /\ \A c \in Batsmen \ {b} : ~InRace(c)'
    BY DEF PlayShot, BatsmanGoesTo, AtRest, InRace, BaseInv, TypeOK
<1>3. OneBatsman'
    BY <1>2 DEF OneBatsman
<1>4. Place' = "reset"
    <2>1. (OneBatsman => PlaceFollows)'
        BY PlaceIs, PTL
    <2> QED
        BY <1>2, <1>3, <2>1 DEF PlaceFollows, InRace
<1>5. Resolvers' = {} /\ InFlight' = InFlight /\ InFlight # Fielders
    BY DEF PlayShot, AtRest, Resolvers, InFlight, BaseInv, FlightInv
<1>6. /\ ~ball_in_air'
      /\ fielders_remaining' = 0 \/ InFlight' = {}
      /\ \A f \in Fielders : fielder'[f] \notin {"scan", "signal"}
    BY <1>5 DEF PlayShot, AtRest, InFlight, Resolvers
<1> QED
    BY <1>3, <1>4, <1>5, <1>6
       DEF PlayShot, AtRest, RaceInv, OneResolver, ResolvingInv, DoneInv,
           BetweenInv, BallInv, VoteInv, BallDown

\* Steps of the batsman who is in the race, and of those who leave.
LEMMA BatsmanStep ==
    ASSUME BaseInv, RaceInv, NEW b \in Batsmen,
           Batsman(b) \/ DeadlinePasses(b)
    PROVE  RaceInv'
<1> USE DEF BaseInv
<1>1. TypeOK'
    BY TypeStep DEF Next
<1>2. /\ InFlight \in SUBSET Fielders /\ Counting \in SUBSET InFlight
      /\ fielders_remaining \in Nat /\ Cardinality(Counting) \in Nat
      /\ Cardinality(InFlight) \in Nat
      /\ Cardinality(Counting) <= Cardinality(InFlight)
    BY FielderSets, FielderSubsets, SomeFielders DEF InFlight, Counting, TypeOK
<1>3. /\ Resolvers' = Resolvers /\ InFlight' = InFlight
      /\ Counting' = Counting
    BY DEF Batsman, LeaveCrease, ResetBoard, ResetCounter, ResetFlag,
           PublishShot, HitBall, WakeFielders, AwaitRace, ResolveOutcome,
           DeadlinePasses, Resolvers, InFlight, Counting, TypeOK
<1>4. \A f \in Fielders : fielder'[f] \in {"scan", "signal"}
                              => fielder'[f] = fielder[f]
    BY DEF Batsman, LeaveCrease, ResetBoard, ResetCounter, ResetFlag,
           PublishShot, HitBall, WakeFielders, AwaitRace, ResolveOutcome,
           DeadlinePasses, TypeOK
<1>5. OneResolver'
    BY <1>3 DEF RaceInv, OneResolver
<1>6. \A pc : /\ BatsmanGoesTo(b, pc) /\ InRace(b) /\ pc # "left"
              => /\ Place = batsman[b] /\ Place' = pc /\ OneBatsman'
    BY PlaceMoves DEF RaceInv
<1> USE <1>1, <1>2, <1>3, <1>4, <1>5
        DEF RaceInv, ResolvingInv, DoneInv, BetweenInv, BallInv, VoteInv,
            ends, board, local, Waiting, BallDown
<1>7. CASE LeaveCrease(b)
    <2>1. Place' = Place /\ OneBatsman'
        BY <1>7, PlaceStays
           DEF LeaveCrease, BatsmanGoesTo, InRace, TypeOK
    <2> QED
        BY <1>7, <2>1 DEF LeaveCrease, Votes
<1>8. CASE ResetBoard(b)
    <2>1. Place = "reset" /\ Place' = "counter" /\ OneBatsman'
        BY <1>6, <1>8 DEF ResetBoard, InRace
    <2>2. Resolvers = {}
        BY <2>1
    <2> QED
        BY <1>8, <2>1, <2>2 DEF ResetBoard, Resolvers
<1>9. CASE ResetCounter(b)
    <2>1. Place = "counter" /\ Place' = "flag" /\ OneBatsman'
        BY <1>6, <1>9 DEF ResetCounter, InRace
    <2>2. Resolvers = {}
        BY <2>1
    <2>3. Cardinality(InFlight) + 1 <= fielders_remaining'
        BY <1>9, <2>1, FielderSets DEF ResetCounter, VotesExpected
    <2>4. fielders_remaining' \in Nat
        BY SomeFielders DEF TypeOK
    <2> QED
        BY <1>9, <2>1, <2>2, <2>3, <2>4 DEF ResetCounter, Resolvers
<1>10. CASE ResetFlag(b)
    <2>1. Place = "flag" /\ Place' = "publish" /\ OneBatsman'
        BY <1>6, <1>10 DEF ResetFlag, InRace
    <2> QED
        BY <1>10, <2>1 DEF ResetFlag, Votes
<1>11. CASE PublishShot(b)
    <2>1. Place = "publish" /\ Place' = "broadcast" /\ OneBatsman'
        BY <1>6, <1>11 DEF PublishShot, InRace
    <2> QED
        BY <1>11, <2>1 DEF PublishShot, Votes
<1>12. CASE HitBall(b)
    <2>1. Place = "broadcast" /\ Place' = "await" /\ OneBatsman'
        BY <1>6, <1>12 DEF HitBall, InRace
    <2>2. Resolvers = {} /\ ~fielding_done
        BY <2>1
    <2> QED
        BY <1>12, <2>1, <2>2 DEF HitBall, Votes, Resolvers
<1>13. CASE AwaitRace(b)
    <2>1. /\ Place = "await" /\ OneBatsman'
          /\ Place' = IF fielding_done \/ match_over THEN "resolve"
                                                    ELSE "asleep"
        BY <1>6, <1>13 DEF AwaitRace, InRace
    <2> QED
        BY <1>13, <2>1 DEF AwaitRace, Votes
<1>14. CASE ResolveOutcome(b)
    <2>1. Place = "resolve" /\ Place' = "ready" /\ OneBatsman'
        BY <1>6, <1>14 DEF ResolveOutcome, InRace
    <2> QED
        BY <1>14, <2>1 DEF ResolveOutcome, Votes
<1>15. CASE DeadlinePasses(b)
    <2>1. Place = "asleep" /\ Place' = "await" /\ OneBatsman'
        BY <1>6, <1>15 DEF DeadlinePasses, InRace
    <2> QED
        BY <1>15, <2>1 DEF DeadlinePasses, Votes
<1> QED
    BY <1>7, <1>8, <1>9, <1>10, <1>11, <1>12, <1>13, <1>14, <1>15 DEF Batsman

\* Steps of one fielder.
LEMMA FielderStep ==
    ASSUME BaseInv, RaceInv, NEW f \in Fielders, Fielder(f)
    PROVE  RaceInv'
<1> USE DEF BaseInv
<1>1. TypeOK'
    BY TypeStep DEF Next
<1>2. /\ InFlight \in SUBSET Fielders
      /\ Counting \in SUBSET Fielders
    BY DEF InFlight, Counting
<1>3. (\A b \in Batsmen : batsman'[b] = batsman[b])
          => Place' = Place /\ OneBatsman'
    BY PlaceStays DEF RaceInv, InRace
<1> USE DEF GoTo, ends, board, local, Waiting, BallDown
<1>4. CASE WaitForBall(f) \/ LeaveField(f)
    <2>1. /\ Resolvers' = Resolvers /\ InFlight' = InFlight
          /\ Counting' = Counting
        BY <1>4 DEF WaitForBall, LeaveField, TypeOK, Resolvers, InFlight,
                    Counting
    <2>2. Place' = Place /\ OneBatsman'
        BY <1>3, <1>4 DEF WaitForBall, LeaveField
    <2> QED
        BY <1>1, <1>4, <2>1, <2>2
           DEF WaitForBall, LeaveField, RaceInv, TypeOK, OneResolver,
               ResolvingInv, DoneInv, BetweenInv, BallInv, VoteInv, Votes
<1>5. CASE WakeForBall(f)
    \* The ball is up, so the batsman is not between two races.
    <2>1. /\ Resolvers' = Resolvers /\ Counting' = Counting
        BY <1>5 DEF WakeForBall, TypeOK, Resolvers, Counting
    <2>2. Place' = Place /\ OneBatsman'
        BY <1>3, <1>5 DEF WakeForBall
    <2> QED
        BY <1>1, <1>5, <2>1, <2>2
           DEF WakeForBall, RaceInv, TypeOK, OneResolver, ResolvingInv,
               DoneInv, BetweenInv, BallInv, VoteInv, Votes
<1>6. CASE SnapshotShot(f)
    <2>1. /\ Resolvers' = Resolvers /\ InFlight' = InFlight
          /\ Counting' = Counting
        BY <1>6 DEF SnapshotShot, TypeOK, Resolvers, InFlight, Counting
    <2>2. Place' = Place /\ OneBatsman'
        BY <1>3, <1>6 DEF SnapshotShot
    <2> QED
        BY <1>1, <1>6, <2>1, <2>2
           DEF SnapshotShot, RaceInv, TypeOK, OneResolver, ResolvingInv,
               DoneInv, BetweenInv, BallInv, VoteInv, Votes
<1>7. CASE WriteSlot(f)
    <2>1. Resolvers' = Resolvers /\ InFlight' = InFlight
        BY <1>7 DEF WriteSlot, TypeOK, Resolvers, InFlight
    <2>2. f \in Votes'
        BY <1>7 DEF WriteSlot, TypeOK, Votes, Unset, Voted
    <2>3. Place' = Place /\ OneBatsman'
        BY <1>3, <1>7 DEF WriteSlot
    <2> QED
        BY <1>1, <1>7, <2>1, <2>2, <2>3
           DEF WriteSlot, RaceInv, TypeOK, OneResolver, ResolvingInv, DoneInv,
               BetweenInv, BallInv, VoteInv
<1>8. CASE CountDown(f)
    <2>1. /\ f \in InFlight /\ InFlight' = InFlight \ {f}
          /\ f \in Counting /\ Counting' = Counting \ {f}
        BY <1>8 DEF CountDown, TypeOK, InFlight, Counting
    <2>2. /\ Cardinality(InFlight') + 1 = Cardinality(InFlight)
          /\ Cardinality(Counting') + 1 = Cardinality(Counting)
          /\ Cardinality(InFlight') \in Nat
          /\ Cardinality(Counting') \in Nat
        BY <1>2, <2>1, OneFielderLess, FielderSets
    <2>3. fielders_remaining \in Nat /\ Votes' = Votes
        BY <1>8, SomeFielders DEF CountDown, TypeOK, Votes
    <2>4. Place' = Place /\ OneBatsman'
        BY <1>3, <1>8 DEF CountDown
    <2>5. BetweenInv' /\ BallInv'
        BY <1>8, <2>1, <2>2, <2>3, <2>4
           DEF CountDown, RaceInv, TypeOK, BetweenInv, BallInv
    <2>6. CASE fielders_remaining # 1
        <3>1. Resolvers' = Resolvers
            BY <1>8, <2>6 DEF CountDown, IsLastVote, TypeOK, Resolvers
        <3>2. VoteInv'
            BY <1>8, <2>2, <2>3, <2>4, <2>6
               DEF CountDown, IsLastVote, RaceInv, TypeOK, VoteInv, DoneInv
        <3> QED
            BY <1>1, <1>8, <2>3, <2>4, <2>5, <2>6, <3>1, <3>2
               DEF CountDown, RaceInv, OneResolver, ResolvingInv, DoneInv
    <2>7. CASE fielders_remaining = 1
        \* The last vote: no countdown was over, and the ball is up.
        <3>1. Place \notin {"reset", "counter", "flag", "publish",
                            "broadcast"}
            BY <2>1, <2>2, <2>7 DEF RaceInv, BetweenInv
        <3>2. Resolvers = {} /\ ~fielding_done
            BY <2>7, <3>1 DEF RaceInv, ResolvingInv, DoneInv
        <3>3. Resolvers' = {f}
            BY <1>8, <2>7, <3>2 DEF CountDown, IsLastVote, TypeOK, Resolvers
        <3>4. Place \in {"ready", "resolve"} => match_over
            BY <2>1, <2>7, <3>2 DEF RaceInv, BetweenInv, BallInv
        <3>5. Votes # {}
            BY <2>2, <2>7, <3>1, <3>2 DEF RaceInv, VoteInv
        <3>6. ResolvingInv'
            BY <1>8, <2>4, <2>7, <3>1, <3>2, <3>4, PlaceType
               DEF CountDown, RaceInv, ResolvingInv
        <3>7. VoteInv'
            BY <1>8, <2>3, <3>5 DEF CountDown, VoteInv
        <3>8. OneResolver' /\ DoneInv'
            BY <1>8, <3>2, <3>3 DEF CountDown, OneResolver, DoneInv
        <3> QED
            BY <1>1, <2>4, <2>5, <3>6, <3>7, <3>8 DEF RaceInv
    <2> QED
        BY <2>6, <2>7
<1>9. CASE ScanSlots(f)
    <2>1. /\ Resolvers' = Resolvers /\ InFlight' = InFlight
          /\ Counting' = Counting
        BY <1>9 DEF ScanSlots, TypeOK, Resolvers, InFlight, Counting
    <2>2. Place' = Place /\ OneBatsman'
        BY <1>3, <1>9 DEF ScanSlots
    <2> QED
        BY <1>1, <1>9, <2>1, <2>2
           DEF ScanSlots, RaceInv, TypeOK, OneResolver, ResolvingInv, DoneInv,
               BetweenInv, BallInv, VoteInv, Votes
<1>10. CASE ClearBall(f)
    <2>1. /\ Resolvers' = Resolvers /\ InFlight' = InFlight
          /\ Counting' = Counting
        BY <1>10 DEF ClearBall, TypeOK, Resolvers, InFlight, Counting
    <2>2. Place' = Place /\ OneBatsman'
        BY <1>3, <1>10 DEF ClearBall
    <2> QED
        BY <1>1, <1>10, <2>1, <2>2
           DEF ClearBall, RaceInv, TypeOK, OneResolver, ResolvingInv, DoneInv,
               BetweenInv, BallInv, VoteInv, Votes
<1>11. CASE SignalDone(f)
    <2>1. /\ InFlight' = InFlight /\ Counting' = Counting
          /\ f \in Resolvers /\ Resolvers' = Resolvers \ {f}
        BY <1>11 DEF SignalDone, TypeOK, Resolvers, InFlight, Counting
    <2>2. Resolvers' = {}
        BY <2>1 DEF RaceInv, OneResolver
    <2>3. /\ OneBatsman'
          /\ Place' = Place \/ (Place = "asleep" /\ Place' = "await")
        BY <1>11, PlaceWakes DEF SignalDone, RaceInv
    <2>4. fielding_done' /\ fielders_remaining = 0
        BY <1>11, <2>1 DEF SignalDone, RaceInv, ResolvingInv
    <2>5. Place \in Waiting \/ (match_over /\ Place \in {"resolve", "ready"})
        BY <2>1 DEF RaceInv, ResolvingInv
    <2>6. ResolvingInv' /\ OneResolver' /\ VoteInv'
        BY <1>11, <2>2, <2>3, <2>4, <2>5
           DEF SignalDone, ResolvingInv, OneResolver, VoteInv, Resolvers
    <2>7. ~match_over => ~ball_in_air
        BY <1>11 DEF SignalDone, RaceInv, BallInv
    <2>8. DoneInv' /\ BallInv'
        BY <1>11, <2>2, <2>3, <2>4, <2>5, <2>7
           DEF SignalDone, DoneInv, BallInv
    <2>9. BetweenInv'
        BY <1>11, <2>1, <2>3, <2>4, <2>5 DEF SignalDone, BetweenInv
    <2> QED
        BY <2>3, <2>6, <2>8, <2>9 DEF RaceInv
<1> QED
    BY <1>4, <1>5, <1>6, <1>7, <1>8, <1>9, <1>10, <1>11 DEF Fielder

\* Steps of whoever ends the match, and steps that change nothing.
LEMMA EndStep ==
    ASSUME BaseInv, RaceInv,
           EndMatch \/ BroadcastEnd \/ AllJoined \/ UNCHANGED vars
    PROVE  RaceInv'
<1>1. TypeOK'
    BY TypeStep DEF BaseInv, Next
<1>2. /\ Resolvers' = Resolvers /\ InFlight' = InFlight
      /\ Counting' = Counting
    BY DEF EndMatch, BroadcastEnd, WakeFielders, AllJoined, vars, BaseInv,
           TypeOK, Resolvers, InFlight, Counting
<1>3. batsman' = batsman
    BY DEF EndMatch, BroadcastEnd, AllJoined, vars
<1>4. Place' = Place /\ OneBatsman'
    BY <1>3, PlaceStays DEF BaseInv, RaceInv, InRace
<1> USE DEF ends, board, local, Waiting, BallDown, vars
<1>5. VoteInv' /\ OneResolver'
    BY <1>2, <1>4
       DEF EndMatch, BroadcastEnd, AllJoined, RaceInv, OneResolver, VoteInv,
           Votes, WakeFielders
<1> QED
    BY <1>1, <1>2, <1>4, <1>5
       DEF EndMatch, BroadcastEnd, AllJoined, BaseInv, RaceInv, ResolvingInv,
           DoneInv, BetweenInv, BallInv

\* The invariant holds in every reachable state.
THEOREM RaceInvariant == Spec => []IInv
<1>1. Init => IInv
    BY BaseInit, RaceInit DEF IInv
<1>2. ASSUME IInv, [Next]_vars PROVE IInv'
    <2>1. BaseInv /\ BaseInv'
        BY <1>2, BaseStep DEF IInv
    <2>2. ASSUME NEW b \in Batsmen, PlayShot(b), Alone' PROVE RaceInv'
        <3>1. AtRest
            BY <2>1, <2>2 DEF PlayShot, Alone, BaseInv, TypeOK
        <3> QED
            BY <2>1, <2>2, <3>1, StartStep
    <2>3. CASE \E b \in Batsmen : PlayShot(b)
        BY <2>1, <2>2, <2>3 DEF IInv
    <2>4. CASE ~\E b \in Batsmen : PlayShot(b)
        <3>1. overlaps' = overlaps
            BY <1>2, <2>4
               DEF Next, Batsman, LeaveCrease, ResetBoard, ResetCounter,
                   ResetFlag, PublishShot, HitBall, AwaitRace, ResolveOutcome,
                   DeadlinePasses, Fielder, WaitForBall, WakeForBall,
                   LeaveField, SnapshotShot, WriteSlot, CountDown, ScanSlots,
                   ClearBall, SignalDone, EndMatch, BroadcastEnd, AllJoined,
                   vars
        <3>2. RaceInv => RaceInv'
            BY <1>2, <2>1, <2>4, BatsmanStep, FielderStep, EndStep DEF Next
        <3> QED
            BY <1>2, <2>1, <3>1, <3>2 DEF IInv, Alone
    <2> QED
        BY <2>3, <2>4
<1> QED
    BY <1>1, <1>2, PTL DEF Spec

-----------------------------------------------------------------------------
(* The properties the runs check, for every set of batsmen and fielders.   *)

\* At most one fielder resolves a race that is alone (fielder_thread_func
\* 543-598).
THEOREM OneLastVoterHolds == Spec => []OneLastVoter
<1>1. IInv => OneLastVoter
    BY DEF IInv, RaceInv, OneResolver, OneLastVoter
<1> QED
    BY <1>1, RaceInvariant, PTL

\* Late votes of the previous ball never resolve a ball that is not in the
\* air yet (shot_state_reset against fielder_thread_func 531-543).
THEOREM RaceStartsWithHitHolds == Spec => []RaceStartsWithHit
<1>1. ASSUME IInv PROVE RaceStartsWithHit
    <2>1. SUFFICES ASSUME Alone, Resolvers # {}, ~match_over
                   PROVE  \E b \in Batsmen : batsman[b] \in Waiting
        BY DEF RaceStartsWithHit
    <2>2. Place \in Waiting /\ OneBatsman
        BY <1>1, <2>1 DEF IInv, RaceInv, ResolvingInv
    <2>3. ~NobodyInRace
        BY <2>2, PlaceIs DEF PlaceFollows, Waiting
    <2> QED
        BY <2>2, <2>3, PlaceIs DEF PlaceFollows, NobodyInRace
<1> QED
    BY <1>1, RaceInvariant, PTL

\* The scan of the last voter never runs over slots that are all reset.
THEOREM LastVoterFindsVoteHolds == Spec => []LastVoterFindsVote
<1>1. IInv => LastVoterFindsVote
    BY DEF IInv, RaceInv, VoteInv, LastVoterFindsVote
<1> QED
    BY <1>1, RaceInvariant, PTL

\* The batsman reads winner_idx when no fielder writes it any more.
THEOREM ResultIsSettledHolds == Spec => []ResultIsSettled
<1>1. ASSUME IInv PROVE ResultIsSettled
    <2>1. SUFFICES ASSUME Alone, ~match_over, NEW b \in Batsmen,
                          batsman[b] = "resolve"
                   PROVE  fielding_done /\ Resolvers = {}
        BY DEF ResultIsSettled
    <2>2. RaceInv
        BY <1>1, <2>1 DEF IInv
    <2>3. Place = "resolve"
        BY <2>1, <2>2, PlaceIs DEF RaceInv, PlaceFollows, InRace
    <2> QED
        BY <2>1, <2>2, <2>3 DEF RaceInv, BallInv, DoneInv
<1> QED
    BY <1>1, RaceInvariant, PTL

\* ball_in_air is down from the end of a race to the next hit.
THEOREM BallDownHolds == Spec => []BallDownBetweenRaces
<1>1. ASSUME IInv PROVE BallDownBetweenRaces
    <2>1. SUFFICES ASSUME Alone, ~match_over,
                          \A b \in Batsmen : batsman[b] \notin Waiting
                   PROVE  ~ball_in_air
        BY DEF BallDownBetweenRaces
    <2>2. RaceInv /\ TypeOK
        BY <1>1, <2>1 DEF IInv, BaseInv
    <2>3. Place \notin Waiting
        BY <2>1, <2>2, PlaceIs
           DEF RaceInv, PlaceFollows, NobodyInRace, Waiting
    <2>4. Place \in BallDown \cup {"resolve"}
        BY <2>2, <2>3, PlaceType DEF RaceInv, Waiting, BallDown
    <2> QED
        BY <2>1, <2>2, <2>4 DEF RaceInv, BallInv, DoneInv, BallDown
<1> QED
    BY <1>1, RaceInvariant, PTL

\* A race that is alone leaves the board at rest, so that the next one is
\* alone again: only a ball hit into a race that is not over takes the
\* properties above away.
RestAfterRace ==
    Alone /\ ~match_over /\ (\A b \in Batsmen : ~InRace(b)) => AtRest

THEOREM RestAfterRaceHolds == Spec => []RestAfterRace
<1>1. ASSUME IInv PROVE RestAfterRace
    <2>1. SUFFICES ASSUME Alone, ~match_over, NobodyInRace PROVE AtRest
        BY DEF RestAfterRace, NobodyInRace
    <2>2. RaceInv /\ Place = "ready"
        BY <1>1, <2>1 DEF IInv, Place
    <2> QED
        BY <2>1, <2>2
           DEF AtRest, NobodyInRace, RaceInv, ResolvingInv, BetweenInv,
               BallInv, BallDown, Waiting
<1> QED
    BY <1>1, RaceInvariant, PTL
=============================================================================
