------------------------ MODULE TeamSelectionProofs ------------------------
(***************************************************************************)
(* The two teams are what select_team asks for, and have nobody in common, *)
(* for pools of any size.                                                  *)
(***************************************************************************)
EXTENDS MatchSetup, SequenceTheorems, TLAPS

USE DEF teamVars, vars

-----------------------------------------------------------------------------
(* The rest of the program leaves the teams alone.                         *)

LEMMA SetupSelectsTeams == SetupSpec => Spec
<1>1. Init => InitTeams
    BY DEF Init
<1>2. [Next]_vars => [SelectTeams]_teamVars
    BY DEF Next, Select, ConstructEngine, RunInnings, Analyse
<1> QED
    BY <1>1, <1>2, PTL DEF SetupSpec, Spec

-----------------------------------------------------------------------------
(* What a pick does.                                                       *)

LEMMA KindsOfPlace ==
    ASSUME NEW i \in Places
    PROVE  PoolOf(i) \subseteq Kinds
BY DEF PoolOf, Kinds

\* The team that picks is longer by the player, and his kind has one less.
Joins(k, p) ==
    /\ \A t \in (1 .. 2) \ {Picker} : teams'[t] = teams[t]
    /\ teams'[Picker] = Append(teams[Picker], p)
    /\ \A h \in Kinds \ {k} : pool'[h] = pool[h]
    /\ pool'[k] = pool[k] - 1

LEMMA TakeCases ==
    ASSUME TeamTypeOK, place \in Places, picking \in {"A", "B"},
           NEW k \in KindsFor(place), Take(k)
    PROVE  /\ k \in Kinds /\ pool[k] > 0 /\ Picker \in 1 .. 2
           /\ \E p \in Player : p.kind = k /\ p.n = NextOf(k) /\ Joins(k, p)
           /\ pool' \in [Kinds -> Nat] /\ \A h \in Kinds : pool'[h] <= PoolSize[h]
           /\ teams' \in [1 .. 2 -> Seq(Player)]
<1>1. k \in Kinds /\ pool[k] > 0
    BY KindsOfPlace DEF KindsFor, Left
<1>2. Picker \in 1 .. 2
    BY DEF Picker
<1>3. PICK b \in ExpectedBalls[k] :
          teams' = [teams EXCEPT ![Picker] = Append(teams[Picker], Picked(k, b))]
    BY DEF Take
<1>4. pool' = [pool EXCEPT ![k] = pool[k] - 1]
    BY DEF Take
<1> DEFINE p == Picked(k, b)
<1>5. p \in Player /\ p.kind = k /\ p.n = NextOf(k)
  <2>1. b \in Nat
    BY <1>1, <1>3, PoolsAssumption
  <2>2. NextOf(k) \in Nat
    BY <1>1, PoolsAssumption DEF NextOf, TeamTypeOK
  <2> QED
    BY <1>1, <2>1, <2>2 DEF Picked, Player
<1>6. Joins(k, p)
    BY <1>1, <1>2, <1>3, <1>4 DEF Joins, TeamTypeOK
<1>7. pool' \in [Kinds -> Nat] /\ \A h \in Kinds : pool'[h] <= PoolSize[h]
  <2>1. pool[k] - 1 \in Nat /\ pool[k] - 1 <= pool[k]
    BY <1>1 DEF TeamTypeOK
  <2>2. pool' \in [Kinds -> Nat]
    BY <1>1, <1>4, <2>1 DEF TeamTypeOK
  <2>3. \A h \in Kinds : pool'[h] = IF h = k THEN pool[k] - 1 ELSE pool[h]
    BY <1>4 DEF TeamTypeOK
  <2>4. \A h \in Kinds : PoolSize[h] \in Nat /\ pool[h] \in Nat /\ pool[h] <= PoolSize[h]
    BY PoolsAssumption DEF TeamTypeOK
  <2> QED
    BY <1>1, <2>1, <2>2, <2>3, <2>4
<1>8. teams' = [teams EXCEPT ![Picker] = Append(teams[Picker], p)]
    BY <1>3
<1> HIDE DEF p
<1>9. teams' \in [1 .. 2 -> Seq(Player)]
  <2>1. Append(teams[Picker], p) \in Seq(Player)
    BY <1>2, <1>5, AppendProperties DEF TeamTypeOK
  <2> QED
    BY <1>8, <2>1 DEF TeamTypeOK
<1> QED
    BY <1>1, <1>2, <1>5, <1>6, <1>7, <1>9

LEMMA AppendedPlayers ==
    ASSUME NEW s \in Seq(Player), NEW p \in Player
    PROVE  /\ DOMAIN Append(s, p) = DOMAIN s \cup {Len(s) + 1}
           /\ Len(Append(s, p)) = Len(s) + 1
           /\ \A i \in DOMAIN s : i # Len(s) + 1 /\ Append(s, p)[i] = s[i]
           /\ Append(s, p)[Len(s) + 1] = p
BY AppendProperties

-----------------------------------------------------------------------------
(* Nobody is picked twice: whoever has been picked has a lower number than *)
(* the next of his kind.                                                   *)

PickedBefore ==
    \A t \in 1 .. 2 : \A i \in DOMAIN teams[t] :
        teams[t][i].n <= PoolSize[teams[t][i].kind] - pool[teams[t][i].kind]

PickInv == TeamTypeOK /\ PickedBefore /\ NobodyPickedTwice

LEMMA PickInvInit == InitTeams => PickInv
<1> SUFFICES ASSUME InitTeams PROVE PickInv
    OBVIOUS
<1>1. \A t \in 1 .. 2 : teams[t] = <<>> /\ teams[t] \in Seq(Player)
    BY DEF InitTeams
<1>2. TeamTypeOK
    BY <1>1, PoolsAssumption DEF InitTeams, TeamTypeOK
<1> QED
    BY <1>1, <1>2 DEF PickInv, PickedBefore, NobodyPickedTwice

LEMMA TakeKeepsPickInv ==
    ASSUME PickInv, place \in Places, picking \in {"A", "B"},
           NEW k \in KindsFor(place), Take(k)
    PROVE  PickedBefore' /\ NobodyPickedTwice'
<1>0. TeamTypeOK
    BY DEF PickInv
<1>1. /\ k \in Kinds /\ pool[k] > 0 /\ Picker \in 1 .. 2
      /\ \E p \in Player : p.kind = k /\ p.n = NextOf(k) /\ Joins(k, p)
    BY <1>0, TakeCases
<1>2. PICK p \in Player : p.kind = k /\ p.n = NextOf(k) /\ Joins(k, p)
    BY <1>1
<1> DEFINE c == Picker
           e == Len(teams[c]) + 1
<1> HIDE DEF c
<1>3. c \in 1 .. 2
    BY <1>1 DEF c
<1>4. /\ DOMAIN teams'[c] = DOMAIN teams[c] \cup {e}
      /\ \A i \in DOMAIN teams[c] : i # e /\ teams'[c][i] = teams[c][i]
      /\ teams'[c][e] = p
  <2>1. teams[c] \in Seq(Player)
    BY <1>0, <1>3 DEF TeamTypeOK
  <2>2. teams'[c] = Append(teams[c], p)
    BY <1>2 DEF Joins, c
  <2> QED
    BY <1>2, <2>1, <2>2, AppendedPlayers
<1>5. \A t \in (1 .. 2) \ {c} : teams'[t] = teams[t]
    BY <1>2 DEF Joins, c
<1> HIDE DEF e
<1>6. \A t \in 1 .. 2 : \A i \in DOMAIN teams'[t] :
          \/ i \in DOMAIN teams[t] /\ teams'[t][i] = teams[t][i]
          \/ t = c /\ i = e /\ teams'[t][i] = p
    BY <1>4, <1>5
<1>7. \A t \in 1 .. 2 : \A i \in DOMAIN teams[t] : teams[t][i] \in Player
    BY <1>0, ElementOfSeq DEF TeamTypeOK
<1>8. /\ \A h \in Kinds : PoolSize[h] \in Nat /\ pool[h] \in Nat
      /\ \A h \in Kinds \ {k} : pool'[h] = pool[h]
      /\ pool'[k] = pool[k] - 1
    BY <1>0, <1>2, PoolsAssumption DEF Joins, TeamTypeOK
<1>9. p.n = PoolSize[k] - pool[k] + 1
    BY <1>2 DEF NextOf
<1>10. \A t \in 1 .. 2 : \A i \in DOMAIN teams[t] : Id(teams[t][i]) # Id(p)
  <2>1. SUFFICES ASSUME NEW t \in 1 .. 2, NEW i \in DOMAIN teams[t],
                        teams[t][i].kind = p.kind
                 PROVE  teams[t][i].n # p.n
    BY DEF Id
  <2>2. teams[t][i].n \in Nat /\ teams[t][i].n <= PoolSize[k] - pool[k]
    BY <1>2, <1>7, <2>1 DEF PickInv, PickedBefore, Player
  <2> QED
    BY <1>1, <1>8, <1>9, <2>2
<1>11. PickedBefore'
  <2>1. SUFFICES ASSUME NEW t \in 1 .. 2, NEW i \in DOMAIN teams'[t]
                 PROVE  teams'[t][i].n <= PoolSize[teams'[t][i].kind]
                                          - pool'[teams'[t][i].kind]
    BY DEF PickedBefore
  <2>2. CASE i \in DOMAIN teams[t] /\ teams'[t][i] = teams[t][i]
    <3> DEFINE q == teams[t][i]
    <3>1. /\ q.kind \in Kinds /\ q.n \in Nat
          /\ q.n <= PoolSize[q.kind] - pool[q.kind]
      BY <1>7, <2>2 DEF PickInv, PickedBefore, Player
    <3> HIDE DEF q
    <3>2. q.n <= PoolSize[q.kind] - pool'[q.kind]
      BY <1>1, <1>8, <3>1
    <3> QED
      BY <2>2, <3>2 DEF q
  <2>3. CASE teams'[t][i] = p
    BY <1>1, <1>2, <1>8, <1>9, <2>3
  <2> QED
    BY <1>6, <2>2, <2>3
<1>12. NobodyPickedTwice'
  <2>1. SUFFICES ASSUME NEW t \in 1 .. 2, NEW u \in 1 .. 2,
                        NEW i \in DOMAIN teams'[t], NEW j \in DOMAIN teams'[u],
                        Id(teams'[t][i]) = Id(teams'[u][j])
                 PROVE  t = u /\ i = j
    BY DEF NobodyPickedTwice, Id
  <2>2. CASE /\ i \in DOMAIN teams[t] /\ teams'[t][i] = teams[t][i]
             /\ j \in DOMAIN teams[u] /\ teams'[u][j] = teams[u][j]
    BY <2>1, <2>2 DEF PickInv, NobodyPickedTwice
  <2> QED
    BY <1>6, <1>10, <2>1, <2>2
<1> QED
    BY <1>11, <1>12

LEMMA PickInvStep == PickInv /\ [SelectTeams]_teamVars => PickInv'
<1> SUFFICES ASSUME PickInv, [SelectTeams]_teamVars PROVE PickInv'
    OBVIOUS
<1>0. TeamTypeOK
    BY DEF PickInv
<1>1. CASE UNCHANGED <<pool, teams>> /\ TeamTypeOK'
    BY <1>1 DEF PickInv, PickedBefore, NobodyPickedTwice, Id
<1>2. CASE CheckPools
  <2>1. UNCHANGED <<pool, teams, place>> /\ picking' \in {"A", "exit"}
    BY <1>2 DEF CheckPools
  <2>2. TeamTypeOK'
    BY <1>0, <2>1 DEF TeamTypeOK
  <2> QED
    BY <1>1, <2>1, <2>2
<1>3. CASE TeamComplete
  <2>1. UNCHANGED <<pool, teams>>
    BY <1>3 DEF TeamComplete, KeepPools
  <2>2. place' \in 1 .. 12 /\ picking' \in {"B", "picked"}
    BY <1>0, <1>3 DEF TeamComplete, TeamTypeOK
  <2>3. TeamTypeOK'
    BY <1>0, <2>1, <2>2 DEF TeamTypeOK
  <2> QED
    BY <1>1, <2>1, <2>3
<1>4. CASE Pick
  <2>1. /\ picking \in {"A", "B"} /\ place \in Places /\ UNCHANGED picking
        /\ place' \in 1 .. 12
    BY <1>4 DEF Pick, Places
  <2>2. CASE UNCHANGED <<pool, teams>>
    BY <1>0, <1>1, <2>1, <2>2 DEF TeamTypeOK
  <2>3. CASE \E k \in KindsFor(place) : Take(k)
    <3>1. PICK k \in KindsFor(place) : Take(k)
      BY <2>3
    <3>2. TeamTypeOK'
      BY <1>0, <2>1, <3>1, TakeCases DEF TeamTypeOK
    <3>3. PickedBefore' /\ NobodyPickedTwice'
      BY <2>1, <3>1, TakeKeepsPickInv
    <3> QED
      BY <3>2, <3>3 DEF PickInv
  <2> QED
    BY <1>4, <2>2, <2>3 DEF Pick
<1>5. CASE UNCHANGED teamVars
    BY <1>0, <1>1, <1>5 DEF TeamTypeOK
<1> QED
    BY <1>2, <1>3, <1>4, <1>5 DEF SelectTeams

\* A player plays for one team and has one place in it.
THEOREM NobodyPickedTwiceHolds == SetupSpec => []NobodyPickedTwice
<1>1. PickInv => NobodyPickedTwice
    BY DEF PickInv
<1> QED
    BY <1>1, PickInvInit, PickInvStep, SetupSelectsTeams, PTL DEF Spec

-----------------------------------------------------------------------------
(* Both teams have one player in every role, if there are two players of   *)
(* each kind that is asked for first.  The places are filled in turn, so   *)
(* that the first team has taken one of each kind, and no more, before the *)
(* second begins.                                                          *)

EnoughOfEach == \A i \in Places : PoolSize[Filled[i]] >= 2

InRole(t) == \A i \in DOMAIN teams[t] : i \in Places /\ teams[t][i].kind = Filled[i]

Stock(n, m) ==
    \A i \in Places : pool[Filled[i]] >= IF i >= place THEN n ELSE m

RoleInv ==
    /\ \A t \in 1 .. 2 : InRole(t)
    /\ picking = "check" =>
          place = 1 /\ Len(teams[1]) = 0 /\ Len(teams[2]) = 0 /\ Stock(2, 2)
    /\ picking = "A" =>
          Len(teams[1]) = place - 1 /\ Len(teams[2]) = 0 /\ Stock(2, 1)
    /\ picking = "B" =>
          Len(teams[1]) = 11 /\ Len(teams[2]) = place - 1 /\ Stock(1, 0)
    /\ picking = "picked" => Len(teams[1]) = 11 /\ Len(teams[2]) = 11

LEMMA FilledKinds ==
    /\ \A i \in Places : Filled[i] \in PoolOf(i) /\ Filled[i] \in Kinds
    /\ \A i, j \in Places : Filled[i] = Filled[j] => i = j
    /\ \A k \in PoolOf(6) : k = Filled[6]
<1>1. \A i \in Places : Filled[i] \in PoolOf(i)
    BY DEF Places, Filled, PoolOf, BatsmanKinds, KeeperKinds, AllRounderKinds, BowlerKinds
<1>2. \A i, j \in Places : Filled[i] = Filled[j] => i = j
    BY DEF Places, Filled
<1>3. \A k \in PoolOf(6) : k = Filled[6]
    BY DEF Filled, PoolOf, KeeperKinds
<1> QED
    BY <1>1, <1>2, <1>3, KindsOfPlace

LEMMA FirstWish ==
    ASSUME NEW i \in Places, i # 6
    PROVE  /\ DOMAIN Wishes[i] \subseteq Nat \ {0} /\ 1 \in DOMAIN Wishes[i]
           /\ Wishes[i][1] = Filled[i]
BY DEF Places, Wishes, Filled

\* A pick gets the kind that is asked for first as long as there is one.
LEMMA OnlyFilled ==
    ASSUME NEW i \in Places, pool[Filled[i]] > 0
    PROVE  Left(i) # {} /\ \A k \in KindsFor(i) : k = Filled[i]
<1>1. Filled[i] \in Left(i)
    BY FilledKinds DEF Left
<1>2. CASE i = 6
    BY <1>1, <1>2, FilledKinds DEF KindsFor, Left
<1>3. CASE i # 6
  <2>1. SUFFICES ASSUME NEW k \in KindsFor(i) PROVE k = Filled[i]
    BY <1>1
  <2>2. ~ \A j \in DOMAIN Wishes[i] : Wishes[i][j] \notin Left(i)
    BY <1>1, <1>3, FirstWish
  <2>3. PICK j \in DOMAIN Wishes[i] :
            Wishes[i][j] = k /\ \A h \in 1 .. j - 1 : Wishes[i][h] \notin Left(i)
    BY <2>1, <2>2 DEF KindsFor
  <2>4. j = 1
    <3>1. j \in Nat \ {0} /\ Wishes[i][1] \in Left(i)
      BY <1>1, <1>3, <2>3, FirstWish
    <3>2. 1 \notin 1 .. j - 1
      BY <2>3, <3>1
    <3> QED
      BY <3>1, <3>2
  <2> QED
    BY <1>3, <2>3, <2>4, FirstWish
<1> QED
    BY <1>2, <1>3

LEMMA RoleInvInit ==
    ASSUME InitTeams, EnoughOfEach
    PROVE  RoleInv
<1>1. \A t \in 1 .. 2 : teams[t] = <<>>
    BY DEF InitTeams
<1>2. Stock(2, 2)
    BY DEF InitTeams, EnoughOfEach, Stock
<1> QED
    BY <1>1, <1>2 DEF InitTeams, RoleInv, InRole

LEMMA PickKeepsRoleInv ==
    ASSUME TeamTypeOK, RoleInv, Pick
    PROVE  RoleInv'
<1>1. /\ picking \in {"A", "B"} /\ place \in Places
      /\ place' = place + 1 /\ picking' = picking
    BY DEF Pick
<1> DEFINE k == Filled[place]
<1>2. k \in Kinds /\ \A i \in Places : Filled[i] \in Kinds /\ (Filled[i] = k => i = place)
    BY <1>1, FilledKinds
<1>3. pool[k] > 0
  <2>1. place >= place
    BY <1>1 DEF Places
  <2>2. pool[k] >= 2 \/ pool[k] >= 1
    BY <1>1, <2>1 DEF RoleInv, Stock
  <2>3. pool[k] \in Nat
    BY <1>2 DEF TeamTypeOK
  <2> HIDE DEF k
  <2> QED
    BY <2>2, <2>3
<1> HIDE DEF k
<1>4. k \in KindsFor(place) /\ Take(k)
    BY <1>1, <1>3, OnlyFilled DEF Pick, k
<1>5. PICK p \in Player : p.kind = k /\ Joins(k, p)
    BY <1>1, <1>4, TakeCases
<1>6. /\ \A h \in Kinds : pool[h] \in Nat
      /\ \A h \in Kinds \ {k} : pool'[h] = pool[h]
      /\ pool'[k] = pool[k] - 1
    BY <1>5 DEF Joins, TeamTypeOK
<1>7. \A t \in 1 .. 2 : teams[t] \in Seq(Player)
    BY DEF TeamTypeOK
<1>8. ASSUME NEW n \in 1 .. 2, Stock(n, n - 1) PROVE Stock(n, n - 1)'
  <2>1. SUFFICES ASSUME NEW i \in Places
                 PROVE  pool'[Filled[i]] >= IF i >= place' THEN n ELSE n - 1
    BY DEF Stock
  <2>2. CASE i = place
    <3>1. pool[k] >= n
      BY <1>1, <1>8, <2>2 DEF Stock, k, Places
    <3> QED
      BY <1>1, <1>2, <1>6, <2>2, <3>1 DEF k, Places
  <2>3. CASE i # place
    BY <1>1, <1>2, <1>6, <1>8, <2>3 DEF Stock, Places
  <2> QED
    BY <2>2, <2>3
<1>9. ASSUME Len(teams[Picker]) = place - 1
      PROVE  Len(teams'[Picker]) = place' - 1 /\ \A t \in 1 .. 2 : InRole(t)'
  <2>1. Picker \in 1 .. 2
    BY DEF Picker
  <2>2. teams'[Picker] = Append(teams[Picker], p)
    BY <1>5 DEF Joins
  <2>3. Len(teams[Picker]) + 1 = place
    BY <1>1, <1>9 DEF Places
  <2>4. /\ DOMAIN teams'[Picker] = DOMAIN teams[Picker] \cup {place}
        /\ Len(teams'[Picker]) = place
        /\ \A i \in DOMAIN teams[Picker] : teams'[Picker][i] = teams[Picker][i]
        /\ teams'[Picker][place] = p
    BY <1>7, <2>1, <2>2, <2>3, AppendedPlayers
  <2>5. Len(teams'[Picker]) = place' - 1
    BY <1>1, <2>4 DEF Places
  <2>6. SUFFICES ASSUME NEW t \in 1 .. 2, NEW i \in DOMAIN teams'[t]
                 PROVE  i \in Places /\ teams'[t][i].kind = Filled[i]
    BY <2>5 DEF InRole
  <2>7. CASE t # Picker
    BY <1>5, <2>6, <2>7 DEF Joins, RoleInv, InRole
  <2>8. CASE t = Picker /\ i = place
    BY <1>1, <1>5, <2>4, <2>8 DEF k
  <2>9. CASE t = Picker /\ i \in DOMAIN teams[Picker]
    BY <2>1, <2>4, <2>9 DEF RoleInv, InRole
  <2> QED
    BY <2>4, <2>6, <2>7, <2>8, <2>9
<1>10. CASE picking = "A"
  <2>1. Picker = 1 /\ teams'[2] = teams[2]
    BY <1>5, <1>10 DEF Picker, Joins
  <2>2. Len(teams'[1]) = place' - 1 /\ \A t \in 1 .. 2 : InRole(t)'
    BY <1>9, <1>10, <2>1 DEF RoleInv
  <2>3. Stock(2, 1)'
    BY <1>8, <1>10 DEF RoleInv
  <2> QED
    BY <1>1, <1>10, <2>1, <2>2, <2>3 DEF RoleInv
<1>11. CASE picking = "B"
  <2>1. Picker = 2 /\ teams'[1] = teams[1]
    BY <1>5, <1>11 DEF Picker, Joins
  <2>2. Len(teams'[2]) = place' - 1 /\ \A t \in 1 .. 2 : InRole(t)'
    BY <1>9, <1>11, <2>1 DEF RoleInv
  <2>3. Stock(1, 0)'
    BY <1>8, <1>11 DEF RoleInv
  <2> QED
    BY <1>1, <1>11, <2>1, <2>2, <2>3 DEF RoleInv
<1> QED
    BY <1>1, <1>10, <1>11

LEMMA RoleInvStep == TeamTypeOK /\ RoleInv /\ [SelectTeams]_teamVars => RoleInv'
<1> SUFFICES ASSUME TeamTypeOK, RoleInv, [SelectTeams]_teamVars PROVE RoleInv'
    OBVIOUS
<1>1. \A i \in Places : pool[Filled[i]] \in Nat
    BY FilledKinds DEF TeamTypeOK
<1>2. CASE CheckPools
  <2>1. /\ picking = "check" /\ picking' \in {"A", "exit"}
        /\ UNCHANGED <<pool, teams, place>>
    BY <1>2 DEF CheckPools
  <2>2. place = 1 /\ Len(teams[1]) = 0 /\ Len(teams[2]) = 0 /\ Stock(2, 2)
    BY <2>1 DEF RoleInv
  <2>3. Stock(2, 1)'
    BY <1>1, <2>1, <2>2 DEF Stock
  <2>4. \A t \in 1 .. 2 : InRole(t)'
    BY <2>1 DEF RoleInv, InRole
  <2> QED
    BY <2>1, <2>2, <2>3, <2>4 DEF RoleInv
<1>3. CASE TeamComplete
  <2>1. /\ picking \in {"A", "B"} /\ place = 12 /\ UNCHANGED <<pool, teams>>
        /\ IF picking = "A" THEN picking' = "B" /\ place' = 1
                            ELSE picking' = "picked"
    BY <1>3 DEF TeamComplete, KeepPools, TeamTypeOK, Places
  <2>2. \A t \in 1 .. 2 : InRole(t)'
    BY <2>1 DEF RoleInv, InRole
  <2>3. CASE picking = "A"
    <3>1. Len(teams[1]) = 11 /\ Len(teams[2]) = 0 /\ Stock(2, 1)
      BY <2>1, <2>3 DEF RoleInv
    <3>2. \A i \in Places : pool[Filled[i]] >= 1
      <4>1. \A i \in Places : ~ (i >= place)
        BY <2>1 DEF Places
      <4> QED
        BY <3>1, <4>1 DEF Stock
    <3>3. Stock(1, 0)'
      <4>1. \A i \in Places : pool'[Filled[i]] >= 1 /\ pool'[Filled[i]] >= 0
        BY <1>1, <2>1, <3>2
      <4> QED
        BY <4>1 DEF Stock
    <3> QED
      BY <2>1, <2>2, <2>3, <3>1, <3>3 DEF RoleInv
  <2>4. CASE picking = "B"
    <3>1. Len(teams[1]) = 11 /\ Len(teams[2]) = 11
      BY <2>1, <2>4 DEF RoleInv
    <3> QED
      BY <2>1, <2>2, <2>4, <3>1 DEF RoleInv
  <2> QED
    BY <2>1, <2>3, <2>4
<1>4. CASE Pick
    BY <1>4, PickKeepsRoleInv
<1>5. CASE UNCHANGED teamVars
    BY <1>5 DEF RoleInv, InRole, Stock
<1> QED
    BY <1>2, <1>3, <1>4, <1>5 DEF SelectTeams

\* Each team has eleven players, one in every role, also the team that picks
\* from what the other one has left.
THEOREM TeamsAreBalancedHolds ==
    ASSUME EnoughOfEach
    PROVE  SetupSpec => []TeamsAreBalanced
<1>1. InitTeams => RoleInv
    BY RoleInvInit
<1>2. PickInv => TeamTypeOK
    BY DEF PickInv
<1>3. TeamTypeOK /\ RoleInv => TeamsAreBalanced
  <2>1. SUFFICES ASSUME TeamTypeOK, RoleInv, picking = "picked", NEW t \in 1 .. 2
                 PROVE  Len(teams[t]) = 11
                        /\ \A i \in Places : teams[t][i].kind = Filled[i]
    BY DEF TeamsAreBalanced
  <2>2. Len(teams[t]) = 11 /\ InRole(t)
    BY <2>1 DEF RoleInv
  <2>3. DOMAIN teams[t] = Places
    BY <2>1, <2>2, LenProperties DEF TeamTypeOK, Places
  <2> QED
    BY <2>2, <2>3 DEF InRole
<1> QED
    BY <1>1, <1>2, <1>3, PickInvInit, PickInvStep, RoleInvStep, SetupSelectsTeams, PTL DEF Spec
=============================================================================
