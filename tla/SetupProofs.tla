----------------------------- MODULE SetupProofs -----------------------------
(***************************************************************************)
(* What the engine makes of the two teams, for pools of any size and any   *)
(* burst times: the fielders of both innings and the analysis of waiting   *)
(* times.  The loops of the program are recursive functions here, and what *)
(* they compute is proved by induction.  The provers cannot instantiate    *)
(* the induction theorems of the library, which have an operator as a      *)
(* parameter, but a set will do: every step of an induction is about the   *)
(* set of the numbers for which the claim holds.                           *)
(***************************************************************************)
EXTENDS TeamSelectionProofs, FiniteSetTheorems, FunctionTheorems, WellFoundedInduction

-----------------------------------------------------------------------------
(* Induction.                                                              *)

LEMMA LeastNumber ==
    ASSUME NEW T \in SUBSET Nat, T # {}
    PROVE  \E m \in T : \A k \in T : m <= k
<1> DEFINE R == OpToRel(<, Nat)
<1>1. \A m, k \in Nat : k < m => <<k, m>> \in R
    BY DEF OpToRel
<1>2. IsWellFoundedOn(R, Nat)
    BY NatLessThanWellFounded
<1> HIDE DEF R
<1>3. PICK m \in T : \A k \in T : <<k, m>> \notin R
    BY <1>2, WFMin
<1>4. ASSUME NEW k \in T PROVE m <= k
  <2>1. m \in Nat /\ k \in Nat
    OBVIOUS
  <2>2. ~ (k < m)
    BY <1>1, <1>3, <2>1
  <2> QED
    BY <2>1, <2>2
<1> QED
    BY <1>4

LEMMA SetInduction ==
    ASSUME NEW T, 0 \in T, \A n \in Nat : n \in T => n + 1 \in T
    PROVE  Nat \subseteq T
<1> SUFFICES ASSUME Nat \ T # {} PROVE FALSE
    OBVIOUS
<1>1. PICK m \in Nat \ T : \A k \in Nat \ T : m <= k
    BY LeastNumber
<1>2. m - 1 \in Nat
    OBVIOUS
<1>3. m - 1 \in T
    BY <1>1, <1>2
<1> QED
    BY <1>2, <1>3

\* Up to a bound: from 0 to n.
LEMMA BoundedInduction ==
    ASSUME NEW n \in Nat, NEW T, 0 \in T,
           \A i \in 0 .. n : i # n /\ i \in T => i + 1 \in T
    PROVE  0 .. n \subseteq T
<1> DEFINE U == {i \in Nat : i <= n => i \in T}
<1>1. 0 \in U
    OBVIOUS
<1>2. \A i \in Nat : i \in U => i + 1 \in U
    OBVIOUS
<1> HIDE DEF U
<1>3. Nat \subseteq U
    BY <1>1, <1>2, SetInduction
<1> QED
    BY <1>3 DEF U

-----------------------------------------------------------------------------
(* The loops that keep some of the elements of a sequence.                 *)

IsLoop(g, s, I) ==
    /\ g[0] = <<>>
    /\ \A i \in 1 .. Len(s) :
          g[i] = IF i \in I THEN Append(g[i - 1], s[i]) ELSE g[i - 1]

LEMMA LoopExists ==
    ASSUME NEW S, NEW s \in Seq(S), NEW I
    PROVE  \E g : IsLoop(g, s, I) /\ At(s, I) = g[Len(s)]
<1> DEFINE n == Len(s)
           Good(g, m) ==
               /\ g[0] = <<>>
               /\ \A i \in 1 .. m :
                     g[i] = IF i \in I THEN Append(g[i - 1], s[i]) ELSE g[i - 1]
           T == {m \in 0 .. n : \E g : g = [i \in 0 .. n |-> g[i]] /\ Good(g, m)}
<1>1. n \in Nat
    BY LenProperties
<1> HIDE DEF n
<1>2. 0 \in T
  <2> DEFINE g == [i \in 0 .. n |-> <<>>]
  <2>1. g = [i \in 0 .. n |-> g[i]]
    OBVIOUS
  <2>2. g[0] = <<>>
    BY <1>1
  <2>3. \A i \in 1 .. 0 : FALSE
    OBVIOUS
  <2> HIDE DEF g
  <2>4. Good(g, 0)
    BY <2>2, <2>3
  <2> QED
    BY <1>1, <2>1, <2>4
<1>3. ASSUME NEW m \in 0 .. n, m # n, m \in T PROVE m + 1 \in T
  <2>1. PICK g : g = [i \in 0 .. n |-> g[i]] /\ Good(g, m)
    BY <1>3
  <2> DEFINE v == IF m + 1 \in I THEN Append(g[m], s[m + 1]) ELSE g[m]
  <2> HIDE DEF v
  <2> DEFINE h == [i \in 0 .. n |-> IF i = m + 1 THEN v ELSE g[i]]
  <2>2. h = [i \in 0 .. n |-> h[i]]
    OBVIOUS
  <2>3. \A i \in 0 .. n : h[i] = IF i = m + 1 THEN v ELSE g[i]
    OBVIOUS
  <2> HIDE DEF h
  <2>4. h[0] = <<>>
    BY <1>1, <2>1, <2>3
  <2>5. ASSUME NEW i \in 1 .. m + 1
        PROVE  h[i] = IF i \in I THEN Append(h[i - 1], s[i]) ELSE h[i - 1]
    <3>1. i \in 0 .. n /\ i - 1 \in 0 .. n /\ i - 1 # m + 1
      BY <1>1, <1>3
    <3>2. h[i - 1] = g[i - 1]
      BY <2>3, <3>1
    <3>3. CASE i = m + 1
      <4>1. h[i] = v /\ i - 1 = m
        BY <2>3, <3>1, <3>3
      <4> QED
        BY <3>2, <3>3, <4>1 DEF v
    <3>4. CASE i # m + 1
      <4>1. i \in 1 .. m /\ h[i] = g[i]
        BY <2>3, <3>1, <3>4
      <4> QED
        BY <2>1, <3>2, <4>1
    <3> QED
      BY <3>3, <3>4
  <2>6. m + 1 \in 0 .. n
    BY <1>1, <1>3
  <2> QED
    BY <2>2, <2>4, <2>5, <2>6
<1>4. n \in T
  <2> HIDE DEF T
  <2>1. 0 .. n \subseteq T
    BY <1>1, <1>2, <1>3, BoundedInduction
  <2> QED
    BY <1>1, <2>1
<1>5. PICK g : g = [i \in 0 .. n |-> g[i]] /\ Good(g, n)
    BY <1>4
<1> DEFINE F(f) == f = [i \in 0 .. Len(s) |->
                          IF i = 0 THEN <<>>
                          ELSE IF i \in I THEN Append(f[i - 1], s[i])
                          ELSE f[i - 1]]
<1>6. F(g)
  <2>1. \A i \in 0 .. n : g[i] = IF i = 0 THEN <<>>
                          ELSE IF i \in I THEN Append(g[i - 1], s[i])
                          ELSE g[i - 1]
    <3>1. Good(g, n)
      BY <1>5
    <3>2. \A i \in 0 .. n : i = 0 \/ (i # 0 /\ i \in 1 .. n)
      BY <1>1
    <3> QED
      BY <3>1, <3>2
  <2> QED
    BY <1>5, <2>1 DEF n
<1> DEFINE f == CHOOSE x : F(x)
<1>7. F(f)
    BY <1>6
<1>8. At(s, I) = f[Len(s)]
    BY DEF At
<1> HIDE DEF f
<1>9. IsLoop(f, s, I)
  <2>1. \A i \in 0 .. n : f[i] = IF i = 0 THEN <<>>
                          ELSE IF i \in I THEN Append(f[i - 1], s[i])
                          ELSE f[i - 1]
    BY <1>7 DEF n
  <2> QED
    BY <1>1, <2>1 DEF IsLoop, n
<1> QED
    BY <1>8, <1>9

\* One more element of a sequence, without the type of the others.
LEMMA AppendOne ==
    ASSUME NEW S, NEW s \in Seq(S), NEW e \in S
    PROVE  /\ Append(s, e) \in Seq(S)
           /\ Len(Append(s, e)) = Len(s) + 1
           /\ \A k \in 1 .. Len(s) + 1 :
                 Append(s, e)[k] = IF k = Len(s) + 1 THEN e ELSE s[k]
<1>1. Len(s) \in Nat
    BY LenProperties
<1> QED
    BY <1>1, AppendProperties

\* o has elements of s, from the places in J, one for each.
IsFrom(o, S, s, J) ==
    /\ o \in Seq(S)
    /\ Len(o) = Cardinality(J)
    /\ \A k \in 1 .. Len(o) : \E j \in J : o[k] = s[j]

\* What is kept comes from the places in I.
LEMMA AtElements ==
    ASSUME NEW S, NEW s \in Seq(S), NEW I
    PROVE  IsFrom(At(s, I), S, s, I \cap (1 .. Len(s)))
<1> DEFINE n == Len(s)
<1>1. n \in Nat
    BY LenProperties
<1>2. PICK g : IsLoop(g, s, I) /\ At(s, I) = g[n]
    BY LoopExists
<1> DEFINE P(i) ==
        /\ g[i] \in Seq(S)
        /\ Len(g[i]) = Cardinality(I \cap (1 .. i))
        /\ \A k \in 1 .. Len(g[i]) : \E j \in I \cap (1 .. i) : g[i][k] = s[j]
           T == {i \in 0 .. n : P(i)}
<1>3. 0 \in T
  <2>1. g[0] = <<>> /\ I \cap (1 .. 0) = {}
    BY <1>2 DEF IsLoop
  <2>2. <<>> \in Seq(S) /\ Len(<<>>) = 0
    BY EmptySeq
  <2>3. Cardinality(I \cap (1 .. 0)) = 0
    BY <2>1, FS_EmptySet
  <2>4. P(0)
    <3>1. \A k \in 1 .. 0 : FALSE
      OBVIOUS
    <3> QED
      BY <2>1, <2>2, <2>3, <3>1
  <2> HIDE DEF P
  <2> QED
    BY <1>1, <2>4
<1>4. ASSUME NEW i \in 0 .. n, i # n, i \in T PROVE i + 1 \in T
  <2> DEFINE m == i + 1
             J == I \cap (1 .. i)
  <2>1. P(i) /\ m \in 1 .. n /\ m - 1 = i /\ m \in 0 .. n
    BY <1>1, <1>4
  <2>2. s[m] \in S
    BY <2>1, ElementOfSeq
  <2>3. IsFiniteSet(J)
    <3>1. IsFiniteSet(1 .. i)
      BY FS_Interval
    <3> QED
      BY <3>1, FS_Intersection
  <2>4. CASE m \in I
    <3>1. g[m] = Append(g[i], s[m])
      BY <1>2, <2>1, <2>4 DEF IsLoop
    <3>2. I \cap (1 .. m) = J \cup {m} /\ m \notin J
      BY <2>1, <2>4
    <3>3. Cardinality(I \cap (1 .. m)) = Cardinality(J) + 1
      BY <2>3, <3>2, FS_AddElement
    <3> HIDE DEF m
    <3>4. /\ g[m] \in Seq(S) /\ Len(g[m]) = Len(g[i]) + 1
          /\ \A k \in 1 .. Len(g[i]) + 1 :
                g[m][k] = IF k = Len(g[i]) + 1 THEN s[m] ELSE g[i][k]
      <4>1. g[i] \in Seq(S)
        BY <2>1
      <4> QED
        BY <2>2, <3>1, <4>1, AppendOne
    <3>5. ASSUME NEW k \in 1 .. Len(g[m])
          PROVE  \E j \in I \cap (1 .. m) : g[m][k] = s[j]
      <4>1. CASE k = Len(g[i]) + 1
        BY <3>2, <3>4, <4>1
      <4>2. CASE k # Len(g[i]) + 1
        <5>1. k \in 1 .. Len(g[i])
          BY <2>1, <3>4, <4>2, LenProperties
        <5>2. \E j \in J : g[i][k] = s[j]
          BY <2>1, <5>1
        <5> QED
          BY <3>2, <3>4, <4>2, <5>1, <5>2
      <4> QED
        BY <4>1, <4>2
    <3>6. P(m)
      BY <2>1, <3>3, <3>4, <3>5
    <3> HIDE DEF P
    <3> QED
      BY <2>1, <3>6 DEF m
  <2>5. CASE m \notin I
    <3>1. g[m] = g[i]
      BY <1>2, <2>1, <2>5 DEF IsLoop
    <3>2. I \cap (1 .. m) = J
      BY <2>1, <2>5
    <3> QED
      BY <2>1, <3>1, <3>2
  <2> QED
    BY <2>4, <2>5
<1>5. P(n)
  <2> HIDE DEF T
  <2>1. 0 .. n \subseteq T
    BY <1>1, <1>3, <1>4, BoundedInduction
  <2>2. n \in T
    BY <1>1, <2>1
  <2> QED
    BY <2>2 DEF T
<1> QED
    BY <1>2, <1>5 DEF IsFrom

\* o is the stretch of s from a to b.
IsStretch(o, S, s, a, b) ==
    /\ o \in Seq(S)
    /\ Len(o) = b - a + 1
    /\ \A k \in 1 .. b - a + 1 : o[k] = s[a + k - 1]

\* A stretch of places is kept as it is.
LEMMA AtStretch ==
    ASSUME NEW S, NEW s \in Seq(S), NEW I,
           NEW a \in 1 .. Len(s), NEW b \in a .. Len(s),
           I \cap (1 .. Len(s)) = a .. b
    PROVE  IsStretch(At(s, I), S, s, a, b)
<1> DEFINE n == Len(s)
<1>1. n \in Nat /\ a \in 1 .. n /\ b \in a .. n /\ a \in Nat /\ b \in Nat
    BY LenProperties
<1>2. PICK g : IsLoop(g, s, I) /\ At(s, I) = g[n]
    BY LoopExists
<1> DEFINE Length(i) == IF i < a THEN 0 ELSE IF i <= b THEN i - a + 1 ELSE b - a + 1
           P(i) ==
        /\ g[i] \in Seq(S)
        /\ Len(g[i]) = Length(i)
        /\ \A k \in 1 .. Length(i) : g[i][k] = s[a + k - 1]
           T == {i \in 0 .. n : P(i)}
<1>3. 0 \in T
  <2>1. g[0] = <<>> /\ Length(0) = 0
    BY <1>1, <1>2 DEF IsLoop
  <2>2. <<>> \in Seq(S) /\ Len(<<>>) = 0
    BY EmptySeq
  <2>3. P(0)
    <3>1. \A k \in 1 .. 0 : FALSE
      OBVIOUS
    <3> HIDE DEF Length
    <3> QED
      BY <2>1, <2>2, <3>1
  <2> HIDE DEF P
  <2> QED
    BY <1>1, <2>3
<1>4. ASSUME NEW i \in 0 .. n, i # n, i \in T PROVE i + 1 \in T
  <2> DEFINE m == i + 1
  <2>1. P(i) /\ m \in 1 .. n /\ m - 1 = i /\ m \in 0 .. n
    BY <1>1, <1>4
  <2>2. s[m] \in S
    BY <2>1, ElementOfSeq
  <2>3. m \in I <=> a <= m /\ m <= b
    BY <1>1, <2>1
  <2>4. CASE m \in I
    <3>1. g[m] = Append(g[i], s[m])
      BY <1>2, <2>1, <2>4 DEF IsLoop
    <3>2. Length(i) = m - a /\ Length(m) = m - a + 1
      BY <1>1, <2>1, <2>3, <2>4
    <3>3. Length(i) + 1 = Length(m) /\ a + Length(m) - 1 = m
      BY <1>1, <2>1, <3>2
    <3> HIDE DEF m, Length
    <3>4. /\ g[m] \in Seq(S) /\ Len(g[m]) = Len(g[i]) + 1
          /\ \A k \in 1 .. Len(g[i]) + 1 :
                g[m][k] = IF k = Len(g[i]) + 1 THEN s[m] ELSE g[i][k]
      BY <2>1, <2>2, <3>1, AppendOne
    <3>5. ASSUME NEW k \in 1 .. Length(m)
          PROVE  g[m][k] = s[a + k - 1]
      <4>1. CASE k = Length(m)
        BY <2>1, <3>3, <3>4, <4>1
      <4>2. CASE k # Length(m)
        <5>1. k \in 1 .. Length(i)
          BY <1>1, <2>1, <3>2, <3>3, <4>2
        <5> QED
          BY <2>1, <3>3, <3>4, <4>2, <5>1
      <4> QED
        BY <4>1, <4>2
    <3> QED
      BY <2>1, <3>3, <3>4, <3>5
  <2>5. CASE m \notin I
    <3>1. g[m] = g[i]
      BY <1>2, <2>1, <2>5 DEF IsLoop
    <3>2. Length(m) = Length(i)
      BY <1>1, <2>1, <2>3, <2>5
    <3> HIDE DEF Length
    <3> QED
      BY <2>1, <3>1, <3>2
  <2> QED
    BY <2>4, <2>5
<1>5. P(n) /\ Length(n) = b - a + 1
  <2>1. Length(n) = b - a + 1
    BY <1>1
  <2> HIDE DEF T
  <2>2. 0 .. n \subseteq T
    BY <1>1, <1>3, <1>4, BoundedInduction
  <2>3. n \in T
    BY <1>1, <2>2
  <2> QED
    BY <2>1, <2>3 DEF T
<1> HIDE DEF Length
<1> QED
    BY <1>2, <1>5 DEF IsStretch

\* o is s, of length m, and then t, of length n.
IsJoin(o, S, s, m, t, n) ==
    /\ o \in Seq(S)
    /\ Len(o) = m + n
    /\ \A i \in 1 .. m : o[i] = s[i]
    /\ \A i \in 1 .. n : o[m + i] = t[i]

LEMMA Concatenation ==
    ASSUME NEW S, NEW s \in Seq(S), NEW t \in Seq(S), NEW m \in Nat, NEW n \in Nat,
           Len(s) = m, Len(t) = n
    PROVE  IsJoin(s \o t, S, s, m, t, n)
<1>1. /\ s \o t \in Seq(S)
      /\ Len(s \o t) = Len(s) + Len(t)
      /\ \A i \in 1 .. Len(s) + Len(t) :
            (s \o t)[i] = IF i <= Len(s) THEN s[i] ELSE t[i - Len(s)]
    BY ConcatProperties
<1>2. \A i \in 1 .. m + n : (s \o t)[i] = IF i <= m THEN s[i] ELSE t[i - m]
    BY <1>1
<1>3. \A i \in 1 .. m : (s \o t)[i] = s[i]
    BY <1>2
<1>4. ASSUME NEW i \in 1 .. n PROVE (s \o t)[m + i] = t[i]
  <2>1. m + i \in 1 .. m + n /\ ~ (m + i <= m) /\ (m + i) - m = i
    OBVIOUS
  <2> QED
    BY <1>2, <2>1
<1> QED
    BY <1>1, <1>3, <1>4 DEF IsJoin

-----------------------------------------------------------------------------
(* The sides of a balanced team.                                           *)

\* What is proved of each of the two teams once they are picked.
IsEleven(team) ==
    /\ team \in Seq(Player) /\ Len(team) = 11
    /\ \A i \in 1 .. 11 : team[i].kind = Filled[i]
    /\ \A i, j \in 1 .. 11 : Id(team[i]) = Id(team[j]) => i = j

LEMMA TeamOfEleven ==
    ASSUME NEW team, IsEleven(team)
    PROVE  /\ team \in Seq(Player) /\ Len(team) = 11
           /\ DOMAIN team = 1 .. 11
           /\ \A i \in 1 .. 11 : team[i] \in Player /\ team[i].kind = Filled[i]
BY LenProperties, ElementOfSeq DEF IsEleven

LEMMA WhoBats ==
    \A i \in 1 .. 11 :
        /\ Filled[i] \in BatsmanKinds \cup AllRounderKinds \cup KeeperKinds <=> i \in 1 .. 8
        /\ Filled[i] \in BowlerKinds \cup AllRounderKinds <=> i \in 7 .. 11
        /\ Filled[i] \in KeeperKinds <=> i = 6
        /\ Filled[i] \in BowlerKinds <=> i \in 9 .. 11
BY DEF Filled, BatsmanKinds, AllRounderKinds, KeeperKinds, BowlerKinds

LEMMA SidesOfTeam ==
    ASSUME NEW team, IsEleven(team)
    PROVE  /\ BattingSide(team) \in Seq(Player) /\ Len(BattingSide(team)) = 8
           /\ \A k \in 1 .. 8 : BattingSide(team)[k] = team[k]
           /\ BowlingSide(team) \in Seq(Player) /\ Len(BowlingSide(team)) = 5
           /\ \A k \in 1 .. 5 : BowlingSide(team)[k] = team[k + 6]
<1> DEFINE s == team
           I == {i \in DOMAIN s : Bats(s[i])}
           J == {i \in DOMAIN s : Bowls(s[i])}
<1>1. /\ s \in Seq(Player) /\ Len(s) = 11 /\ DOMAIN s = 1 .. 11
      /\ \A i \in 1 .. 11 : s[i].kind = Filled[i]
    BY TeamOfEleven
<1>2. I = 1 .. 8 /\ J = 7 .. 11
  <2>1. \A i \in 1 .. 11 : Bats(s[i]) <=> i \in 1 .. 8
    BY <1>1, WhoBats DEF Bats
  <2>2. \A i \in 1 .. 11 : Bowls(s[i]) <=> i \in 7 .. 11
    BY <1>1, WhoBats DEF Bowls
  <2> HIDE DEF s
  <2> QED
    BY <1>1, <2>1, <2>2
<1>3. BattingSide(team) = At(s, I) /\ BowlingSide(team) = At(s, J)
    BY DEF BattingSide, BowlingSide, Only
<1> HIDE DEF s, I, J
<1>4. IsStretch(At(s, I), Player, s, 1, 8)
  <2>1. I \cap (1 .. Len(s)) = 1 .. 8 /\ 1 \in 1 .. Len(s) /\ 8 \in 1 .. Len(s)
    BY <1>1, <1>2
  <2> QED
    BY <1>1, <2>1, AtStretch
<1>5. IsStretch(At(s, J), Player, s, 7, 11)
  <2>1. J \cap (1 .. Len(s)) = 7 .. 11 /\ 7 \in 1 .. Len(s) /\ 11 \in 7 .. Len(s)
    BY <1>1, <1>2
  <2> QED
    BY <1>1, <2>1, AtStretch
<1>6. /\ At(s, I) \in Seq(Player) /\ Len(At(s, I)) = 8
      /\ \A k \in 1 .. 8 : At(s, I)[k] = s[k]
    BY <1>4 DEF IsStretch
<1>7. /\ At(s, J) \in Seq(Player) /\ Len(At(s, J)) = 5
      /\ \A k \in 1 .. 5 : At(s, J)[k] = s[k + 6]
    BY <1>5 DEF IsStretch
<1> QED
    BY <1>3, <1>6, <1>7 DEF s

\* The list the fielders are taken from: the all-rounders come twice.
LEMMA BothSides ==
    ASSUME NEW team, IsEleven(team)
    PROVE  /\ BattingSide(team) \o BowlingSide(team) \in Seq(Player)
           /\ Len(BattingSide(team) \o BowlingSide(team)) = 13
           /\ \A i \in 1 .. 13 :
                 (BattingSide(team) \o BowlingSide(team))[i]
                     = team[IF i <= 8 THEN i ELSE i - 2]
<1> DEFINE bat == BattingSide(team)
           bowl == BowlingSide(team)
<1>1. /\ bat \in Seq(Player) /\ Len(bat) = 8 /\ \A k \in 1 .. 8 : bat[k] = team[k]
      /\ bowl \in Seq(Player) /\ Len(bowl) = 5 /\ \A k \in 1 .. 5 : bowl[k] = team[k + 6]
    BY SidesOfTeam
<1> HIDE DEF bat, bowl
<1>2. /\ bat \o bowl \in Seq(Player) /\ Len(bat \o bowl) = 8 + 5
      /\ \A i \in 1 .. 8 : (bat \o bowl)[i] = bat[i]
      /\ \A i \in 1 .. 5 : (bat \o bowl)[8 + i] = bowl[i]
  <2>1. IsJoin(bat \o bowl, Player, bat, 8, bowl, 5)
    BY <1>1, Concatenation
  <2> QED
    BY <2>1 DEF IsJoin
<1> DEFINE side == bat \o bowl
<1> HIDE DEF side
<1>3. ASSUME NEW i \in 1 .. 13
      PROVE  side[i] = team[IF i <= 8 THEN i ELSE i - 2]
  <2>1. CASE i <= 8
    <3>1. i \in 1 .. 8
      BY <2>1
    <3> QED
      BY <1>1, <1>2, <2>1, <3>1 DEF side
  <2>2. CASE ~ (i <= 8)
    <3>1. i - 8 \in 1 .. 5 /\ (i - 8) + 6 = i - 2 /\ 8 + (i - 8) = i
      BY <2>2
    <3>2. bowl[i - 8] = team[i - 2]
      BY <1>1, <3>1
    <3>3. side[8 + (i - 8)] = bowl[i - 8]
      BY <1>2, <3>1 DEF side
    <3> QED
      BY <2>2, <3>1, <3>2, <3>3
  <2> QED
    BY <2>1, <2>2
<1>4. Len(side) = 13
    BY <1>2 DEF side
<1> QED
    BY <1>2, <1>3, <1>4 DEF bat, bowl, side

\* The list of those who are sent into the field holds a keeper first, then
\* twelve players of his team who do not keep.
LEMMA FieldersOfTeam ==
    ASSUME NEW team, IsEleven(team), MaxFielders <= 13
    PROVE  /\ Len(FieldersOf(team)) = MaxFielders
           /\ DOMAIN FieldersOf(team) = 1 .. MaxFielders
           /\ \A i \in 1 .. MaxFielders :
                 /\ Keeper(FieldersOf(team)[i]) <=> i = 1
                 /\ \E j \in 1 .. 11 : FieldersOf(team)[i] = team[j]
<1> DEFINE side == BattingSide(team) \o BowlingSide(team)
           K == {i \in DOMAIN side : Keeper(side[i])}
           N == {i \in DOMAIN side : NotKeeper(side[i])}
           keeper == At(side, K)
           others == At(side, N)
<1>1. /\ side \in Seq(Player) /\ Len(side) = 13
      /\ \A i \in 1 .. 13 : side[i] = team[IF i <= 8 THEN i ELSE i - 2]
    BY BothSides
<1> DEFINE behind == IF keeper # <<>> THEN <<Head(keeper)>>
                     ELSE IF side # <<>> THEN <<Head(side)>>
                     ELSE <<>>
           field == behind \o others
<1>2. FieldersOf(team) = SubSeq(field, 1, IF Len(field) < MaxFielders THEN Len(field)
                                                                 ELSE MaxFielders)
    BY DEF FieldersOf, Only
<1> HIDE DEF side
<1>3. DOMAIN side = 1 .. 13
    BY <1>1, LenProperties
<1>4. \A i \in 1 .. 13 :
          /\ Keeper(side[i]) <=> i = 6
          /\ \E j \in 1 .. 11 : side[i] = team[j]
  <2>1. ASSUME NEW i \in 1 .. 13
        PROVE  /\ Keeper(side[i]) <=> i = 6
               /\ \E j \in 1 .. 11 : side[i] = team[j]
    <3> DEFINE j == IF i <= 8 THEN i ELSE i - 2
    <3>1. j \in 1 .. 11 /\ (j = 6 <=> i = 6)
      OBVIOUS
    <3>2. side[i] = team[j]
      BY <1>1
    <3> HIDE DEF j
    <3>3. team[j].kind \in KeeperKinds <=> j = 6
      <4>1. team[j].kind = Filled[j]
        BY <3>1 DEF IsEleven
      <4> QED
        BY <3>1, <4>1, WhoBats
    <3> QED
      BY <3>1, <3>2, <3>3 DEF Keeper
  <2> QED
    BY <2>1
<1>5. K = 6 .. 6 /\ N = (1 .. 13) \ {6}
  <2>1. \A i : i \in K <=> i \in 1 .. 13 /\ i = 6
    BY <1>3, <1>4
  <2>2. \A i : i \in N <=> i \in 1 .. 13 /\ i # 6
    BY <1>3, <1>4 DEF NotKeeper
  <2> HIDE DEF K, N
  <2> QED
    BY <2>1, <2>2
<1> HIDE DEF K, N
<1>6. IsStretch(keeper, Player, side, 6, 6)
  <2>1. K \cap (1 .. Len(side)) = 6 .. 6 /\ 6 \in 1 .. Len(side) /\ 6 \in 6 .. Len(side)
    BY <1>1, <1>5
  <2> QED
    BY <1>1, <2>1, AtStretch
<1>7. /\ others \in Seq(Player) /\ Len(others) = 12
      /\ \A k \in DOMAIN others : \E i \in N : others[k] = side[i]
  <2>1. N \cap (1 .. 13) = (1 .. 13) \ {6} /\ N \cap (1 .. 13) = N
    BY <1>5
  <2>2. Cardinality((1 .. 13) \ {6}) = 12
    <3>1. IsFiniteSet(1 .. 13) /\ Cardinality(1 .. 13) = 13
      <4>1. 1 \in Int /\ 13 \in Int
        OBVIOUS
      <4>2. IsFiniteSet(1 .. 13) /\ Cardinality(1 .. 13) = IF 1 > 13 THEN 0 ELSE 13 - 1 + 1
        BY ONLY <4>1, FS_Interval
      <4> QED
        BY <4>2
    <3>2. 6 \in 1 .. 13
      OBVIOUS
    <3> QED
      BY <3>1, <3>2, FS_RemoveElement
  <2>3. IsFrom(others, Player, side, N \cap (1 .. Len(side)))
    BY <1>1, AtElements
  <2> HIDE DEF others
  <2> QED
    BY <1>1, <2>1, <2>2, <2>3, LenProperties DEF IsFrom
<1> HIDE DEF keeper, others
<1>8. behind = <<side[6]>>
  <2>1. keeper \in Seq(Player) /\ Len(keeper) = 1 /\ keeper[1] = side[6]
    BY <1>6 DEF IsStretch
  <2>2. keeper # <<>>
    <3>1. Len(<<>>) = 0
      BY EmptySeq
    <3>2. Len(keeper) # Len(<<>>)
      BY <2>1, <3>1
    <3> QED
      BY <3>2, Zenon
  <2>3. Head(keeper) = keeper[1]
    BY <2>1, <2>2
  <2> QED
    BY <2>1, <2>2, <2>3
<1>9. side[6] \in Player
  <2>1. 6 \in 1 .. Len(side)
    BY <1>1
  <2> QED
    BY <1>1, <2>1, ElementOfSeq
<1> HIDE DEF behind
<1>10. /\ field \in Seq(Player) /\ Len(field) = 13
       /\ field[1] = side[6]
       /\ \A k \in 2 .. 13 : field[k] = others[k - 1]
  <2>1. behind \in Seq(Player) /\ Len(behind) = 1 /\ behind[1] = side[6]
    BY <1>8, <1>9
  <2>2. /\ field \in Seq(Player) /\ Len(field) = 1 + 12
        /\ \A k \in 1 .. 1 : field[k] = behind[k]
        /\ \A k \in 1 .. 12 : field[1 + k] = others[k]
    <3>1. IsJoin(behind \o others, Player, behind, 1, others, 12)
      BY <1>7, <2>1, Concatenation
    <3> QED
      BY <3>1 DEF IsJoin
  <2> HIDE DEF field
  <2>3. ASSUME NEW k \in 2 .. 13 PROVE field[k] = others[k - 1]
    <3>1. k - 1 \in 1 .. 12 /\ 1 + (k - 1) = k
      OBVIOUS
    <3> QED
      BY <2>2, <3>1
  <2> QED
    BY <2>1, <2>2, <2>3
<1> HIDE DEF field
<1>11. ASSUME NEW k \in 1 .. 13
       PROVE  /\ Keeper(field[k]) <=> k = 1
              /\ \E j \in 1 .. 11 : field[k] = team[j]
  <2>1. CASE k = 1
    BY <1>4, <1>10, <2>1
  <2>2. CASE k # 1
    <3>1. k \in 2 .. 13 /\ k - 1 \in 1 .. 12
      BY <2>2
    <3>2. k - 1 \in DOMAIN others
      BY <1>7, <3>1, LenProperties
    <3>3. PICK i \in N : field[k] = side[i]
      BY <1>7, <1>10, <3>1, <3>2
    <3>4. i \in 1 .. 13 /\ i # 6
      BY <1>5
    <3> QED
      BY <1>4, <2>2, <3>3, <3>4
  <2> QED
    BY <2>1, <2>2
<1>12. MaxFielders \in Nat \ {0}
    BY FieldersAssumption
<1>13. FieldersOf(team) = SubSeq(field, 1, MaxFielders)
  <2>1. (IF Len(field) < MaxFielders THEN Len(field) ELSE MaxFielders) = MaxFielders
    BY <1>10, <1>12
  <2> QED
    BY <1>2, <2>1
<1>14. /\ FieldersOf(team) \in Seq(Player) /\ Len(FieldersOf(team)) = MaxFielders
       /\ \A k \in 1 .. MaxFielders : FieldersOf(team)[k] = field[k]
  <2>1. ASSUME NEW k \in 1 .. MaxFielders PROVE field[k] \in Player
    <3>1. k \in 1 .. Len(field)
      BY <1>10, <1>12
    <3> QED
      BY <1>10, <3>1, ElementOfSeq
  <2>2. /\ SubSeq(field, 1, MaxFielders) \in Seq(Player)
        /\ Len(SubSeq(field, 1, MaxFielders)) =
               IF 1 <= MaxFielders THEN MaxFielders - 1 + 1 ELSE 0
        /\ \A k \in 1 .. MaxFielders - 1 + 1 :
               SubSeq(field, 1, MaxFielders)[k] = field[1 + k - 1]
    BY <1>12, <2>1, SubSeqProperties
  <2> QED
    BY <1>12, <1>13, <2>2
<1>15. \A k \in 1 .. MaxFielders : k \in 1 .. 13
    BY <1>12
<1>16. DOMAIN FieldersOf(team) = 1 .. MaxFielders
    BY <1>14, LenProperties
<1>17. ASSUME NEW i \in 1 .. MaxFielders
       PROVE  /\ Keeper(FieldersOf(team)[i]) <=> i = 1
              /\ \E j \in 1 .. 11 : FieldersOf(team)[i] = team[j]
  <2>1. i \in 1 .. 13 /\ FieldersOf(team)[i] = field[i]
    BY <1>14, <1>15
  <2> QED
    BY <1>11, <2>1
<1> QED
    BY <1>14, <1>16, <1>17

-----------------------------------------------------------------------------
(* The match.                                                              *)

\* What is there after each step was made of the teams as they stand.
SetupInv ==
    /\ first \in 0 .. 2 /\ innings \in 0 .. 2
    /\ first # 0 => picking = "picked"
    /\ innings # 0 => first # 0 /\ fielders = FieldersOf(teams[3 - Batting])
    /\ analysis # <<>> => innings = 2
    /\ analysis \in Seq({Report(teams[1]), Report(teams[2])})

USE DEF teamVars, vars

LEMMA SetupInvInit == Init => SetupInv
<1> SUFFICES ASSUME Init PROVE SetupInv
    OBVIOUS
<1>1. <<>> \in Seq({Report(teams[1]), Report(teams[2])})
    BY EmptySeq
<1> QED
    BY <1>1 DEF Init, SetupInv

LEMMA SetupInvStep == SetupInv /\ [Next]_vars => SetupInv'
<1> SUFFICES ASSUME SetupInv, [Next]_vars PROVE SetupInv'
    OBVIOUS
<1>1. CASE ConstructEngine
    BY <1>1 DEF ConstructEngine, SetupInv
<1>2. CASE RunInnings
  <2>1. /\ first \in 1 .. 2 /\ first' = first /\ picking' = picking /\ teams' = teams
        /\ innings \in 0 .. 1 /\ innings' = innings + 1 /\ innings' \in 1 .. 2
        /\ fielders' = FieldersFor(innings') /\ analysis' = analysis
    BY <1>2 DEF RunInnings, SetupInv
  <2>2. (IF innings' = 1 THEN 3 - first ELSE first) = 3 - Batting'
    BY <2>1 DEF Batting
  <2>3. fielders' = FieldersOf(teams'[3 - Batting'])
    BY <2>1, <2>2 DEF FieldersFor
  <2> QED
    BY <2>1, <2>3 DEF SetupInv
<1>3. CASE Analyse
  <2>1. /\ innings = 2 /\ first \in 1 .. 2 /\ picking = "picked"
        /\ UNCHANGED <<first, innings, fielders, picking, teams>>
    BY <1>3 DEF Analyse, SetupInv
  <2> DEFINE t == IF analysis = <<>> THEN first ELSE 3 - first
             Reports == {Report(teams[1]), Report(teams[2])}
  <2>2. t \in 1 .. 2 /\ analysis' = Append(analysis, Report(teams[t]))
    BY <1>3, <2>1 DEF Analyse
  <2> HIDE DEF t
  <2>3. Report(teams[t]) \in Reports
    BY <2>2
  <2>4. Reports' = Reports /\ analysis \in Seq(Reports)
    BY <2>1 DEF SetupInv
  <2> HIDE DEF Reports
  <2>5. analysis' \in Seq(Reports)
    BY <2>2, <2>3, <2>4, AppendProperties
  <2> QED
    BY <2>1, <2>4, <2>5 DEF SetupInv, Batting, Reports
<1>4. CASE Select
  <2>1. picking # "picked" /\ UNCHANGED <<first, innings, fielders, analysis>>
    BY <1>4 DEF Select, SelectTeams, CheckPools, Pick, TeamComplete
  <2>2. first = 0 /\ innings = 0 /\ analysis = <<>>
    BY <2>1 DEF SetupInv
  <2>3. <<>> \in Seq({Report(teams'[1]), Report(teams'[2])})
    BY EmptySeq
  <2> QED
    BY <2>1, <2>2, <2>3 DEF SetupInv
<1>5. CASE UNCHANGED vars
    BY <1>5 DEF SetupInv, Batting
<1> QED
    BY <1>1, <1>2, <1>3, <1>4, <1>5 DEF Next

THEOREM SetupInvHolds == SetupSpec => []SetupInv
BY SetupInvInit, SetupInvStep, PTL DEF SetupSpec

\* The teams as they stand when they have been picked.
TeamsInv == TeamTypeOK /\ TeamsAreBalanced /\ NobodyPickedTwice

LEMMA TeamsStand ==
    ASSUME TeamsInv, picking = "picked", NEW t \in 1 .. 2
    PROVE  IsEleven(teams[t])
<1>1. teams[t] \in Seq(Player) /\ Len(teams[t]) = 11
    BY DEF TeamsInv, TeamTypeOK, TeamsAreBalanced
<1>2. DOMAIN teams[t] = 1 .. 11
    BY <1>1, LenProperties
<1>3. \A i \in 1 .. 11 : teams[t][i].kind = Filled[i]
    BY DEF TeamsInv, TeamsAreBalanced, Places
<1>4. \A i, j \in 1 .. 11 : Id(teams[t][i]) = Id(teams[t][j]) => i = j
    BY <1>2 DEF TeamsInv, NobodyPickedTwice
<1> QED
    BY <1>1, <1>3, <1>4 DEF IsEleven

LEMMA TeamsInvHolds ==
    ASSUME EnoughOfEach
    PROVE  SetupSpec => []TeamsInv
<1>1. PickInv => TeamTypeOK
    BY DEF PickInv
<1>2. SetupSpec => []TeamTypeOK
    BY <1>1, PickInvInit, PickInvStep, SetupSelectsTeams, PTL DEF Spec
<1> QED
    BY <1>2, TeamsAreBalancedHolds, NobodyPickedTwiceHolds, PTL DEF TeamsInv

\* Both innings are fielded by the team that does not bat, with its keeper, and
\* nobody else who keeps, behind the stumps; if there is room for no more
\* fielders than the sides of a team have.
THEOREM OwnKeeperBehindStumpsHolds ==
    ASSUME EnoughOfEach, MaxFielders <= 13
    PROVE  SetupSpec => []OwnKeeperBehindStumps
<1>1. TeamsInv /\ SetupInv => OwnKeeperBehindStumps
  <2> SUFFICES ASSUME TeamsInv, SetupInv, innings > 0
               PROVE  /\ Len(fielders) = MaxFielders
                      /\ \A i \in DOMAIN fielders : Keeper(fielders[i]) <=> i = 1
                      /\ Ids(fielders) \cap Ids(teams[Batting]) = {}
    BY DEF OwnKeeperBehindStumps
  <2> DEFINE t == 3 - Batting
             u == Batting
  <2>1. /\ first \in 1 .. 2 /\ picking = "picked" /\ fielders = FieldersOf(teams[t])
    BY DEF SetupInv
  <2>2. t \in 1 .. 2 /\ u \in 1 .. 2 /\ t # u
    BY <2>1 DEF Batting
  <2> HIDE DEF t, u
  <2>3. IsEleven(teams[t])
    BY <2>1, <2>2, TeamsStand
  <2>4. /\ Len(fielders) = MaxFielders /\ DOMAIN fielders = 1 .. MaxFielders
        /\ \A i \in 1 .. MaxFielders :
              /\ Keeper(fielders[i]) <=> i = 1
              /\ \E j \in 1 .. 11 : fielders[i] = teams[t][j]
    BY <2>1, <2>3, FieldersOfTeam
  <2>5. Ids(fielders) \cap Ids(teams[u]) = {}
    <3> SUFFICES ASSUME NEW i \in DOMAIN fielders, NEW k \in DOMAIN teams[u],
                        Id(fielders[i]) = Id(teams[u][k])
                 PROVE  FALSE
      BY DEF Ids
    <3>1. PICK j \in 1 .. 11 : fielders[i] = teams[t][j]
      BY <2>4
    <3>2. j \in DOMAIN teams[t]
      BY <2>3, TeamOfEleven
    <3> QED
      BY <2>2, <3>1, <3>2 DEF TeamsInv, NobodyPickedTwice
  <2> QED
    BY <2>4, <2>5 DEF u
<1> QED
    BY <1>1, TeamsInvHolds, SetupInvHolds, PTL

-----------------------------------------------------------------------------
(* The order of shortest job first.                                        *)

Ahead(s, i) == {j \in DOMAIN s : Before(s, j, i)}
Rank(s, i)  == Cardinality(Ahead(s, i))

LEMMA BurstTimes ==
    ASSUME NEW s \in Seq(Player)
    PROVE  /\ Len(s) \in Nat /\ DOMAIN s = 1 .. Len(s)
           /\ \A i \in 1 .. Len(s) : s[i] \in Player /\ s[i].balls \in Nat
<1>1. Len(s) \in Nat /\ DOMAIN s = 1 .. Len(s)
    BY LenProperties
<1>2. \A i \in 1 .. Len(s) : s[i] \in Player
    BY ElementOfSeq
<1> QED
    BY <1>1, <1>2 DEF Player

\* Before is a strict order on the places of a sequence, and total.
LEMMA BeforeIsOrder ==
    ASSUME NEW s \in Seq(Player), NEW i \in 1 .. Len(s), NEW j \in 1 .. Len(s),
           NEW k \in 1 .. Len(s)
    PROVE  /\ ~ Before(s, i, i)
           /\ i # j => Before(s, i, j) \/ Before(s, j, i)
           /\ Before(s, i, j) /\ Before(s, j, k) => Before(s, i, k)
           /\ Before(s, i, j) => s[i].balls <= s[j].balls
<1>1. i \in Nat /\ j \in Nat /\ k \in Nat
    BY BurstTimes
<1>2. s[i].balls \in Nat /\ s[j].balls \in Nat /\ s[k].balls \in Nat
    BY BurstTimes
<1> QED
    BY <1>1, <1>2 DEF Before

LEMMA RankOfPlace ==
    ASSUME NEW s \in Seq(Player), NEW i \in 1 .. Len(s)
    PROVE  /\ IsFiniteSet(Ahead(s, i)) /\ Rank(s, i) \in 0 .. Len(s) - 1
<1>1. Len(s) \in Nat /\ DOMAIN s = 1 .. Len(s)
    BY BurstTimes
<1>2. IsFiniteSet(1 .. Len(s)) /\ Cardinality(1 .. Len(s)) = Len(s)
    BY <1>1, FS_Interval
<1>3. /\ IsFiniteSet((1 .. Len(s)) \ {i})
      /\ Cardinality((1 .. Len(s)) \ {i}) = Len(s) - 1
    BY <1>2, FS_RemoveElement
<1>4. Ahead(s, i) \subseteq (1 .. Len(s)) \ {i}
    BY <1>1, BeforeIsOrder DEF Ahead
<1>5. IsFiniteSet(Ahead(s, i)) /\ Cardinality(Ahead(s, i)) <= Len(s) - 1
    BY <1>3, <1>4, FS_Subset
<1>6. Cardinality(Ahead(s, i)) \in Nat
    BY <1>5, FS_CardinalityType
<1> QED
    BY <1>1, <1>5, <1>6 DEF Rank

LEMMA RankGrows ==
    ASSUME NEW s \in Seq(Player), NEW i \in 1 .. Len(s), NEW k \in 1 .. Len(s),
           Before(s, i, k)
    PROVE  Rank(s, i) < Rank(s, k)
<1>1. DOMAIN s = 1 .. Len(s)
    BY BurstTimes
<1>2. Ahead(s, i) \cup {i} \subseteq Ahead(s, k)
    BY <1>1, BeforeIsOrder DEF Ahead
<1>3. i \notin Ahead(s, i)
    BY BeforeIsOrder DEF Ahead
<1>4. Cardinality(Ahead(s, i) \cup {i}) = Cardinality(Ahead(s, i)) + 1
    BY <1>3, RankOfPlace, FS_AddElement
<1>5. Cardinality(Ahead(s, i) \cup {i}) <= Cardinality(Ahead(s, k))
    BY <1>2, RankOfPlace, FS_Subset
<1>6. Cardinality(Ahead(s, i)) \in Int /\ Cardinality(Ahead(s, k)) \in Int
    BY RankOfPlace DEF Rank
<1> QED
    BY <1>4, <1>5, <1>6 DEF Rank

LEMMA EveryRankIsTaken ==
    ASSUME NEW s \in Seq(Player), NEW k \in 1 .. Len(s)
    PROVE  \E i \in 1 .. Len(s) : Rank(s, i) = k - 1
<1> DEFINE n == Len(s)
           f == [i \in 1 .. n |-> Rank(s, i)]
<1>1. n \in Nat
    BY BurstTimes
<1>2. f \in [1 .. n -> 0 .. n - 1]
    BY RankOfPlace
<1>3. ASSUME NEW i \in 1 .. n, NEW j \in 1 .. n, i # j PROVE f[i] # f[j]
  <2>1. Rank(s, i) < Rank(s, j) \/ Rank(s, j) < Rank(s, i)
    BY <1>3, BeforeIsOrder, RankGrows
  <2>2. Rank(s, i) \in Int /\ Rank(s, j) \in Int
    BY RankOfPlace
  <2> QED
    BY <2>1, <2>2
<1> HIDE DEF f
<1>4. f \in Injection(1 .. n, 0 .. n - 1)
    BY <1>2, <1>3 DEF Injection, IsInjective
<1>5. /\ IsFiniteSet(1 .. n) /\ Cardinality(1 .. n) = n
      /\ IsFiniteSet(0 .. n - 1) /\ Cardinality(0 .. n - 1) = n
  <2>1. 1 \in Int /\ n \in Int /\ 0 \in Int /\ n - 1 \in Int
    BY <1>1
  <2>2. /\ IsFiniteSet(1 .. n) /\ Cardinality(1 .. n) = IF 1 > n THEN 0 ELSE n - 1 + 1
    BY <2>1, FS_Interval
  <2>3. /\ IsFiniteSet(0 .. n - 1)
        /\ Cardinality(0 .. n - 1) = IF 0 > n - 1 THEN 0 ELSE n - 1 - 0 + 1
    BY <2>1, FS_Interval
  <2> QED
    BY <1>1, <2>2, <2>3
<1>6. f \in Surjection(1 .. n, 0 .. n - 1)
    BY <1>4, <1>5, FS_Injection
<1>7. k - 1 \in 0 .. n - 1
    BY <1>1
<1>8. \E i \in 1 .. n : f[i] = k - 1
    BY <1>6, <1>7 DEF Surjection
<1> QED
    BY <1>8 DEF f

\* p puts the n places of s in the order of the burst times.
Sorts(p, s) ==
    /\ p \in [1 .. Len(s) -> 1 .. Len(s)]
    /\ \A k, l \in 1 .. Len(s) : p[k] = p[l] => k = l
    /\ \A i \in 1 .. Len(s) : \E k \in 1 .. Len(s) : p[k] = i
    /\ \A k, l \in 1 .. Len(s) : k < l => s[p[k]].balls <= s[p[l]].balls

LEMMA SjfOrderSorts ==
    ASSUME NEW s \in Seq(Player)
    PROVE  /\ SjfOrder(s) \in Seq(Player) /\ Len(SjfOrder(s)) = Len(s)
           /\ \E p : Sorts(p, s) /\ \A k \in 1 .. Len(s) : SjfOrder(s)[k] = s[p[k]]
<1> DEFINE n == Len(s)
           p == [k \in 1 .. n |-> CHOOSE i \in 1 .. n : Rank(s, i) = k - 1]
<1>1. n \in Nat /\ DOMAIN s = 1 .. n
    BY BurstTimes
<1>2. SjfOrder(s) = [k \in 1 .. n |-> s[p[k]]]
    BY <1>1 DEF SjfOrder, Rank, Ahead
<1>3. \A k \in 1 .. n : p[k] \in 1 .. n /\ Rank(s, p[k]) = k - 1
    BY EveryRankIsTaken
<1>4. p \in [1 .. n -> 1 .. n]
    BY <1>3
<1> HIDE DEF p
<1>5. \A k, l \in 1 .. n : p[k] = p[l] => k = l
    BY <1>1, <1>3
<1>6. ASSUME NEW i \in 1 .. n PROVE \E k \in 1 .. n : p[k] = i
  <2> DEFINE k == Rank(s, i) + 1
  <2>1. k \in 1 .. n /\ k - 1 = Rank(s, i)
    BY <1>1, RankOfPlace
  <2> HIDE DEF k
  <2>2. p[k] \in 1 .. n /\ Rank(s, p[k]) = Rank(s, i)
    BY <1>3, <2>1
  <2>3. ~ (Rank(s, i) < Rank(s, i))
    BY RankOfPlace
  <2>4. p[k] = i
    BY <2>2, <2>3, BeforeIsOrder, RankGrows
  <2> QED
    BY <2>1, <2>4
<1>7. ASSUME NEW k \in 1 .. n, NEW l \in 1 .. n, k < l
      PROVE  s[p[k]].balls <= s[p[l]].balls
  <2>1. /\ p[k] \in 1 .. n /\ Rank(s, p[k]) = k - 1
        /\ p[l] \in 1 .. n /\ Rank(s, p[l]) = l - 1
    BY <1>3
  <2>2. ~ (l - 1 < k - 1) /\ p[k] # p[l]
    BY <1>1, <1>7, <2>1
  <2>3. Before(s, p[k], p[l])
    BY <2>1, <2>2, BeforeIsOrder, RankGrows
  <2> QED
    BY <2>1, <2>3, BeforeIsOrder
<1>8. Sorts(p, s)
    BY <1>4, <1>5, <1>6, <1>7 DEF Sorts
<1>9. \A k \in 1 .. n : s[p[k]] \in Player
    BY <1>3, BurstTimes
<1>10. SjfOrder(s) \in Seq(Player) /\ Len(SjfOrder(s)) = n
    BY <1>1, <1>2, <1>9, IsASeq
<1> QED
    BY <1>2, <1>8, <1>10

-----------------------------------------------------------------------------
(* The squad.                                                              *)

\* The three who only bowl come after those who bat: the squad is the team.
LEMMA SquadIsTeam ==
    ASSUME NEW team, IsEleven(team)
    PROVE  IsEleven(Squad(team)) /\ \A i \in 1 .. 11 : Squad(team)[i] = team[i]
<1> DEFINE bat == BattingSide(team)
           bowl == BowlingSide(team)
           known == Ids(bat)
           J == {i \in DOMAIN bowl : Id(bowl[i]) \notin known}
           tail == At(bowl, J)
<1>1. Squad(team) = bat \o tail
    BY DEF Squad, Only
<1>2. /\ bat \in Seq(Player) /\ Len(bat) = 8 /\ \A k \in 1 .. 8 : bat[k] = team[k]
      /\ bowl \in Seq(Player) /\ Len(bowl) = 5 /\ \A k \in 1 .. 5 : bowl[k] = team[k + 6]
    BY SidesOfTeam
<1> HIDE DEF bat, bowl
<1>3. DOMAIN bat = 1 .. 8 /\ DOMAIN bowl = 1 .. 5
    BY <1>2, LenProperties
<1>4. known = {Id(team[i]) : i \in 1 .. 8}
    BY <1>2, <1>3 DEF Ids
<1> HIDE DEF known
<1>5. ASSUME NEW k \in 1 .. 5 PROVE Id(bowl[k]) \notin known <=> k \in 3 .. 5
  <2>1. k + 6 \in 1 .. 11 /\ bowl[k] = team[k + 6]
    BY <1>2
  <2>2. \A i \in 1 .. 8 : i \in 1 .. 11 /\ (Id(team[i]) = Id(team[k + 6]) <=> i = k + 6)
    BY <2>1 DEF IsEleven
  <2>3. Id(bowl[k]) \in known <=> \E i \in 1 .. 8 : i = k + 6
    BY <1>4, <2>1, <2>2
  <2>4. (\E i \in 1 .. 8 : i = k + 6) <=> k <= 2
    OBVIOUS
  <2> QED
    BY <2>3, <2>4
<1>6. J = 3 .. 5
  <2>1. \A k : k \in J <=> k \in 1 .. 5 /\ k \in 3 .. 5
    BY <1>3, <1>5
  <2> HIDE DEF J
  <2> QED
    BY <2>1
<1> HIDE DEF J
<1>7. IsStretch(tail, Player, bowl, 3, 5)
  <2>1. J \cap (1 .. Len(bowl)) = 3 .. 5 /\ 3 \in 1 .. Len(bowl) /\ 5 \in 3 .. Len(bowl)
    BY <1>2, <1>6
  <2> QED
    BY <1>2, <2>1, AtStretch
<1> HIDE DEF tail
<1>8. tail \in Seq(Player) /\ Len(tail) = 3 /\ \A k \in 1 .. 3 : tail[k] = team[8 + k]
  <2>1. tail \in Seq(Player) /\ Len(tail) = 3 /\ \A k \in 1 .. 3 : tail[k] = bowl[3 + k - 1]
    BY <1>7 DEF IsStretch
  <2>2. ASSUME NEW k \in 1 .. 3 PROVE tail[k] = team[8 + k]
    <3>1. 3 + k - 1 \in 1 .. 5 /\ (3 + k - 1) + 6 = 8 + k
      OBVIOUS
    <3> QED
      BY <1>2, <2>1, <3>1
  <2> QED
    BY <2>1, <2>2
<1>9. IsJoin(bat \o tail, Player, bat, 8, tail, 3)
    BY <1>2, <1>8, Concatenation
<1>10. /\ Squad(team) \in Seq(Player) /\ Len(Squad(team)) = 11
       /\ \A i \in 1 .. 8 : Squad(team)[i] = bat[i]
       /\ \A i \in 1 .. 3 : Squad(team)[8 + i] = tail[i]
  <2>1. IsJoin(Squad(team), Player, bat, 8, tail, 3)
    BY <1>1, <1>9
  <2> QED
    BY <2>1 DEF IsJoin
<1>11. ASSUME NEW i \in 1 .. 11 PROVE Squad(team)[i] = team[i]
  <2>1. CASE i \in 1 .. 8
    BY <1>2, <1>10, <2>1
  <2>2. CASE i \notin 1 .. 8
    <3>1. i - 8 \in 1 .. 3 /\ 8 + (i - 8) = i
      BY <2>2
    <3> QED
      BY <1>8, <1>10, <3>1
  <2> QED
    BY <2>1, <2>2
<1> QED
    BY <1>10, <1>11 DEF IsEleven

-----------------------------------------------------------------------------
(* The burst times are those of the kinds.                                 *)

BurstsDrawn ==
    \A t \in 1 .. 2 : \A i \in DOMAIN teams[t] :
        teams[t][i].balls \in ExpectedBalls[teams[t][i].kind]

LEMMA BurstsDrawnStep ==
    TeamTypeOK /\ BurstsDrawn /\ [SelectTeams]_teamVars => BurstsDrawn'
<1> SUFFICES ASSUME TeamTypeOK, BurstsDrawn, [SelectTeams]_teamVars,
                    NEW t \in 1 .. 2, NEW i \in DOMAIN teams'[t]
             PROVE  teams'[t][i].balls \in ExpectedBalls[teams'[t][i].kind]
    BY DEF BurstsDrawn
<1>1. CASE teams' = teams
    BY <1>1 DEF BurstsDrawn
<1>2. CASE teams' # teams
  <2>1. /\ place \in Places /\ picking \in {"A", "B"}
        /\ \E k \in KindsFor(place) : Take(k)
    BY <1>2 DEF SelectTeams, CheckPools, Pick, TeamComplete
  <2>2. PICK k \in KindsFor(place) : Take(k)
    BY <2>1
  <2>3. PICK b \in ExpectedBalls[k] :
            teams' = [teams EXCEPT ![Picker] = Append(teams[Picker], Picked(k, b))]
    BY <2>2 DEF Take
  <2>4. k \in Kinds /\ Picker \in 1 .. 2
    BY <2>1, <2>2, TakeCases
  <2> DEFINE p == Picked(k, b)
  <2>5. p.kind = k /\ p.balls = b /\ p \in Player
    <3>1. b \in Nat
      BY <2>3, <2>4, PoolsAssumption
    <3>2. NextOf(k) \in Nat
      BY <2>4, PoolsAssumption DEF NextOf, TeamTypeOK
    <3> QED
      BY <2>4, <3>1, <3>2 DEF Picked, Player
  <2> HIDE DEF p
  <2>6. CASE t # Picker
    <3>1. teams'[t] = teams[t]
      BY <2>3, <2>4, <2>6 DEF TeamTypeOK
    <3> QED
      BY <3>1 DEF BurstsDrawn
  <2>7. CASE t = Picker
    <3>1. teams'[t] = Append(teams[t], p) /\ teams[t] \in Seq(Player)
      BY <2>3, <2>4, <2>7 DEF TeamTypeOK, p
    <3>2. /\ i \in DOMAIN teams[t] \cup {Len(teams[t]) + 1}
          /\ \A j \in DOMAIN teams[t] : teams'[t][j] = teams[t][j]
          /\ teams'[t][Len(teams[t]) + 1] = p
      BY <2>5, <3>1, AppendedPlayers
    <3>3. CASE i \in DOMAIN teams[t]
      BY <3>2, <3>3 DEF BurstsDrawn
    <3>4. CASE i = Len(teams[t]) + 1
      BY <2>3, <2>5, <3>2, <3>4
    <3> QED
      BY <3>2, <3>3, <3>4
  <2> QED
    BY <2>6, <2>7
<1> QED
    BY <1>1, <1>2

LEMMA BurstsDrawnHolds == SetupSpec => []BurstsDrawn
<1>1. InitTeams => BurstsDrawn
  <2> SUFFICES ASSUME InitTeams PROVE BurstsDrawn
    OBVIOUS
  <2>1. \A t \in 1 .. 2 : teams[t] = <<>>
    BY DEF InitTeams
  <2> QED
    BY <2>1 DEF BurstsDrawn
<1>2. PickInv => TeamTypeOK
    BY DEF PickInv
<1> QED
    BY <1>1, <1>2, PickInvInit, PickInvStep, BurstsDrawnStep, SetupSelectsTeams, PTL DEF Spec

-----------------------------------------------------------------------------
(* The tail goes first.                                                    *)

\* The bowlers have no balls to face, everybody else has.
TailFacesNothing ==
    /\ \A k \in BowlerKinds : \A b \in ExpectedBalls[k] : b = 0
    /\ \A k \in Kinds \ BowlerKinds : \A b \in ExpectedBalls[k] : b > 0

LEMMA OrderOfEleven ==
    ASSUME NEW s, IsEleven(s)
    PROVE  /\ SjfOrder(s) \in Seq(Player) /\ Len(SjfOrder(s)) = 11
           /\ DOMAIN SjfOrder(s) = 1 .. 11
           /\ \E p : Sorts(p, s) /\ \A k \in 1 .. 11 : SjfOrder(s)[k] = s[p[k]]
<1>1. s \in Seq(Player) /\ Len(s) = 11
    BY DEF IsEleven
<1>2. SjfOrder(s) \in Seq(Player) /\ Len(SjfOrder(s)) = 11
    BY <1>1, SjfOrderSorts
<1>3. DOMAIN SjfOrder(s) = 1 .. 11
    BY <1>2, LenProperties
<1>4. \E p : Sorts(p, s) /\ \A k \in 1 .. Len(s) : SjfOrder(s)[k] = s[p[k]]
    BY <1>1, SjfOrderSorts
<1> QED
    BY <1>1, <1>2, <1>3, <1>4

LEMMA ElevenIds ==
    ASSUME NEW s, IsEleven(s)
    PROVE  Cardinality(Ids(SjfOrder(s))) = 11
<1>1. PICK p : Sorts(p, s) /\ \A k \in 1 .. 11 : SjfOrder(s)[k] = s[p[k]]
    BY OrderOfEleven
<1> DEFINE ids == Ids(SjfOrder(s))
           f == [k \in 1 .. 11 |-> Id(SjfOrder(s)[k])]
<1>2. ids = {Id(SjfOrder(s)[k]) : k \in 1 .. 11}
    BY OrderOfEleven DEF Ids
<1>3. ASSUME NEW k \in 1 .. 11, NEW l \in 1 .. 11, f[k] = f[l] PROVE k = l
  <2>1. p[k] \in 1 .. 11 /\ p[l] \in 1 .. 11
    BY <1>1 DEF Sorts, IsEleven
  <2>2. Id(s[p[k]]) = Id(s[p[l]])
    BY <1>1, <1>3
  <2>3. p[k] = p[l]
    BY <2>1, <2>2 DEF IsEleven
  <2> QED
    BY <1>1, <2>3 DEF Sorts, IsEleven
<1>4. f \in [1 .. 11 -> ids] /\ \A x \in ids : \E k \in 1 .. 11 : f[k] = x
    BY <1>2
<1> HIDE DEF f, ids
<1>5. f \in Bijection(1 .. 11, ids)
    BY <1>3, <1>4 DEF Bijection, Injection, Surjection, IsInjective
<1>6. IsFiniteSet(1 .. 11) /\ Cardinality(1 .. 11) = 11
  <2>1. 1 \in Int /\ 11 \in Int
    OBVIOUS
  <2>2. IsFiniteSet(1 .. 11) /\ Cardinality(1 .. 11) = IF 1 > 11 THEN 0 ELSE 11 - 1 + 1
    BY ONLY <2>1, FS_Interval
  <2> QED
    BY <2>2
<1>7. Cardinality(ids) = Cardinality(1 .. 11)
    BY <1>5, <1>6, FS_Bijection DEF ExistsBijection
<1> QED
    BY <1>6, <1>7 DEF ids

LEMMA ReportIn ==
    ASSUME SetupInv, NEW a \in DOMAIN analysis
    PROVE  picking = "picked" /\ \E t \in 1 .. 2 : analysis[a] = Report(teams[t])
<1> DEFINE Reports == {Report(teams[1]), Report(teams[2])}
<1> HIDE DEF Reports
<1>1. analysis \in Seq(Reports)
    BY DEF SetupInv, Reports
<1>2. a \in 1 .. Len(analysis)
    BY <1>1, LenProperties
<1>3. analysis[a] \in Reports
    BY <1>1, <1>2, ElementOfSeq
<1>4. analysis # <<>>
    BY DEF SetupInv
<1> QED
    BY <1>3, <1>4 DEF SetupInv, Reports

\* The order that is printed is an order of the whole squad in which the bowlers
\* come before everybody else, if they alone have no balls to face.
THEOREM TailGoesFirstHolds ==
    ASSUME EnoughOfEach, TailFacesNothing
    PROVE  SetupSpec => []TailGoesFirst
<1>1. TeamsInv /\ SetupInv /\ BurstsDrawn => TailGoesFirst
  <2> SUFFICES ASSUME TeamsInv, SetupInv, BurstsDrawn, NEW a \in DOMAIN analysis
               PROVE  /\ Len(analysis[a].order) = 11
                      /\ Cardinality(Ids(analysis[a].order)) = 11
                      /\ \A i, j \in DOMAIN analysis[a].order :
                            /\ analysis[a].order[i].kind \in BowlerKinds
                            /\ analysis[a].order[j].kind \notin BowlerKinds
                            => i < j
    BY DEF TailGoesFirst
  <2>1. PICK t \in 1 .. 2 : picking = "picked" /\ analysis[a] = Report(teams[t])
    BY ReportIn
  <2> DEFINE s == Squad(teams[t])
             o == SjfOrder(s)
  <2>2. IsEleven(teams[t])
    BY <2>1, TeamsStand
  <2>3. IsEleven(s) /\ \A i \in 1 .. 11 : s[i] = teams[t][i]
    BY <2>2, SquadIsTeam
  <2>4. analysis[a].order = o
    BY <2>1 DEF Report
  <2> HIDE DEF s, o
  <2>5. ASSUME NEW i \in 1 .. 11
        PROVE  /\ s[i].balls \in Nat
               /\ s[i].kind \in BowlerKinds => s[i].balls = 0
               /\ s[i].kind \notin BowlerKinds => s[i].balls > 0
    <3>1. /\ s[i] \in Player /\ s[i].kind \in Kinds
          /\ s[i].balls \in ExpectedBalls[s[i].kind]
      BY <2>2, <2>3, TeamOfEleven DEF BurstsDrawn, Player
    <3> QED
      BY <3>1 DEF TailFacesNothing, Player
  <2>6. /\ Len(o) = 11 /\ DOMAIN o = 1 .. 11 /\ Cardinality(Ids(o)) = 11
        /\ \E p : Sorts(p, s) /\ \A k \in 1 .. 11 : o[k] = s[p[k]]
    BY <2>3, OrderOfEleven, ElevenIds DEF o
  <2>7. ASSUME NEW i \in 1 .. 11, NEW j \in 1 .. 11,
               o[i].kind \in BowlerKinds, o[j].kind \notin BowlerKinds
        PROVE  i < j
    <3>1. PICK p : Sorts(p, s) /\ \A k \in 1 .. 11 : o[k] = s[p[k]]
      BY <2>6
    <3>2. p[i] \in 1 .. 11 /\ p[j] \in 1 .. 11
      BY <2>3, <3>1 DEF Sorts, IsEleven
    <3>3. s[p[i]].balls = 0 /\ s[p[j]].balls > 0 /\ s[p[j]].balls \in Nat
      BY <2>5, <2>7, <3>1, <3>2
    <3>4. j < i => s[p[j]].balls <= s[p[i]].balls
      BY <2>3, <3>1 DEF Sorts, IsEleven
    <3>5. i # j
      BY <2>7
    <3> QED
      BY <3>3, <3>4, <3>5
  <2> QED
    BY <2>4, <2>6, <2>7
<1> QED
    BY <1>1, TeamsInvHolds, SetupInvHolds, BurstsDrawnHolds, PTL

-----------------------------------------------------------------------------
(* Sums.                                                                   *)

Any(A) == CHOOSE x \in A : TRUE

\* What the sum over A is, if one element at a time is taken from it.
OneMore(F, w, A) == IF A = {} THEN 0 ELSE w[Any(A)] + F[A \ {Any(A)}]

LEMMA SubsetSizes ==
    ASSUME NEW D, IsFiniteSet(D), NEW A \in SUBSET D
    PROVE  /\ IsFiniteSet(A) /\ Cardinality(A) \in 0 .. Cardinality(D)
           /\ \A x \in A : /\ A \ {x} \in SUBSET D
                          /\ Cardinality(A \ {x}) = Cardinality(A) - 1
           /\ Cardinality(A) = 0 <=> A = {}
<1>1. IsFiniteSet(A) /\ Cardinality(A) <= Cardinality(D)
    BY FS_Subset
<1>2. Cardinality(A) \in Nat /\ Cardinality(D) \in Nat
    BY <1>1, FS_CardinalityType
<1>3. \A x \in A : Cardinality(A \ {x}) = Cardinality(A) - 1
    BY <1>1, FS_RemoveElement
<1>4. Cardinality(A) = 0 <=> A = {}
    BY <1>1, FS_EmptySet
<1> QED
    BY <1>1, <1>2, <1>3, <1>4

LEMMA SumIterates ==
    ASSUME NEW D, IsFiniteSet(D), NEW w \in [D -> Nat]
    PROVE  \E F : SumOf(w) = F[D] /\ \A A \in SUBSET D : F[A] = OneMore(F, w, A)
<1> DEFINE n == Cardinality(D)
           Good(F, m) == \A A \in SUBSET D :
                             Cardinality(A) <= m => F[A] \in Nat /\ F[A] = OneMore(F, w, A)
           T == {m \in 0 .. n : \E F : Good(F, m)}
<1>1. n \in Nat
    BY FS_CardinalityType
<1>2. 0 \in T
  <2> DEFINE F == [A \in SUBSET D |-> 0]
  <2>1. Good(F, 0)
    <3>1. ASSUME NEW A \in SUBSET D, Cardinality(A) <= 0
          PROVE  F[A] \in Nat /\ F[A] = OneMore(F, w, A)
      <4>1. A = {}
        BY <3>1, SubsetSizes
      <4> QED
        BY <4>1 DEF OneMore
    <3> QED
      BY <3>1
  <2> HIDE DEF Good
  <2> QED
    BY <1>1, <2>1
<1>3. ASSUME NEW m \in 0 .. n, m # n, m \in T PROVE m + 1 \in T
  <2>1. PICK F : Good(F, m)
    BY <1>3
  <2> DEFINE G == [A \in SUBSET D |->
                      IF Cardinality(A) <= m THEN F[A] ELSE OneMore(F, w, A)]
  <2>2. ASSUME NEW A \in SUBSET D, Cardinality(A) <= m + 1
        PROVE  G[A] \in Nat /\ G[A] = OneMore(G, w, A)
    <3> DEFINE x == Any(A)
               B == A \ {x}
    <3>1. Cardinality(A) \in Nat
      BY SubsetSizes
    <3>2. CASE A = {}
      <4>1. Cardinality(A) <= m
        BY <1>1, <3>2, SubsetSizes
      <4>2. G[A] = F[A] /\ F[A] = 0
        BY <2>1, <3>2, <4>1 DEF OneMore
      <4> QED
        BY <3>2, <4>2 DEF OneMore
    <3>3. CASE A # {}
      <4>1. x \in A /\ w[x] \in Nat
        BY <3>3 DEF Any
      <4>2. B \in SUBSET D /\ Cardinality(B) = Cardinality(A) - 1
        BY <4>1, SubsetSizes
      <4>3. Cardinality(B) <= m
        BY <1>1, <2>2, <3>1, <4>2
      <4>4. G[B] = F[B] /\ F[B] \in Nat
        BY <2>1, <4>2, <4>3
      <4>5. OneMore(F, w, A) = w[x] + F[B] /\ OneMore(G, w, A) = w[x] + G[B]
        BY <3>3 DEF OneMore
      <4>6. G[A] = OneMore(F, w, A)
        BY <2>1
      <4> QED
        BY <4>1, <4>4, <4>5, <4>6
    <3> QED
      BY <3>2, <3>3
  <2> HIDE DEF G
  <2>3. Good(G, m + 1)
    BY <2>2
  <2> HIDE DEF Good
  <2>4. m + 1 \in 0 .. n
    BY <1>1, <1>3
  <2> QED
    BY <2>3, <2>4
<1>4. \E F : Good(F, n)
  <2> HIDE DEF T
  <2>1. 0 .. n \subseteq T
    BY <1>1, <1>2, <1>3, BoundedInduction
  <2>2. n \in T
    BY <1>1, <2>1
  <2> QED
    BY <2>2 DEF T
<1>5. PICK F : Good(F, n)
    BY <1>4
<1> DEFINE I(f) == f = [A \in SUBSET D |-> OneMore(f, w, A)]
           H == [A \in SUBSET D |-> F[A]]
<1>6. I(H)
  <2>1. ASSUME NEW A \in SUBSET D PROVE H[A] = OneMore(H, w, A)
    <3>1. Cardinality(A) <= n
      BY <1>1, SubsetSizes
    <3>2. H[A] = OneMore(F, w, A)
      BY <1>5, <3>1
    <3>3. A \ {Any(A)} \in SUBSET D
      OBVIOUS
    <3>4. H[A \ {Any(A)}] = F[A \ {Any(A)}]
      BY <3>3
    <3> HIDE DEF H
    <3> QED
      BY <3>2, <3>4 DEF OneMore
  <2>2. H = [A \in SUBSET D |-> H[A]]
    OBVIOUS
  <2> HIDE DEF H
  <2> QED
    BY <2>1, <2>2
<1> DEFINE f == CHOOSE g : I(g)
<1>7. I(f)
  <2> HIDE DEF I
  <2> QED
    BY <1>6
<1>8. SumOf(w) = f[D]
  <2>1. DOMAIN w = D
    OBVIOUS
  <2> QED
    BY <2>1 DEF SumOf, MapThenSumSet, MapThenFoldSet, OneMore, Any
<1> HIDE DEF f
<1>9. \A A \in SUBSET D : f[A] = OneMore(f, w, A)
    BY <1>7
<1> QED
    BY <1>8, <1>9

\* F has the sums of w over the subsets of D.
IsSum(F, w, D) ==
    /\ F[{}] = 0
    /\ \A A \in SUBSET D : F[A] \in Nat /\ \A x \in A : F[A] = w[x] + F[A \ {x}]

\* The order in which the elements are taken makes no difference.
LEMMA SumExists ==
    ASSUME NEW D, IsFiniteSet(D), NEW w \in [D -> Nat]
    PROVE  \E F : IsSum(F, w, D) /\ SumOf(w) = F[D]
<1> DEFINE n == Cardinality(D)
<1>1. n \in Nat
    BY FS_CardinalityType
<1>2. PICK F : SumOf(w) = F[D] /\ \A A \in SUBSET D : F[A] = OneMore(F, w, A)
    BY SumIterates
<1> DEFINE Good(A) == F[A] \in Nat /\ \A x \in A : F[A] = w[x] + F[A \ {x}]
           T == {m \in 0 .. n : \A A \in SUBSET D : Cardinality(A) <= m => Good(A)}
<1>3. F[{}] = 0
    BY <1>2 DEF OneMore
<1>4. 0 \in T
  <2>1. ASSUME NEW A \in SUBSET D, Cardinality(A) <= 0 PROVE Good(A)
    <3>1. A = {}
      BY <2>1, SubsetSizes
    <3> QED
      BY <1>3, <3>1
  <2> HIDE DEF Good
  <2> QED
    BY <1>1, <2>1
<1>5. ASSUME NEW m \in 0 .. n, m # n, m \in T PROVE m + 1 \in T
  <2>1. ASSUME NEW A \in SUBSET D, Cardinality(A) <= m + 1 PROVE Good(A)
    <3>1. Cardinality(A) \in Nat
      BY SubsetSizes
    <3>2. CASE A = {}
      BY <1>3, <3>2
    <3>3. CASE A # {}
      <4> DEFINE a == Any(A)
      <4>1. a \in A /\ F[A] = w[a] + F[A \ {a}]
        BY <1>2, <3>3 DEF Any, OneMore
      <4> HIDE DEF a
      <4>2. ASSUME NEW x \in A PROVE Good(A \ {x})
        <5>1. A \ {x} \in SUBSET D /\ Cardinality(A \ {x}) <= m
          BY <1>1, <2>1, <3>1, SubsetSizes
        <5> QED
          BY <1>5, <5>1
      <4>3. \A x \in A : F[A \ {x}] \in Nat /\ w[x] \in Nat
        BY <4>2
      <4>4. ASSUME NEW x \in A PROVE F[A] = w[x] + F[A \ {x}]
        <5>1. CASE x = a
          BY <4>1, <5>1
        <5>2. CASE x # a
          <6>1. F[A \ {a}] = w[x] + F[(A \ {a}) \ {x}]
            BY <4>1, <4>2, <5>2
          <6>2. F[A \ {x}] = w[a] + F[(A \ {x}) \ {a}]
            BY <4>1, <4>2, <5>2
          <6>3. (A \ {a}) \ {x} = (A \ {x}) \ {a}
            OBVIOUS
          <6> DEFINE r == F[(A \ {x}) \ {a}]
          <6>4. r \in Nat
            <7>1. (A \ {x}) \ {a} \in SUBSET D /\ Cardinality((A \ {x}) \ {a}) <= m
              <8>1. /\ A \ {x} \in SUBSET D /\ Cardinality(A \ {x}) = Cardinality(A) - 1
                BY SubsetSizes
              <8>2. a \in A \ {x}
                BY <4>1, <5>2
              <8>3. Cardinality((A \ {x}) \ {a}) = Cardinality(A \ {x}) - 1
                <9> DEFINE B == A \ {x}
                <9>1. B \in SUBSET D /\ a \in B
                  BY <8>1, <8>2
                <9> HIDE DEF B
                <9>2. Cardinality(B \ {a}) = Cardinality(B) - 1
                  BY <9>1, SubsetSizes
                <9> QED
                  BY <9>2 DEF B
              <8> QED
                BY <1>1, <2>1, <3>1, <8>1, <8>3
            <7> QED
              BY <1>5, <7>1
          <6> HIDE DEF r
          <6>5. F[A \ {a}] = w[x] + r /\ F[A \ {x}] = w[a] + r
            BY <6>1, <6>2, <6>3 DEF r
          <6> QED
            BY <4>1, <4>3, <6>4, <6>5
        <5> QED
          BY <5>1, <5>2
      <4>5. F[A] \in Nat
        BY <4>1, <4>3
      <4> QED
        BY <4>4, <4>5
    <3> QED
      BY <3>2, <3>3
  <2> HIDE DEF Good
  <2>2. m + 1 \in 0 .. n
    BY <1>1, <1>5
  <2> QED
    BY <2>1, <2>2
<1>6. \A A \in SUBSET D : Good(A)
  <2> HIDE DEF T, Good
  <2>1. 0 .. n \subseteq T
    BY <1>1, <1>4, <1>5, BoundedInduction
  <2>2. n \in T
    BY <1>1, <2>1
  <2>3. \A A \in SUBSET D : Cardinality(A) <= n
    BY <1>1, SubsetSizes
  <2> QED
    BY <2>2, <2>3 DEF T
<1>7. IsSum(F, w, D)
    BY <1>3, <1>6 DEF IsSum
<1> QED
    BY <1>2, <1>7

-----------------------------------------------------------------------------
(* The waiting times.                                                      *)

\* W is how long each of s waits for his turn.
IsWait(W, s) ==
    /\ W \in [1 .. Len(s) -> Nat]
    /\ \A i \in 1 .. Len(s) : W[i] = IF i = 1 THEN 0 ELSE W[i - 1] + s[i - 1].balls

LEMMA WaitsOf ==
    ASSUME NEW s \in Seq(Player)
    PROVE  IsWait(Waits(s), s)
<1> DEFINE n == Len(s)
           Good(g, m) == \A i \in 1 .. m :
               /\ g[i] \in Nat
               /\ g[i] = IF i = 1 THEN 0 ELSE g[i - 1] + s[i - 1].balls
           T == {m \in 0 .. n : \E g : Good(g, m)}
<1>1. n \in Nat /\ DOMAIN s = 1 .. n /\ \A i \in 1 .. n : s[i].balls \in Nat
    BY BurstTimes
<1> HIDE DEF n
<1>2. 0 \in T
  <2>1. \A i \in 1 .. 0 : FALSE
    OBVIOUS
  <2>2. \A g : Good(g, 0)
    BY <2>1
  <2> QED
    BY <1>1, <2>2
<1>3. ASSUME NEW m \in 0 .. n, m # n, m \in T PROVE m + 1 \in T
  <2>1. PICK g : Good(g, m)
    BY <1>3
  <2> DEFINE v == IF m = 0 THEN 0 ELSE g[m] + s[m].balls
             h == [i \in 1 .. n |-> IF i = m + 1 THEN v ELSE g[i]]
  <2>2. v \in Nat
    BY <1>1, <2>1
  <2>3. \A i \in 1 .. n : h[i] = IF i = m + 1 THEN v ELSE g[i]
    OBVIOUS
  <2> HIDE DEF h
  <2>4. ASSUME NEW i \in 1 .. m + 1
        PROVE  /\ h[i] \in Nat
               /\ h[i] = IF i = 1 THEN 0 ELSE h[i - 1] + s[i - 1].balls
    <3>1. i \in 1 .. n /\ (i # 1 => i - 1 \in 1 .. n /\ i - 1 # m + 1)
      BY <1>1, <1>3
    <3>2. i # 1 => h[i - 1] = g[i - 1]
      BY <2>3, <3>1
    <3>3. CASE i = m + 1
      BY <2>2, <2>3, <3>1, <3>2, <3>3
    <3>4. CASE i # m + 1
      <4>1. i \in 1 .. m /\ h[i] = g[i]
        BY <2>3, <3>1, <3>4
      <4> QED
        BY <2>1, <3>2, <4>1
    <3> QED
      BY <3>3, <3>4
  <2>5. m + 1 \in 0 .. n /\ Good(h, m + 1)
    BY <1>1, <1>3, <2>4
  <2> HIDE DEF Good
  <2> QED
    BY <2>5
<1>4. \E g : Good(g, n)
  <2> HIDE DEF T
  <2>1. 0 .. n \subseteq T
    BY <1>1, <1>2, <1>3, BoundedInduction
  <2>2. n \in T
    BY <1>1, <2>1
  <2> QED
    BY <2>2 DEF T
<1>5. PICK g : Good(g, n)
    BY <1>4
<1> DEFINE I(f) == f = [i \in DOMAIN s |->
                           IF i = 1 THEN 0 ELSE f[i - 1] + s[i - 1].balls]
           h == [i \in 1 .. n |-> g[i]]
<1>6. I(h)
  <2>1. ASSUME NEW i \in 1 .. n
        PROVE  h[i] = IF i = 1 THEN 0 ELSE h[i - 1] + s[i - 1].balls
    <3>1. i # 1 => i - 1 \in 1 .. n
      BY <1>1
    <3> QED
      BY <1>5, <3>1
  <2>2. h = [i \in 1 .. n |-> h[i]]
    OBVIOUS
  <2> HIDE DEF h
  <2> QED
    BY <1>1, <2>1, <2>2
<1> DEFINE f == CHOOSE W : I(W)
<1>7. I(f)
  <2> HIDE DEF I
  <2> QED
    BY <1>6
<1>8. Waits(s) = f
    BY DEF Waits
<1> HIDE DEF f
<1>9. f = [i \in 1 .. n |-> IF i = 1 THEN 0 ELSE f[i - 1] + s[i - 1].balls]
    BY <1>1, <1>7
<1>10. \A i \in 1 .. n : f[i] = IF i = 1 THEN 0 ELSE f[i - 1] + s[i - 1].balls
    BY <1>9
<1> DEFINE U == {m \in 0 .. n : \A i \in 1 .. m : f[i] \in Nat}
<1>11. 0 \in U
    BY <1>1
<1>12. ASSUME NEW m \in 0 .. n, m # n, m \in U PROVE m + 1 \in U
  <2>1. m + 1 \in 1 .. n /\ m + 1 \in 0 .. n
    BY <1>1, <1>12
  <2>2. f[m + 1] = IF m = 0 THEN 0 ELSE f[m] + s[m].balls
    BY <1>10, <2>1
  <2>3. f[m + 1] \in Nat
    BY <1>1, <1>12, <2>2
  <2> QED
    BY <1>12, <2>1, <2>3
<1>13. \A i \in 1 .. n : f[i] \in Nat
  <2> HIDE DEF U
  <2>1. 0 .. n \subseteq U
    BY <1>1, <1>11, <1>12, BoundedInduction
  <2>2. n \in U
    BY <1>1, <2>1
  <2> QED
    BY <2>2 DEF U
<1>14. f \in [1 .. n -> Nat]
    BY <1>9, <1>13
<1> QED
    BY <1>8, <1>10, <1>14 DEF IsWait, n

\* The pairs of places, the earlier place first, and those of them that come up
\* to <<k, m>> when the pairs are counted by their later place.
Pairs(n) == {x \in (1 .. n) \X (1 .. n) : x[1] < x[2]}
Upto(n, m, k) == {x \in Pairs(n) : x[2] < m \/ (x[2] = m /\ x[1] <= k)}

LEMMA PairsAreFinite ==
    ASSUME NEW n \in Nat
    PROVE  IsFiniteSet(Pairs(n))
<1>1. IsFiniteSet(1 .. n)
    BY FS_Interval
<1>2. IsFiniteSet((1 .. n) \X (1 .. n))
    BY <1>1, FS_Product
<1>3. Pairs(n) \subseteq (1 .. n) \X (1 .. n)
    BY DEF Pairs
<1> QED
    BY <1>2, <1>3, FS_Subset

LEMMA OnePairMore ==
    ASSUME NEW n \in Nat, NEW m \in 1 .. n, NEW k \in 0 .. m - 1, k # m - 1
    PROVE  /\ <<k + 1, m>> \in Upto(n, m, k + 1)
           /\ Upto(n, m, k + 1) \ {<<k + 1, m>>} = Upto(n, m, k)
<1>1. k + 1 \in 1 .. n /\ k + 1 < m
    OBVIOUS
<1>2. <<k + 1, m>> \in Pairs(n)
    BY <1>1 DEF Pairs
<1>3. ASSUME NEW x \in Pairs(n)
      PROVE  x \in Upto(n, m, k + 1) /\ x # <<k + 1, m>> <=> x \in Upto(n, m, k)
  <2>1. x = <<x[1], x[2]>> /\ x[1] \in 1 .. n /\ x[2] \in 1 .. n
    BY DEF Pairs
  <2>2. x # <<k + 1, m>> <=> x[1] # k + 1 \/ x[2] # m
    BY <2>1
  <2> QED
    BY <1>1, <2>1, <2>2 DEF Upto
<1> QED
    BY <1>2, <1>3 DEF Upto

LEMMA RowsOfPairs ==
    ASSUME NEW n \in Nat
    PROVE  /\ \A m \in 1 .. n : Upto(n, m, m - 1) = Upto(n, m + 1, 0)
           /\ Upto(n, 1, 0) = {} /\ Upto(n, n + 1, 0) = Pairs(n)
<1>1. ASSUME NEW x \in Pairs(n)
      PROVE  x[1] \in 1 .. n /\ x[2] \in 1 .. n /\ x[1] < x[2]
    BY DEF Pairs
<1>2. ASSUME NEW m \in 1 .. n, NEW x \in Pairs(n)
      PROVE  x \in Upto(n, m, m - 1) <=> x \in Upto(n, m + 1, 0)
    BY <1>1 DEF Upto
<1>3. ASSUME NEW x \in Pairs(n)
      PROVE  x \notin Upto(n, 1, 0) /\ x \in Upto(n, n + 1, 0)
    BY <1>1 DEF Upto
<1> QED
    BY <1>2, <1>3 DEF Upto

\* q gives every pair the job of the earlier of the two.
IsEarlierJob(q, s, n) ==
    q \in [Pairs(n) -> Nat] /\ \A x \in Pairs(n) : q[x] = s[x[1]].balls

\* What a player waits is what those before him have to face: the pairs in which
\* he comes later.
LEMMA RowSum ==
    ASSUME NEW s \in Seq(Player), NEW W, IsWait(W, s),
           NEW q, IsEarlierJob(q, s, Len(s)),
           NEW H, IsSum(H, q, Pairs(Len(s))),
           NEW m \in 1 .. Len(s)
    PROVE  H[Upto(Len(s), m + 1, 0)] = H[Upto(Len(s), m, 0)] + W[m]
<1> DEFINE n == Len(s)
           T == {k \in 0 .. m - 1 : H[Upto(n, m, k)] = H[Upto(n, m, 0)] + W[k + 1]}
<1>1. n \in Nat /\ m - 1 \in Nat /\ m \in 1 .. n
    BY BurstTimes
<1>2. \A i \in 1 .. n : /\ W[i] \in Nat /\ s[i].balls \in Nat
                        /\ W[i] = IF i = 1 THEN 0 ELSE W[i - 1] + s[i - 1].balls
    BY BurstTimes DEF IsWait
<1>3. \A k : H[Upto(n, m, k)] \in Nat
  <2>1. \A k : Upto(n, m, k) \in SUBSET Pairs(n)
    BY DEF Upto
  <2> QED
    BY <2>1 DEF IsSum
<1> HIDE DEF n
<1>4. 0 \in T
  <2>1. 1 \in 1 .. n
    BY <1>1
  <2>2. W[0 + 1] = 0
    BY <1>2, <2>1
  <2> QED
    BY <1>1, <1>3, <2>2
<1>5. ASSUME NEW k \in 0 .. m - 1, k # m - 1, k \in T PROVE k + 1 \in T
  <2> DEFINE x == <<k + 1, m>>
  <2>1. x \in Upto(n, m, k + 1) /\ Upto(n, m, k + 1) \ {x} = Upto(n, m, k)
    BY <1>1, <1>5, OnePairMore
  <2>2. x \in Pairs(n) /\ Upto(n, m, k + 1) \in SUBSET Pairs(n)
    BY <2>1 DEF Upto
  <2>3. q[x] = s[k + 1].balls
    BY <2>2 DEF n, IsEarlierJob
  <2> HIDE DEF x
  <2>4. H[Upto(n, m, k + 1)] = q[x] + H[Upto(n, m, k)]
    BY <2>1, <2>2 DEF IsSum, n
  <2>5. k + 1 \in 1 .. n /\ k + 2 \in 1 .. n /\ k + 1 \in 0 .. m - 1
    BY <1>1, <1>5
  <2>6. W[k + 2] = W[k + 1] + s[k + 1].balls
    BY <1>2, <2>5
  <2>7. H[Upto(n, m, k)] = H[Upto(n, m, 0)] + W[k + 1]
    BY <1>5
  <2>8. H[Upto(n, m, k + 1)] = H[Upto(n, m, 0)] + W[k + 2]
    BY <1>2, <1>3, <2>3, <2>4, <2>5, <2>6, <2>7
  <2>9. (k + 1) + 1 = k + 2
    OBVIOUS
  <2> QED
    BY <2>5, <2>8, <2>9
<1>6. m - 1 \in T
  <2> HIDE DEF T
  <2>1. 0 .. m - 1 \subseteq T
    BY <1>1, <1>4, <1>5, BoundedInduction
  <2> QED
    BY <1>1, <2>1
<1>7. H[Upto(n, m, m - 1)] = H[Upto(n, m, 0)] + W[m]
  <2>1. (m - 1) + 1 = m
    OBVIOUS
  <2> QED
    BY <1>6, <2>1
<1>8. Upto(n, m, m - 1) = Upto(n, m + 1, 0)
    BY <1>1, RowsOfPairs
<1> QED
    BY <1>7, <1>8 DEF n

\* The places that p gives to the first m.
Image(p, m) == {p[k] : k \in 1 .. m}

\* p is an order of the places 1 .. n.
IsOrder(p, n) ==
    /\ \A k \in 1 .. n : p[k] \in 1 .. n
    /\ \A k, l \in 1 .. n : p[k] = p[l] => k = l
    /\ \A i \in 1 .. n : \E k \in 1 .. n : p[k] = i

LEMMA ImageGrows ==
    ASSUME NEW n \in Nat, NEW p, IsOrder(p, n)
    PROVE  /\ Image(p, 0) = {} /\ Image(p, n) = 1 .. n
           /\ \A m \in 0 .. n : Image(p, m) \in SUBSET (1 .. n)
           /\ \A m \in 0 .. n : m # n =>
                 /\ p[m + 1] \in Image(p, m + 1)
                 /\ Image(p, m + 1) \ {p[m + 1]} = Image(p, m)
<1>1. Image(p, 0) = {}
  <2>1. 1 .. 0 = {}
    OBVIOUS
  <2> QED
    BY ONLY <2>1 DEF Image
<1>2. Image(p, n) = 1 .. n
  <2>1. Image(p, n) \subseteq 1 .. n
    BY DEF Image, IsOrder
  <2>2. ASSUME NEW i \in 1 .. n PROVE i \in Image(p, n)
    <3>1. \E k \in 1 .. n : p[k] = i
      BY DEF IsOrder
    <3> QED
      BY <3>1 DEF Image
  <2> QED
    BY <2>1, <2>2
<1>3. ASSUME NEW m \in 0 .. n PROVE Image(p, m) \in SUBSET (1 .. n)
  <2>1. 1 .. m \subseteq 1 .. n
    OBVIOUS
  <2>2. \A k \in 1 .. m : p[k] \in 1 .. n
    BY <2>1 DEF IsOrder
  <2> QED
    BY ONLY <2>2 DEF Image
<1>4. ASSUME NEW m \in 0 .. n, m # n
      PROVE  /\ p[m + 1] \in Image(p, m + 1)
             /\ Image(p, m + 1) \ {p[m + 1]} = Image(p, m)
  <2> DEFINE j == m + 1
  <2>1. j \in 1 .. n /\ j \in 1 .. j /\ 1 .. j \subseteq 1 .. n
    BY <1>4
  <2>2. (1 .. j) \ {j} = 1 .. m
    OBVIOUS
  <2> HIDE DEF j
  <2>3. \A k \in 1 .. j : p[k] = p[j] => k = j
    BY <2>1, Zenon DEF IsOrder
  <2>4. {p[k] : k \in 1 .. j} \ {p[j]} = {p[k] : k \in (1 .. j) \ {j}}
    BY <2>3, Zenon
  <2>5. p[j] \in {p[k] : k \in 1 .. j}
    BY <2>1
  <2> QED
    BY <2>2, <2>4, <2>5 DEF Image, j
<1> QED
    BY <1>1, <1>2, <1>3, <1>4

\* p puts the column c in the order of the waiting times.
IsColumn(c, p, W, n) == \A k \in 1 .. n : W[k] \in Nat /\ c[p[k]] = W[k]

\* H adds up the waiting times, row by row of the pairs.
AddsRows(H, W, n) ==
    /\ H[{}] = 0
    /\ \A m \in 1 .. n : H[Upto(n, m + 1, 0)] = H[Upto(n, m, 0)] + W[m]

LEMMA SumsAgree ==
    ASSUME NEW n \in Nat, NEW p, IsOrder(p, n),
           NEW W, NEW c, IsColumn(c, p, W, n),
           NEW F, IsSum(F, c, 1 .. n), NEW H, AddsRows(H, W, n)
    PROVE  F[1 .. n] = H[Pairs(n)]
<1> DEFINE T == {m \in 0 .. n : F[Image(p, m)] = H[Upto(n, m + 1, 0)]}
<1>1. 0 \in T
  <2>1. Upto(n, 1, 0) = {} /\ 0 + 1 = 1
    BY RowsOfPairs
  <2>2. F[{}] = 0 /\ H[{}] = 0
    BY DEF IsSum, AddsRows
  <2>3. F[Image(p, 0)] = H[Upto(n, 0 + 1, 0)]
    BY <2>1, <2>2, ImageGrows
  <2> QED
    BY <2>3
<1>2. ASSUME NEW m \in 0 .. n, m # n, m \in T PROVE m + 1 \in T
  <2>1. m + 1 \in 1 .. n /\ m + 1 \in 0 .. n
    BY <1>2
  <2>2. /\ Image(p, m + 1) \in SUBSET (1 .. n) /\ Image(p, m) \in SUBSET (1 .. n)
        /\ p[m + 1] \in Image(p, m + 1)
        /\ Image(p, m + 1) \ {p[m + 1]} = Image(p, m)
    BY <1>2, <2>1, ImageGrows
  <2>3. F[Image(p, m + 1)] = c[p[m + 1]] + F[Image(p, m)]
    <3>1. \A A \in SUBSET (1 .. n) : \A x \in A : F[A] = c[x] + F[A \ {x}]
      BY DEF IsSum
    <3>2. F[Image(p, m + 1)] = c[p[m + 1]] + F[Image(p, m + 1) \ {p[m + 1]}]
      BY <2>2, <3>1, Zenon
    <3> QED
      BY <2>2, <3>2
  <2>4. F[Image(p, m)] \in Nat
    BY <2>2 DEF IsSum
  <2>5. H[Upto(n, (m + 1) + 1, 0)] = H[Upto(n, m + 1, 0)] + W[m + 1]
    BY <2>1 DEF AddsRows
  <2>6. c[p[m + 1]] = W[m + 1] /\ W[m + 1] \in Nat
    BY <2>1 DEF IsColumn
  <2>7. F[Image(p, m)] = H[Upto(n, m + 1, 0)]
    BY <1>2
  <2>8. F[Image(p, m + 1)] = H[Upto(n, (m + 1) + 1, 0)]
    BY <2>3, <2>4, <2>5, <2>6, <2>7
  <2> QED
    BY <2>1, <2>8
<1>3. F[Image(p, n)] = H[Upto(n, n + 1, 0)]
  <2> HIDE DEF T
  <2>1. 0 .. n \subseteq T
    BY <1>1, <1>2, BoundedInduction
  <2>2. n \in T
    BY <2>1
  <2> QED
    BY <2>2 DEF T
<1> QED
    BY <1>3, RowsOfPairs, ImageGrows

\* Whatever order the column is in, it comes to the sum over the pairs.
LEMMA SumOfWaits ==
    ASSUME NEW s \in Seq(Player), NEW W, IsWait(W, s),
           NEW n \in Nat, Len(s) = n,
           NEW q, IsEarlierJob(q, s, n),
           NEW p, IsOrder(p, n), NEW c \in [1 .. n -> Nat], IsColumn(c, p, W, n)
    PROVE  SumOf(c) = SumOf(q)
<1>1. IsFiniteSet(1 .. n)
    BY FS_Interval
<1>2. IsFiniteSet(Pairs(n))
    BY PairsAreFinite
<1>3. PICK F : IsSum(F, c, 1 .. n) /\ SumOf(c) = F[1 .. n]
    BY <1>1, SumExists
<1>4. PICK H : IsSum(H, q, Pairs(n)) /\ SumOf(q) = H[Pairs(n)]
    BY <1>2, SumExists DEF IsEarlierJob
<1>5. AddsRows(H, W, n)
  <2>1. \A m \in 1 .. n : H[Upto(n, m + 1, 0)] = H[Upto(n, m, 0)] + W[m]
    BY <1>4, RowSum
  <2> QED
    BY <1>4, <2>1 DEF IsSum, AddsRows
<1>6. F[1 .. n] = H[Pairs(n)]
    BY <1>3, <1>5, SumsAgree
<1> QED
    BY <1>3, <1>4, <1>6

-----------------------------------------------------------------------------
(* The shortest job first.                                                 *)

LEMMA OneMax == ASSUME NEW k \in Nat PROVE Max({k}) = k
BY DEF Max

\* The column of the table, put in the order of the burst times.
LEMMA ColumnOfWaits ==
    ASSUME NEW s, IsEleven(s), NEW p, Sorts(p, s),
           \A k \in 1 .. 11 : SjfOrder(s)[k] = s[p[k]], NEW k \in 1 .. 11
    PROVE  SjfWait(SjfOrder(s), s[p[k]]) = Waits(SjfOrder(s))[k]
<1> DEFINE o == SjfOrder(s)
<1>1. DOMAIN o = 1 .. 11
    BY OrderOfEleven
<1>2. ASSUME NEW l \in 1 .. 11, Id(o[l]) = Id(s[p[k]]) PROVE l = k
  <2>1. p[l] \in 1 .. 11 /\ p[k] \in 1 .. 11
    BY DEF Sorts, IsEleven
  <2>2. p[l] = p[k]
    BY <1>2, <2>1 DEF IsEleven
  <2> QED
    BY <2>2 DEF Sorts, IsEleven
<1>3. Id(o[k]) = Id(s[p[k]])
    OBVIOUS
<1>4. {l \in DOMAIN o : Id(o[l]) = Id(s[p[k]])} = {k}
  <2> HIDE DEF o
  <2> QED
    BY <1>1, <1>2, <1>3
<1> QED
    BY <1>4, OneMax DEF SjfWait

\* Of two places the earlier one has the shorter job.
LEMMA ShorterFirst ==
    ASSUME NEW s, IsEleven(s), NEW x \in Pairs(11)
    PROVE  /\ SjfOrder(s)[x[1]].balls \in Nat
           /\ Min({SjfOrder(s)[x[1]].balls, SjfOrder(s)[x[2]].balls})
                  = SjfOrder(s)[x[1]].balls
<1> DEFINE o == SjfOrder(s)
<1>1. x[1] \in 1 .. 11 /\ x[2] \in 1 .. 11 /\ x[1] < x[2]
    BY DEF Pairs
<1>2. o[x[1]].balls \in Nat /\ o[x[2]].balls \in Nat
    BY <1>1, OrderOfEleven, BurstTimes
<1>3. o[x[1]].balls <= o[x[2]].balls
  <2>1. PICK p : Sorts(p, s) /\ \A k \in 1 .. 11 : o[k] = s[p[k]]
    BY OrderOfEleven
  <2>2. s[p[x[1]]].balls <= s[p[x[2]]].balls
    BY <1>1, <2>1 DEF Sorts, IsEleven
  <2> QED
    BY <1>1, <2>1, <2>2
<1> HIDE DEF o
<1>4. Min({o[x[1]].balls, o[x[2]].balls}) = o[x[1]].balls
    BY <1>2, <1>3 DEF Min
<1> QED
    BY <1>2, <1>4 DEF o

\* The waiting comes to what the shorter job of every pair takes.
LEMMA ReportIsOptimal ==
    ASSUME NEW s, IsEleven(s), NEW o, o = SjfOrder(s)
    PROVE  SumOf([i \in DOMAIN s |-> SjfWait(o, s[i])])
               = SumOf([x \in Pairs(11) |-> Min({o[x[1]].balls, o[x[2]].balls})])
<1> DEFINE c == [i \in DOMAIN s |-> SjfWait(o, s[i])]
           q == [x \in Pairs(11) |-> Min({o[x[1]].balls, o[x[2]].balls})]
           W == Waits(o)
<1>1. DOMAIN s = 1 .. 11 /\ Len(s) = 11
    BY TeamOfEleven
<1>2. o \in Seq(Player) /\ Len(o) = 11
    BY OrderOfEleven
<1>3. PICK p : Sorts(p, s) /\ \A k \in 1 .. 11 : o[k] = s[p[k]]
    BY OrderOfEleven
<1>4. IsOrder(p, 11)
    BY <1>1, <1>3 DEF Sorts, IsOrder
<1>5. IsWait(W, o)
    BY <1>2, WaitsOf
<1>6. IsEarlierJob(q, o, 11)
    BY ShorterFirst DEF IsEarlierJob
<1>7. \A k \in 1 .. 11 : W[k] \in Nat
    BY <1>2, <1>5 DEF IsWait
<1>8. \A k \in 1 .. 11 : c[p[k]] = W[k]
  <2>1. \A k \in 1 .. 11 : p[k] \in 1 .. 11
    BY <1>4 DEF IsOrder
  <2>2. \A k \in 1 .. 11 : SjfWait(o, s[p[k]]) = W[k]
    BY <1>3, ColumnOfWaits
  <2> QED
    BY <1>1, <2>1, <2>2
<1>9. c \in [1 .. 11 -> Nat]
  <2>1. ASSUME NEW i \in 1 .. 11 PROVE c[i] \in Nat
    <3>1. PICK k \in 1 .. 11 : p[k] = i
      BY <1>4 DEF IsOrder
    <3> HIDE DEF c, W
    <3> QED
      BY <1>7, <1>8, <3>1
  <2>2. c = [i \in 1 .. 11 |-> c[i]]
    BY <1>1
  <2> HIDE DEF c
  <2> QED
    BY <2>1, <2>2
<1> HIDE DEF c, q, W
<1>10. IsColumn(c, p, W, 11)
    BY <1>7, <1>8 DEF IsColumn
<1>11. SumOf(c) = SumOf(q)
  <2> DEFINE n == 11
  <2>1. n \in Nat
    OBVIOUS
  <2>2. /\ Len(o) = n /\ IsEarlierJob(q, o, n) /\ IsOrder(p, n)
        /\ c \in [1 .. n -> Nat] /\ IsColumn(c, p, W, n)
    BY <1>2, <1>4, <1>6, <1>9, <1>10
  <2> HIDE DEF n
  <2> QED
    BY <1>2, <1>5, <2>1, <2>2, SumOfWaits
<1> QED
    BY <1>11 DEF c, q

\* Shortest job first makes the least of the waiting: the table of each team comes
\* to the shorter job of every two players, whatever the burst times.
THEOREM SjfIsOptimalHolds ==
    ASSUME EnoughOfEach
    PROVE  SetupSpec => []SjfIsOptimal
<1>1. TeamsInv /\ SetupInv => SjfIsOptimal
  <2> SUFFICES ASSUME TeamsInv, SetupInv, NEW a \in DOMAIN analysis
               PROVE  LET s == analysis[a].order
                          pairs == {x \in (DOMAIN s) \X (DOMAIN s) : x[1] < x[2]}
                      IN  SumOf(analysis[a].sjf)
                          = SumOf([x \in pairs |-> Min({s[x[1]].balls, s[x[2]].balls})])
    BY DEF SjfIsOptimal
  <2>1. PICK t \in 1 .. 2 : picking = "picked" /\ analysis[a] = Report(teams[t])
    BY ReportIn
  <2> DEFINE s == Squad(teams[t])
             o == SjfOrder(s)
  <2>2. IsEleven(s)
    BY <2>1, TeamsStand, SquadIsTeam
  <2>3. DOMAIN o = 1 .. 11
    BY <2>2, OrderOfEleven
  <2>4. /\ analysis[a].order = o
        /\ analysis[a].sjf = [i \in DOMAIN s |-> SjfWait(o, s[i])]
    BY <2>1 DEF Report
  <2> HIDE DEF s
  <2>5. SumOf([i \in DOMAIN s |-> SjfWait(o, s[i])])
            = SumOf([x \in Pairs(11) |-> Min({o[x[1]].balls, o[x[2]].balls})])
    BY <2>2, ReportIsOptimal
  <2> HIDE DEF o
  <2> QED
    BY <2>3, <2>4, <2>5 DEF Pairs
<1> QED
    BY <1>1, TeamsInvHolds, SetupInvHolds, PTL
=============================================================================
