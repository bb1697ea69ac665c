---------------------------- MODULE MCMatchSetup ----------------------------
(***************************************************************************)
(* MatchSetup with the pools of init_all_players.  Burst times are drawn   *)
(* from the ends of the ranges the program draws them from, which overlap; *)
(* some kinds are given one value to keep the number of squads small.      *)
(***************************************************************************)
EXTENDS MatchSetup

ProgramPools == [k \in Kinds |->
    CASE k = "ATTACKING_OPENER" -> 6 [] k = "ANCHOR_OPENER" -> 4
      [] k = "TECHNICAL_ANCHOR" -> 6 [] k = "MIDDLE_HITTER" -> 5
      [] k = "FINISHER"         -> 4 [] k = "WK_BATSMAN"    -> 8
      [] k = "MEDIUM_AR"        -> 4 [] k = "DEATH_AR"      -> 2
      [] k = "SWING_AR"         -> 2 [] k = "SPIN_AR"       -> 7
      [] k = "SPIN"             -> 5 [] k = "SWING"         -> 9
      [] k = "DEATH"            -> 3]

ProgramBalls == [k \in Kinds |->
    CASE k = "ATTACKING_OPENER" -> {20, 35} [] k = "ANCHOR_OPENER" -> {30, 45}
      [] k = "TECHNICAL_ANCHOR" -> {35, 55} [] k = "MIDDLE_HITTER" -> {15}
      [] k = "FINISHER"         -> {22}     [] k = "WK_BATSMAN"    -> {20, 35}
      [] k = "SPIN_AR"          -> {12, 25}
      [] k \in AllRounderKinds \ {"SPIN_AR"} -> {15}
      [] k \in BowlerKinds      -> {0}]
=============================================================================
