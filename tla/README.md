# T20CricketSimulator: a formal model

The simulator plays a T20 match with operating-system machinery: every bowler,
batsman, fielder and the umpire is a POSIX thread, the pitch is a shared
buffer, the crease is a semaphore of two, and the next bowler is chosen by a
CPU-scheduling policy.  This directory models the parts of it in which the
order of steps matters, and the arithmetic behind a ball, a team and a match,
checks them with TLC, and proves with TLAPS what matters most about each of them
for every value of the constants: any number of fielders, batsmen, bowlers and
overs, any target, pools of any size.

Source references are to `src/` (so `player_threads.cpp` is
`src/src/player_threads.cpp`).  `PROJECT.json` maps each definition to its lines.

## 1. The system

| Component | State it keeps | Operations | Module |
|---|---|---|---|
| Fielder race (`player_threads.cpp` 247-305, 479-604; `synchronization.cpp` 76-121) | `g_shot_state` (shot, slot per fielder, `fielders_remaining`, `fielding_done`, `winner_idx`), `ball_in_air` | reset, publish, hit, vote, count down, scan, signal | `FielderRace` |
| Shot and race outcome (`utils.cpp` 145-287; `player_threads.cpp` 507-587) | the board, `winner_idx`, `winner_reach_ms`, `winner_caught` | `generate_shot`, time of a fielder, choice of the winner, `resolve_fielding_outcome` | `ShotOutcome` |
| Bowler thread (60-157) | `legal_balls`, figures, the pitch buffer | deliver, wait for the stroke, count the ball | `BowlerThread` |
| Batsman threads (163-460) | `is_out`, `is_active`, the crease semaphore, strike, score | enter, wait for strike, take/put back a delivery, score, dismiss, promote, cross, leave | `BatsmanThread` |
| Umpire thread (610-741, 818-850) | `holds_end`/`wants_end`, `match_over`, `deadlock_forced` | scan for a circular wait, inject one, run a batsman out, end the match | `UmpireThread` |
| Innings and over loop (`match_engine.cpp` 705-853) | `current_over`, the flags of the over, thread ids | start over, reset flags, assign striker, spawn and join, swap ends, shut down | `Innings` |
| Bowler scheduler (`scheduler.cpp` 36-324) | `rr_head_`, `current_bowler_idx`, figures, saved contexts | `rr_next`, `priority_next`, `compute_dynamic_priority`, `schedule_next_bowler`, `notify_over_complete` | `BowlerPriority`, `BowlerScheduler` |
| Match phases and intensity (`match_engine.cpp` 434-466, `scheduler.cpp` 432-440) | `current_phase`, `phase_intensity`, `intensity` | `update_phase`, `compute_phase_intensity`, `update_intensity` | `MatchPhases` |
| The match of two innings (`match_engine.cpp` 533-623, `utils.cpp` 402-422) | `target`, totals, `innings1_runs_` | innings 1, reset, innings 2, result | `MatchPlay` |
| Team selection (`match_engine.cpp` 78-322) | the four pools, the two teams | `init_all_players`, `create_teams`, `select_team` | `TeamSelection` |
| Sides, fielders, waiting-time analysis (`match_engine.cpp` 374-520, 628-672, 938-1037) | `fielders_`, the order and waits that are reported | constructor, `run_innings`, `run_sjf_vs_fcfs_analysis` | `MatchSetup` |
| Batting order (`scheduler.cpp` 336-417) | `fcfs_batting_order_`, `sjf_batting_order_`, `wait_records_` | built, never read by a thread | not modelled |
| Scoreboard thread, logging, scorecards, Gantt data, command line | none that matters here | output, parsing | not modelled |

How they interact.  `run_innings` spawns the umpire, the fielders and the two
openers, then for every over asks the scheduler for a bowler, spawns that
bowler's thread and joins it.  The bowler and the striker share the pitch buffer
through two flags, each with a condition variable (`delivery_ready`,
`stroke_done`).  The non-striker sleeps on `striker_changed_cond`, which is
broadcast after every change of ends: by a batsman (odd runs, dismissal), by the
over loop and by the umpire.  A ball that is hit in the air or along the ground
starts the fielder race on `ball_hit_cond`; the striker waits for its result with
a two-second deadline.  A dismissal spawns the next batsman's thread.
`match_over` can be set by the umpire (chased, all out) and by `run_innings`;
either then broadcasts on the condition variables one after the other.

Where it is hard.

- Several mutexes guard parts of one state, and state read under one is used
  under another or under none: who is on strike, which shot is in the air, who
  bats next, whether the match is over.
- One Boolean, `stroke_done`, stands for every acknowledgement; a dismissal
  raises it up to three times.
- The board of the fielder race is reset by a thread that does not wait for the
  fielders still busy with the last ball.
- Shutdown is a flag and four broadcasts by up to two threads, against threads
  that leave by five different exits.
- The umpire changes strike, wickets and threads while a ball is being played.
- A race is counted out by the number of votes, and the same fielder may vote
  again: who has voted when the winner is chosen is a matter of timing.
- The second innings starts on what the first one left behind (score, flags,
  bowlers, fielders), and the boundaries of the phases are worked out twice.
- A batsman may be spawned twice, and only his last thread has a handle.
- The second team picks from what the first one has left, and all-rounders are on
  both lists of a side.

`PROJECT.json` lists each hazard at its line with the properties aimed at it.

What makes each part correct: one resolver per race, with a result that is
finished when it is read; one thread per ball, the striker, and bowler and
batsmen with the same count of balls and runs; two slots at the crease,
conserved over every exit; no sleeper whose wake-up has gone by; a wicket per
dismissed batsman; every thread joined, and the board frozen, when the innings
returns; no bowler over his quota or twice in a row, the overs shared out, the
specialist of a phase before the others; two teams with a player in every role and
nobody in common; a keeper of one's own behind the stumps.

## 2. The modules

**`FielderRace`**.  The places `Batsmen` at the crease and the set `Fielders` of
threads spawned.  Any batsman may hit a ball at any moment, also while the
fielders run for the ball of another, because nothing in the code keeps a second
batsman out of the race: the token of a run-out (`player_threads.cpp` 700-704) or a
surplus token of a dismissal (357, 434, 445) lets the bowler bowl while a ball is
still being fielded, and after a change of the strike (673-681,
`match_engine.cpp` 793-801) somebody else plays it and calls `shot_state_reset`
(257) while the first still waits at 276.  The history variable `overlaps` counts
the balls hit since the last that was hit on a board at rest (`AtRest`: nobody in
a race, the ball down, and the votes still on their way meet a countdown that is
over), and `Alone` says that there are none: the race is that of one batsman.
That is what the properties of the race are about; section 5 tells what two
batsmen do to them.  `MaxOverlap` bounds the balls hit into races that are not
over.  When races are alone is a question to the innings:
`PitchFreeMeansPlayed`, proved up to the first wicket, gives it until then.

A shot is a member of `RaceShots` (AERIAL, GROUND: the result
is taken from the race) or `OtherShots` (the fielders run, the outcome is fixed
already).  Any slot that is set may be the fastest, so times, distances and skill
are left out, and of `winner_idx` and of a slot only whether they are set is kept.
`fielders_remaining = 0` stands for every value <= 0: the
code tests only whether `fetch_sub` returned 1, and the reset overwrites it.
`shot_state_reset` takes no lock, so it is three steps (board, counter, flag), and
the publication of the shot is a fourth.  The end of the match is two steps of the
environment, `match_over` and then `ball_in_air` with the broadcast; nothing
signals the condition variable the batsmen wait on.

**`MatchState`**.  The variables of an innings and the helpers that more than
one thread uses: waking the sleepers of a condition variable, releasing the
bowler, spawning a batsman, the conditions that end an innings.
**`BowlerThread`, `BatsmanThread`, `UmpireThread`** are the thread functions,
with a program counter each and one action per stretch of code between two
accesses to shared state; **`Innings`** adds `run_innings`, the initial state
and the fairness, and composes them.  Threads are pairs `<<b, k>>`, the k-th
thread spawned for batsman b, because the code can spawn a batsman twice.

- A mutex that is held over one stretch is that action.  `score_mutex`, which a
  dismissal holds over the promotion, the broadcast and the spawn, is the
  variable `score_locked`.
- A condition variable is the set of threads at its `...Asleep` place.  Testing
  the loop condition and going to sleep is one step, under the mutex; a wake-up
  sends the thread back to the test.  Spurious wake-ups only repeat the test and
  are left out; the state between the test and the sleep is unchanged by them.
- The body of the two flags' critical sections is one step each.
  `striker_changed_cond` is broadcast in a step of its own after the change of
  ends: that the two are apart is what `NoLostWakeup` is about.
- The shot and the race are an outcome chosen freely from `Outcomes`; which
  outcome a shot can have is `ShotOutcome`.
- `target` is chosen from `Targets` at the start, 0 in a first innings.
- `current_over = 0` is the state before the first over.  In the second innings
  `g_last_outcome` and the static `deadlock_forced` hold whatever the first left.
- `wants_end` is always the end not held and is dropped.  `pitch_mutex` is only
  ever taken by the one bowler alive, and is left out.  The figures of all
  bowlers are summed.  A sleep orders nothing and is left out.
- `striker_id`, `is_out` and `match_over` are read without a lock at several
  places; a read is a step of its own where something can come between it and
  its use (`Cross` and `SwapOnOddRuns`, the scan of the umpire and
  `MarkRunOut`).  `current_ball` is reset by the over loop without the lock its
  increments take; only a ball still played when the over ends (after a
  dismissal) can race with that, and the model lets either come first.

**`InningsProperties`** states what the threads promise one another, and relates
them to two abstract specifications.
**`Scorebook`** is the innings as the scorer sees it (legal balls, runs, who
faces, over by over, a chase that is won).  `KeepsTheBook` says that the threads
implement it; in the refinement mapping a batsman who has scored odd runs has
already changed ends for the scorer while the thread is still on its way to the
swap.  Once the target is reached the book allows balls that were on their way,
and nothing is claimed about the ends.
**`InningsScore`** is what somebody sees who only looks at the board: overs, runs,
wickets, an innings that is decided or complete when it is closed, a score that
stands once it has been reported, a second innings for one run more.
`PlaysTheInnings` (the threads) and `PlaysTwoInnings` (`MatchPlay`) say that both
implement it: it is the joint between the detailed innings and the match that is
built from two of them.

**`ShotOutcome`**.  One batsman, ball after ball, in tenths of a millisecond and
hundredths of power.  `generate_shot` is the set of shots it can return, the
probabilities left out.  A fielder votes with a time computed from the shot he
has read, which may be an earlier one (`LateShots`), and may vote again; the scan
may come at any moment at which some slot is set, because when it comes is
`FielderRace`.  A fielder may still write his slot after the scan (line 531); that
is left out, because nothing reads the slot before the next reset wipes it.  The scan goes by the type that the last voter has read and the
flight time on the board.  A catch that is reached may be dropped.
**`MCShotOutcome`** fixes the instance.

**`BowlerPriority`** is `compute_dynamic_priority` for bowlers and the score of the
opener rule, in integers: the economy is compared by cross-multiplication, a
speed is a whole number, and the conversion to `int` drops the fraction on either
side of zero.  `FormAssumption` gives skill and speed the ranges the program draws
them from.
**`BowlerScheduler`**.  Bowlers by their place in the queue, overs bowled, runs and
wickets, the round-robin head, the saved contexts, and the uninitialised
`current_bowler_idx`, which may hold anything at the first call.  The bowlers'
`is_out` never becomes true: the batting side of an innings holds copies of the
players.
**`MatchPhases`** is the arithmetic of an over's place in the innings, in the
integers of the code; `(int)(need / rem * 2.0)` is the floor of `2 * need / rem`,
halves being exact in a `double`.
**`MatchPlay`** composes the two into `MatchEngine::run`: the over loop, two
innings, the result.  The threads appear as what they do to the score, at any
time until they are joined; that they return, and with what, is `Innings`.  An
over is completed, or cut short by `match_over`.

**`TeamSelection`**.  Two teams are drawn one after the other from four pools.
Players of a kind differ only in their burst time, so a pool is a number of
players of each kind and the n-th of a kind to be picked is `<<kind, n>>`; which
kind the last player of a shuffled pool is of is free.
**`MatchSetup`** adds what the engine makes of the teams: the toss, the sides, the
fielders of the constructor and of each innings, and after the match the analysis
of waiting times, with its map from id to waiting time.
**`MCMatchPlay`** and **`MCMatchSetup`** fix the instances.

**`FielderRaceProofs`**, **`ShotOutcomeProofs`**, **`MatchPlayProofs`**,
**`TeamSelectionProofs`**, **`SetupProofs`** (which extends it), **`InningsProofs`**,
**`LockstepProofs`** (which extends it) and **`BookProofs`** (which extends that)
hold the theorems.

## 3. The runs

| Run | Instance | What it shows |
|---|---|---|
| `FielderRace` | 2 batsmen, 2 fielders, a raced shot, 1 overlap | A race that is alone has one last voter, only for a ball that was hit, who finds a slot that is set; its batsman reads a finished race; the ball is down between such races; they are resolved. After the end of the match everybody leaves, also when two batsmen were in the race |
| `FielderRace_winner` | 1 batsman, 2 fielders, a raced and a fixed shot | *Violated*: "last voter determines winner" (finding 1) |
| `Innings_book` | 2 batsmen, 2 overs of 2 balls, 1 extra, no wickets, no target or target 2 | Bowler and batsmen in lockstep, runs charged, the striker plays; the umpire ends a chase in mid-over and only with reason; the innings returns; `Scorebook` and `InningsScore` are implemented |
| `Innings_runout` | 3 batsmen, 3 overs of 1 ball, singles, injected deadlock, 2 spawns each | Types, no stale delivery, no lost wake-up, no wicket lost while the umpire runs a batsman out and replaces him; `InningsScore` is implemented until a batsman has a second thread |
| `Innings_shutdown` | 3 batsmen, 1 over of 2 balls, singles, wickets, staged run-outs, 2 spawns each | The crease is conserved; the innings returns unless the order is exhausted; after the end everybody is joined; no thread is left behind unless a batsman has been given a second one |
| `Innings_short_over` | 3 batsmen, 1 over, wickets | *Violated*: an over has all its balls (finding 2) |
| `Innings_last_man` | 2 batsmen, 1 over, wickets | *Violated*: the innings returns (finding 3) |
| `Innings_staged_runout` | 3 batsmen, staged run-outs | *Violated*: the staged cycle is detected (finding 4) |
| `Innings_leak` | 3 batsmen, 1 over, wickets | *Violated*: all batsmen's threads are joined (finding 5) |
| `ShotOutcome` | keeper, a neighbour and the far side; extreme ratings, jitters, powers | What a ball counts for: a raced ground shot is a single once the keeper has voted; a catch is off a shot in the air, by the fastest voter, in time |
| `MatchPlay` | 5 bowlers, 4 overs each, 20 overs, 2 innings; form as bad for the specialists as can be drawn | Round robin and priorities: quotas, balance, nobody twice in a row, specialists first; phases agree, the result is fair, `InningsScore` is implemented over two innings |
| `MatchSetup` | the pools of the program, burst times at the ends of their ranges | Two balanced teams with nobody in common, the own keeper behind the stumps in both innings, the shortest job first makes the least of the waiting, and sends the tail in first |

Bounds.  Two fielders make each pair of roles in the race (a late voter, a
repeated voter, a last voter), and two batsmen with one overlap each way of
getting into a race that is not over; the safety is proved for any number of both
and any bound.  The run has one shot, because the kinds differ only in whether a
winner is stored, which `FielderRace_winner` is about.  Two balls make the boundary
of an over and the ball before it; two overs make the change of ends and the
reset between overs.  Two batsmen are both at the crease; the third is the one
who comes in, and the order is exhausted after him.  `MaxSpawns` bounds the
threads spawned for one batsman: a step that would spawn one more is not taken,
which can only stop the spawning thread (and the runs that depend on it
check only safety or allow for it).  `MaxExtras` bounds the wides, which the code
does not.  `AllOutAt` keeps the program's 10, which eight batsmen never reach.
`Innings_runout` needs three overs because the deadlock is not injected before
over 2, and what the umpire leaves behind is met at the start of over 3; one ball
each is enough for that.  In the one over of `Innings_shutdown` he runs nobody out,
which is why `LeakNeedsSecondThread` may stand there.
Dismissals by the batsmen themselves and by the umpire
together are too many states for a routine run: `TypeOK`, `CreaseConserved`,
`NoStaleDelivery`, `NoLostWakeup` and `NoWicketLost` were also checked on three
overs of one ball with `RUNOUT` (1.8 million
states) and on two overs of two balls with `DOT` and `RUNOUT` (6.8 million), the
deadlock simulation on, and they are proved for all instances.  In `ShotOutcome`
the times are linear in rating, jitter and power, so their ends decide; its
properties are proved for all of them.  The
overs, bowlers and quotas of `MatchPlay` are the program's; the score is bounded
(`MaxRuns`, `MaxWickets`), which leaves a lost chase, a tie, a chase that is won
and one that overshoots; `MaxConceded` and `OverFigures` leave bowlers with good,
dear and wicket-taking overs.  The pools of `MatchSetup` are the program's; two
burst times for the kinds whose ranges overlap give every order the sort can meet
there.

`CHECK_DEADLOCK FALSE` stands in the runs with dismissals, because the innings
really can stop there (finding 3), and in `MatchPlay` and `MatchSetup`, which have
no step after the result and after the analysis.

Fairness.  Each thread is weakly fair: the threads are preemptively scheduled by
the operating system and none blocks another for ever except by the mutexes and
conditions that are modelled.  The deadline of the timed wait is weakly fair
because the clock moves.  `EndMatch` in `FielderRace` is not fair: no match need
end, nor is `PlayShot`: nobody has to hit a ball.  A daemon's idle poll is a stuttering step, so weak fairness of the umpire
says that it polls again once there is something to see.  No strong fairness is
assumed; mutexes in the code are not queued, but `score_mutex` is the only one
that is held over several steps, and it is not contended for ever.

## 4. What is proved

`FielderRaceProofs`, for any batsmen, every finite non-empty set of fielders, all
shots and any number of overlaps (`FieldersAssumption`, `ShotsAssumption`,
`OverlapAssumption`): `Spec => []` of `TypeOK`, `OneLastVoter`,
`RaceStartsWithHit`, `LastVoterFindsVote`, `ResultIsSettled` and
`BallDownBetweenRaces`, which speak of races that are alone.  `RestAfterRace` says
why that is enough for every sequence of balls hit one after the other, by
whichever batsmen: a race that is alone leaves the board at rest, and a ball hit
on a board at rest is alone, whatever had gone on before.  So only a ball hit into
a race that is not over takes the properties away.  The invariant is
`Alone => RaceInv`.

None of these is inductive alone.  `OneLastVoter` needs to know that the
countdown passes 1 only once per ball, though fielders vote again while the ball
is in the air and late votes for the last ball arrive at the next.  The
invariant `RaceInv` counts votes in flight: a fielder is in flight from the
moment it saw the ball up to its `fetch_sub`.  Whoever lowers the ball has left
the flight, so at most N - 1 fielders are still in it when the next countdown is
set to N; each of these late votes leaves one less in flight and one less to
count, and `Cardinality(InFlight) + 1 <= fielders_remaining` holds until the new
ball is up.  The same count, of the fielders between their slot and their
decrement, shows that the scan finds a slot although the reset may have wiped
others (`VoteInv`).  The remaining conjuncts tie `fielding_done`, the resolver
and the place of the batsman together.  The proof goes by the actions of `Next`,
and needs from finite sets only what adding and removing one element does to a
cardinality.  `RaceInv` was checked by TLC before it was proved.

`ShotOutcomeProofs`, for any fielders, zones, ratings, jitters, powers and late
shots in the ranges the code gives them: `Spec => []` of `TypeOK`,
`KeeperMakesSingles` and `CatchIsFair`.  The invariant `BallInv` bounds the
keeper's slot: his distance is 0 whatever the shot, so his time is at most
80 + 45 ms, for late shots too.  The winner's time is not above it, a single is
given below 200 ms, and the rope is never nearer than 248 ms.

`MatchPlayProofs`, for any number of bowlers from two, any quota and any length
of match that the quotas allow:

- `QuotaKept`.  The danger is the fallback of `rr_next`, which hands the over to
  the first bowler when nobody has one left.  `CountInv` says that the completed
  overs, as a set of pairs of a bowler and a number, are no more than the overs of
  the innings; if every bowler had used his quota there would be at least
  `NBowlers * Quota` of them, and no over left to bowl.
- `Balanced` and `NoConsecutiveOvers` under round robin.  `TurnInv`: the head of
  the queue is the latest bowler, and for some bowler s and number q those from s
  round the queue to the head have bowled q + 1 overs, all others q.  The next in
  the queue has then bowled no more than anybody, so he has an over left, and
  taking it lengthens the arc by one or starts a new one.
- `ForcedToRepeat` from the counts.
- `SpecialistsFirst`, for any bowlers whose skill and speed are what the program
  draws: the bonus of the speciality outweighs the widest difference in form.
- `TypeOK`, `PhasesAgree`, `ResultIsFair` and that both innings are whole
  (`InningsAreWhole`) from `MatchInv`.  The tests of the two copies of the
  boundaries agree because the powerplay ends no later than the death overs begin,
  except in a match of one over, whose only over is past both.
- `PlaysTwoInnings`: with `InningsAreWhole` every step is a step of the board or a
  stutter.

`TeamSelectionProofs`, for pools of any size:

- `NobodyPickedTwice`.  `PickedBefore` says that whoever has been picked has a
  lower number than the next of his kind; it survives the change from the first
  team to the second because the pools are not filled up again.
- `TeamsAreBalanced`, if there are two of every kind that is asked for first
  (`EnoughOfEach`, which the program's pools satisfy and its own check of the
  totals does not imply).  `RoleInv`: each team is filled in the order of the
  places, and there are two, then one, then none to spare of each kind, before and
  behind the place that is being filled.

`SetupProofs`, for pools of any size and any burst times:

- `OwnKeeperBehindStumps`, with `EnoughOfEach` and at most 13 fielders (the
  program asks for 10; the list of a side has 13 entries, all-rounders being on it
  twice).  `SetupInv` follows the sides through the toss and the change of innings;
  each has a keeper of its own, and the placing of the fielders takes the first
  keeper of the list it is given.
- `TailGoesFirst`, with `EnoughOfEach` and `TailFacesNothing` (specialist bowlers
  have a burst of 0 and the others a positive one, which is what the program draws).
- `SjfIsOptimal`, with `EnoughOfEach`: the sum of the waiting times in the order of
  the sort is the least over all orders.  The rank of a job, the number of jobs
  that go before it, is a bijection onto the places, so the order is sorted; the
  total wait is a sum over pairs of jobs, of which each contributes one of its two
  bursts, and the sorted order takes the smaller one of every pair.

The loops of the program are recursive functions, and what they compute is proved
by induction over sets of numbers (`BoundedInduction`), because the induction
theorems of the library take an operator as a parameter.  That a sum over a finite
set does not depend on the order is proved on the way (`SumExists`).

`InningsProofs`, for the innings with all its threads, dismissals and run-outs
included, for any number of batsmen from two, overs, balls, spawns and extras, any
outcomes and targets: `TypeOK`, `CreaseConserved`, `NoLostWakeup`,
`NoStaleDelivery`, `NoWicketLost`.  The invariant `IInv` adds to them

- `PresentInv`: a thread inside the crease belongs to a batsman who is at the
  crease or has to leave.  Without it a promotion could put on strike somebody
  whose thread sleeps with nobody left to wake it;
- `GateInv`, `DeliveryInv`, `BowlerInv`: `NoLostWakeup` taken apart by condition
  variable.  Each step that makes a condition true is followed by its broadcast,
  and `GateBroadcastPending` and `FlagsPending` name the steps in between;
- `RunOutInv`, for the third disjunct of both loops, `is_out`: only the umpire gets
  out a batsman who sleeps (`WhoIsOut`), and he goes on from the mark to the token
  and to the broadcast of `striker_changed_cond` (`RunOutGoesOn`).  He never
  broadcasts `delivery_ready_cond`; what keeps a victim asleep there from being
  waited for is the token, by which the bowler comes to his next delivery
  (`GoingOn`).  A batsman with two threads is left out: the thread that is asleep
  is told nothing when the other one is dismissed (finding 5);
- `CallInv`: the umpire raises the flags only when the match is over, so the
  delivery that shutdown pretends does not count as stale;
- `StrokeInv`: a thread with a ball in hand knows its outcome.

The same module has two results about how an innings ends.  Both suppose
`SpawnedOnce`, that no batsman has been given a second thread; finding 5 is what
happens otherwise.

- `TheBoardIsKept` and `TheInningsIsPlayed`: every step of the threads, wickets and
  run-outs included, is a step of `InningsScore` or a stutter, as long as
  `SpawnedOnce` holds (`BoardIsKept`); so `PlaysTheInnings` follows from
  `Spec /\ []SpawnedOnce`.  `PlayInv` collects what this needs: who has ended, and
  why the match is over (`EndInv`), nothing to score from before the first over
  (`FirstOverInv`), and that the handles `run_innings` has left to join are those of
  all threads that still live (`HandleInv`), so a thread with a ball in hand is
  waited for before the score is reported.
- `NobodyIsLeftBehind`: without the deadlock simulation `NoThreadLeaks` holds while
  `SpawnedOnce` does (`LeakNeedsSecondThread`).  The danger is a thread spawned
  behind the joins, which go through the batsmen in the order of the list.  A wicket
  is dealt with by one thread at a time (`MutexInv`), that of the dismissed batsman:
  the openers hold the two ends from the start, so neither the over loop nor a
  batsman at the gate has a striker to find (`EndsInv`).  Batsmen come in turn
  (`InTurnInv`), so the one he spawns is later in the list than himself, and he is
  not yet joined, because the threads of those who are have ended (`JoinedInv`).
  The umpire spawns only in the deadlock simulation, and he is joined after them: with it
  the claim is false, as section 5 tells.

`LockstepProofs` and `BookProofs`, for the same innings, any outcomes, the
simulation on or off: up to the first wicket (`BeforeFirstWicket`) the properties
`BallInLockstep`, `RunsAreCharged`, `StrikerPlays` and `PitchFreeMeansPlayed` hold,
an over that is over has all its balls unless the target was reached
(`OversAreComplete`), every thread is joined (`EveryThreadIsJoined`), and as long as
no wicket falls `KeepsTheBook` holds (`TheBookIsKept`).  The condition is necessary:
the first dismissal can break the lockstep (finding 2).
`LockInv` says where the ball is: with the bowler, in the buffer, with the one
batsman who is at play, or on its way back, in one of these as long as the match
goes on (`HandOver`), and what the two books differ by meanwhile (`Account`).
`ScoreInv` adds why the match may be over, how many balls the over has had
(`OverInv`), that each opener has one thread (`JoinInv`) and who changes ends
(`SwapInv`).  The proof of `KeepsTheBook` then shows for every step which step of
the book it is: the scorer's ball is the batsman's score, his change of ends
happens there and not at the swap of the thread, and nearly everything else
stutters.

Proved only, and repeated by no run, are `TypeOK` of `ShotOutcome`,
`OversAreComplete` and `EveryThreadIsJoined`, whose properties hold only under the
conditions of the theorems (without them the runs of findings 2 and 5 violate them).

Model-checked only.  Everything about liveness (outside the prover's reach):
`RaceResolves`, `ShutdownDrains`, `InningsReturns`, `ReturnsUnlessExhausted`,
`ShutdownCompletes`.  In the innings a race is a choice of the outcome, so its
liveness properties take for granted that a race comes to an end before the match
does.  `RaceResolves` shows that of a race that is alone, as races are before the
first wicket; after a wicket the properties say that nothing else stops the innings.

## 5. Findings

1. **A raced ball without a winner** (`player_threads.cpp:508`).  A fielder that
   saw the last ball up reads the board while the batsman resets it, and casts
   the last vote of the next ball with a shot type of none: no winner is stored
   and the ball counts as if nobody had run.  The comment at
   `synchronization.h:78` has the last voter determine the winner.
2. **Short overs** (`player_threads.cpp:433`).  A dismissal raises `stroke_done`
   at line 357 and again at 434.  If the bowler was quick to consume the first,
   the second ends his wait for the next ball; he counts a ball nobody played.
   The scheduler's quantum is documented as six balls (`scheduler.cpp:315`).
3. **The last man** (`player_threads.cpp:213`).  With nobody left to come in,
   `striker_id` stays with the dismissed batsman.  His partner sleeps, nobody takes
   the delivery, the bowler waits for ever, and run_innings with him.  All-out
   is at 10 wickets but a side has 8 batsmen.
4. **The staged run-out is not detected** (`player_threads.cpp:629`).  The ends
   are staged after the striker is marked out, and the scan skips batsmen that
   are out.
5. **A thread that is never joined** (`player_threads.cpp:328`).  The next batsman
   is looked for by `is_active`, which his own thread sets when it has got a slot
   of the crease.  If another wicket falls while he waits for it, he is sent in
   again: the handle of his first thread is overwritten, `run_innings` joins the
   second ("Join all batsmen threads", `match_engine.cpp:828`) and the first lives
   on.  With run-outs it even takes a ball and loses a wicket after `run_innings`
   has returned: with three batsmen and two overs of two run-outs `PlaysTheInnings`
   fails that way.  By `TheInningsIsPlayed` it can fail in no other.

Met on the way and not made a run of their own:

- **Two batsmen in one race.**  With `Alone == TRUE` in `FielderRace` and the
  instance of its run, TLC finds each of `OneLastVoter`, `RaceStartsWithHit`,
  `LastVoterFindsVote`, `ResultIsSettled`, `BallDownBetweenRaces` and
  `RaceResolves` violated: the second reset starts the countdown again under a
  resolver, so there are two; the ball is still up from the first race when the
  second batsman resets the board, and the fielders count it out before he has
  published his shot; his reset wipes the slots between the last vote and the
  scan; the first batsman reads what the second race has left.  If every vote and
  the signal fall between the two stores at `synchronization.cpp` 118 and 120, the
  countdown is used up and `fielding_done` is false: both batsmen wait for the end
  of the match.  The deadline "should never fire" (`player_threads.cpp:275`), and
  when it does it ends nothing, because the loop tests only `fielding_done` and
  `match_over`.
- A batsman run out while he sleeps on `delivery_ready_cond` is told by nobody:
  `resolve_runout` sets `is_out`, which would end his loop (213), and the umpire
  broadcasts `striker_changed_cond` only.  He wakes at the next delivery, leaves,
  and posts a stroke token for the ball somebody else is about to play
  (216-222).
- The phases in `src/README.md` (265-273) are the overs 1-6, 7-14 and 15-20; those
  of the code, in both copies, are 1-5, 6-15 and 16-20 (`PhasesAgree` says only
  that the copies agree).
- A thread can also be left behind without a second one: `run_innings` joins the
  batsmen one after the other, passes over those who have no thread
  (`match_engine.cpp:829`), and joins the umpire after them.  An umpire still busy
  with a run-out may spawn the replacement (`player_threads.cpp:697`) when his place
  in the list has been passed.  TLC finds it for `NoThreadLeaks` with three batsmen,
  two overs of one ball, `DOT` alone, the deadlock simulation on and
  `MaxSpawns = 1`.  It does not touch the board (`TheBoardIsKept`).
- The comment on `update_phase` has the death overs begin with over 10 of 12 and
  over 7 of 8 (`match_engine.cpp:431`); the code rounds the fifth up and begins
  with over 9 and over 6.  For 20 overs they agree.  In a match of one or two overs
  over 1 is a death over, and the opener rule applies to it all the same.
- Not every fielder need vote on every ball, although the comment at
  `player_threads.cpp:466` has all of them attempt to field it: `KeeperMakesSingles`
  shows that a two, a three or a four off a shot along the ground comes only of a
  race that was counted out before the keeper's vote, and the logs of the
  repository have many (a winner with a time of 300 ms, while the keeper needs 125
  at the most).
- After a tie the side that batted first is said to have won by 0 runs.
- A batsman out on a ball after the umpire's scan is counted out a second time;
  the bowler can be credited with one wicket twice.
- Under the priority policies the fallback may return the bowler of the last over.
  "Death specialist gets highest priority" (`scheduler.cpp:19`) can be outweighed
  by figures, which is why `SpecialistsFirst` compares bowlers whose figures are no
  worse.
- "11 players field = 1 bowler + 10 fielders" (`match_engine.cpp:491`): the ten are
  the first ten of the batting side and then the bowling side, on which the two
  all-rounders come again.  They field twice (also while they bowl) and none of the
  three specialist bowlers fields.
- The order of shortest job first is documented as a batting order (`README.md`
  163-165, `scheduler.cpp` 11-15), but no thread calls `get_next_batsman`: the next
  batsman is always the next of the list.  `record_wait_time` is never called and
  the average wait is reported as 0.
- One name is in two pools (`match_engine.cpp` 83 and 140), with two ids.

## 6. Plan

The order in which the modules were written is that of section 2: the race, the
ball, the innings and its threads, the scheduler and the match, then the
priorities, the teams and the abstract board; proofs after the checks of each.
What could follow: the two innings composed from the threads themselves rather
than from `InningsScore`, which is beyond TLC at sizes where anything happens (in a
proof it needs the innings joined, which holds under `SpawnedOnce`
and without the deadlock simulation); and what is left of the lockstep after a wicket, for instance how many
balls an over can lose to surplus tokens.

## 7. Not modelled

Random draws, commentary, statistics for output, scorecards, the Gantt data and
its plotter; command-line parsing (its ranges are the assumptions on the
constants); the error logging of the lock wrappers (`safe_mutex_lock` and its
kin change nothing else); the scoreboard thread, which the program never starts;
the batting orders of the scheduler, `get_next_batsman` with its priorities and
`record_wait_time`, which nothing calls or reads; the trajectory of the ball in the
buffer, of which only the over number is kept; a thread of the first innings that
lives on into the second (finding 5 shows that there are such threads, and what
they do there depends on memory the second innings has reused).
