---------------------------- MODULE UmpireThread ----------------------------
(***************************************************************************)
(* umpire_thread_func: the daemon that polls.  At "poll" the umpire has    *)
(* tested its loop and slept; a poll that finds nothing changes nothing    *)
(* and is left to stuttering.  With the deadlock simulation it first looks *)
(* for two batsmen that each hold the end the other one wants.             *)
(***************************************************************************)
EXTENDS MatchState

NobodyOut == [victim |-> NoPlayer, survivor |-> NoPlayer, next |-> NoPlayer]

\* What no umpire step but the last two of a match end writes.
notUmpire == <<match_over, target, pitch_buffer, bowlerVars, engineVars,
               scoreboard, crease, stroke, last_outcome, score_locked,
               next_bat>>

\* bA is the first batsman at the crease in batting order, bB the last.
IsPair(bA, bB) ==
    /\ bA \in AtCrease /\ bB \in AtCrease /\ bA # bB
    /\ \A b \in AtCrease : bA <= b /\ b <= bB

\* Each holds the end the other wants: with two ends, both hold one and not
\* the same one.
CircularWait(bA, bB) ==
    holds_end[bA] # -1 /\ holds_end[bB] # -1 /\ holds_end[bA] # holds_end[bB]

\* The one deadlock that is staged when none came up by over 2.
CanInject(bA, bB) ==
    /\ ~deadlock_forced
    /\ holds_end[bA] = -1 /\ holds_end[bB] = -1
    /\ current_over >= 2 /\ ~match_over

\* The scan sees a cycle between bA and bB, or stages one.
Cycle(bA, bB) == IsPair(bA, bB) /\ (CanInject(bA, bB) \/ CircularWait(bA, bB))

ScanFindsCycle ==
    EnableDeadlockSim /\ \E bA, bB \in Batsmen : Cycle(bA, bB)

\* Either of the two may have the lower batting average, and is the victim.
DetectDeadlock ==
    /\ umpire = "poll" /\ EnableDeadlockSim
    /\ \E bA, bB \in Batsmen :
        /\ Cycle(bA, bB)
        /\ IF CanInject(bA, bB)
              THEN /\ deadlock_forced' = TRUE
                   /\ holds_end' = [holds_end EXCEPT ![bA] = 0, ![bB] = 1]
              ELSE UNCHANGED <<deadlock_forced, holds_end>>
        /\ \E v \in {bA, bB} :
              runout' = [victim |-> v, survivor |-> IF v = bA THEN bB ELSE bA,
                         next |-> NoPlayer]
    /\ umpire' = "victim"
    /\ UNCHANGED <<notUmpire, bat, tokens, is_out, wickets, endVars,
                   thread_id>>

\* resolve_runout up to the mutex.
MarkRunOut ==
    /\ umpire = "victim"
    /\ holds_end' = [holds_end EXCEPT ![runout.victim] = -1]
    /\ is_out' = [is_out EXCEPT ![runout.victim] = TRUE]
    /\ umpire' = "wicket"
    /\ UNCHANGED <<notUmpire, bat, tokens, wickets, endVars, thread_id,
                   runout, deadlock_forced>>

\* Mutant: the batsman is out and the wicket is not counted.
LetOffRunOut ==
    /\ umpire = "wicket" /\ ~score_locked
    /\ umpire' = "ends"
    /\ UNCHANGED <<notUmpire, bat, tokens, is_out, wickets, holds_end, endVars,
                   thread_id, runout, deadlock_forced>>

CountRunOut ==
    /\ umpire = "wicket" /\ ~score_locked
    /\ wickets' = wickets + 1
    /\ umpire' = "ends"
    /\ UNCHANGED <<notUmpire, bat, tokens, is_out, holds_end, endVars,
                   thread_id, runout, deadlock_forced>>

\* The survivor faces; the next batsman is looked for.
PromoteSurvivor ==
    /\ umpire = "ends"
    /\ striker_id' = runout.survivor
    /\ non_striker_id' = NoPlayer
    /\ umpire' = "next"
    /\ UNCHANGED <<notUmpire, bat, tokens, is_out, wickets, holds_end,
                   thread_id, runout, deadlock_forced>>

SendNextBatsman ==
    /\ umpire = "next"
    /\ \E b \in Batsmen \cup {NoPlayer} :
        /\ IsFirst(b, Waiting)
        /\ runout' = [runout EXCEPT !.next = b]
        /\ IF b = NoPlayer
              THEN umpire' = "token" /\ UNCHANGED non_striker_id
              ELSE umpire' = "spawn" /\ non_striker_id' = b
    /\ UNCHANGED <<notUmpire, bat, tokens, is_out, wickets, holds_end,
                   striker_id, thread_id, deadlock_forced>>

SpawnReplacement ==
    /\ umpire = "spawn"
    /\ Spawn(runout.next)
    /\ umpire' = "token"
    /\ UNCHANGED <<notUmpire, tokens, is_out, wickets, holds_end, endVars,
                   runout, deadlock_forced>>

UmpireToken ==
    /\ umpire = "token"
    /\ ReleaseBowler
    /\ umpire' = "broadcast"
    /\ UNCHANGED <<notUmpire, bat, delivery_ready, is_out, wickets, holds_end,
                   endVars, thread_id, runout, deadlock_forced>>

\* Mutant: the survivor is not told that he is on strike.
ForgetSurvivor ==
    /\ umpire = "broadcast"
    /\ runout' = NobodyOut
    /\ umpire' = "check"
    /\ UNCHANGED <<notUmpire, bat, tokens, is_out, wickets, holds_end, endVars,
                   thread_id, deadlock_forced>>

WakeSurvivor ==
    /\ umpire = "broadcast"
    /\ bat' = WakeGate(bat)
    /\ runout' = NobodyOut
    /\ umpire' = "check"
    /\ UNCHANGED <<notUmpire, tokens, is_out, wickets, holds_end, endVars,
                   thread_id, deadlock_forced>>

-----------------------------------------------------------------------------
(* The end of the match.                                                   *)

\* The scan for cycles is behind the umpire, in this poll.
Scanned == umpire = "check" \/ (umpire = "poll" /\ ~ScanFindsCycle)

\* Mutant: the match ends when the scores are level.
EndsOnTie == AllOut \/ (target > 0 /\ total_runs >= target - 1)

MatchEnd == AllOut \/ Chased

EndMatch ==
    /\ Scanned /\ MatchEnd
    /\ match_over' = TRUE
    /\ umpire' = "wakeGate"
    /\ UNCHANGED <<target, bat, tokens, play, pitch_buffer, bowlerVars, runout,
                   deadlock_forced, engineVars>>

WakeGateAtEnd ==
    /\ umpire = "wakeGate"
    /\ bat' = WakeGate(bat)
    /\ umpire' = "flags"
    /\ UNCHANGED <<target, match_over, tokens, play, pitch_buffer, bowlerVars,
                   runout, deadlock_forced, engineVars>>

\* delivery_ready = stroke_done = true and both broadcasts; the loop ends.
RaiseFlagsAtEnd ==
    /\ umpire = "flags"
    /\ delivery_ready' = TRUE
    /\ ReleaseBowler
    /\ bat' = WakeDelivery(bat)
    /\ umpire' = "done"
    /\ UNCHANGED <<target, match_over, play, pitch_buffer, bowlerVars, runout,
                   deadlock_forced, engineVars>>

PollAgain ==
    /\ umpire = "check" /\ ~MatchEnd /\ ~match_over
    /\ umpire' = "poll"
    /\ UNCHANGED <<target, bat, tokens, play, match_over, pitch_buffer,
                   bowlerVars, runout, deadlock_forced, engineVars>>

\* The engine ended the innings.
UmpireDone ==
    /\ Scanned /\ ~MatchEnd /\ match_over
    /\ umpire' = "done"
    /\ UNCHANGED <<target, bat, tokens, play, match_over, pitch_buffer,
                   bowlerVars, runout, deadlock_forced, engineVars>>

Umpire ==
    \/ DetectDeadlock \/ MarkRunOut \/ CountRunOut \/ PromoteSurvivor
    \/ SendNextBatsman \/ SpawnReplacement \/ UmpireToken \/ WakeSurvivor
    \/ EndMatch \/ WakeGateAtEnd \/ RaiseFlagsAtEnd \/ PollAgain \/ UmpireDone
=============================================================================
