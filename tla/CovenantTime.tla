---------------------------- MODULE CovenantTime ----------------------------
(***************************************************************************)
(* How long the players let the clock run.  Covenant accepts a late move   *)
(* if it comes before the claim of the timeout, and every move advances    *)
(* the deadline from the old deadline, not from the clock, so a late move  *)
(* shortens what is left to the opponent.  The history variable idle says  *)
(* for how long each player could have acted and did not; it restricts no  *)
(* step.                                                                   *)
(***************************************************************************)
EXTENDS CovenantRefinement

VARIABLE idle   \* per player: seconds let pass; Interval once it was a whole interval

timedVars == <<vars, idle>>

Dawdled(p) == idle[p] = Interval

\* A player can move in its turn, and claim the timeout when the opponent is late.
MayAct(p) ==
    /\ stage = "live" /\ RequiredActor(state.phase) # 0
    /\ \/ p = RequiredActor(state.phase)
       \/ CanTimeout(state) /\ clock >= state.deadline

Waited ==
    [p \in Players |-> IF Dawdled(p) THEN Interval
                       ELSE IF MayAct(p) THEN idle[p] + 1 ELSE 0]

Acted(p) == [idle EXCEPT ![p] = IF Dawdled(p) THEN Interval ELSE 0]

\* A client signs its deposit only while the initial deadline is still to come.
Funded(p) == IF clock > InitialDeadline THEN [idle EXCEPT ![p] = Interval] ELSE Acted(p)

TimedInit == Init /\ idle = [p \in Players |-> 0]

TimedNext ==
    \/ Tick /\ idle' = Waited
    \/ InitialDeposit /\ idle' = Funded(2)
    \/ LiveStep /\ idle' = IF state.phase = AwaitPlayer1FundingAndReveal
                           THEN Funded(1) ELSE Acted(RequiredActor(state.phase))
    \/ (TerminalStep \/ Finished) /\ UNCHANGED idle

TimedSpec == TimedInit /\ [][TimedNext]_timedVars
TimedAutomaticSpec == TimedSpec /\ AutomaticMoves

\* A player who never lets a whole interval pass while it may move or claim never
\* forfeits: not even against an opponent who moves late every time, keeping what
\* is left of the next interval short.  (Player 1 has nothing to lose before it
\* has funded the hand.)
Forfeited(p) ==
    settlement = [kind |-> "timeout", winner |-> Other(p)] /\ contributed[p] > 0
PromptPlayersNeverForfeit == \A p \in Players : Forfeited(p) => Dawdled(p)

(***************************************************************************)
(* Why.  A prompt player obliged to move has used less of its interval     *)
(* than it has waited; and if its opponent is late, it has left the claim  *)
(* unused no longer than it has waited, so a late move takes away no more. *)
(***************************************************************************)
TimeIsKept ==
    LET q == RequiredActor(state.phase)
    IN stage = "live" /\ q # 0 =>
          /\ state.phase = AwaitPlayer1FundingAndReveal
             \/ Dawdled(q) \/ clock + Interval - state.deadline <= idle[q]
          /\ Dawdled(Other(q)) \/ clock - state.deadline <= idle[Other(q)]

TimeInv ==
    /\ idle \in [Players -> 0..Interval]
    /\ TimeIsKept
    /\ PromptPlayersNeverForfeit
=============================================================================
