-------------------------- MODULE CovenantBuilders --------------------------
(***************************************************************************)
(* The live builders of src/internal/covenant: action_build.go,            *)
(* action_betting.go and action_reveals.go.  BuildX(s, t) holds when the   *)
(* builder X accepts predecessor state s and its transaction carries       *)
(* successor state t.  The three betting actions share the builder Bet.    *)
(***************************************************************************)
EXTENDS CovenantState

BuildPlayer1Funding(s, t) ==
    /\ s = InitialState
    /\ t = Successor(s, AwaitPlayer2RevealAndOpening, s.last, s.wagers, OpponentHoleSlots(1))

\* Player 2's opening wager: none, or between the minimum and the cap.
OpeningBets == {0} \cup MinBet..MaxWager

OpeningSuccessor(s, bet) ==
    Successor(s,
              IF bet = MaxWager THEN AllIn(1, PreFlop) ELSE Betting(1, PreFlop),
              IF bet = 0 THEN "Check" ELSE "Raise",
              [s.wagers EXCEPT ![2] = bet],
              OpponentHoleSlots(2))

BuildPlayer2Opening(s, t) ==
    /\ s.phase = AwaitPlayer2RevealAndOpening
    /\ s.last = "Start"
    /\ s.wagers = NoWagers
    /\ \E bet \in OpeningBets : t = OpeningSuccessor(s, bet)

(***************************************************************************)
(* Betting.  Wagers are cumulative over the hand; a bet names the actor's  *)
(* new total.                                                              *)
(***************************************************************************)
Mine(s) == s.wagers[s.phase.actor]
Theirs(s) == s.wagers[Other(s.phase.actor)]

\* The history checks every betting action passes first.
BettingHistory(s) ==
    /\ s.phase.kind = "Betting"
    /\ Mine(s) < MaxWager /\ Theirs(s) < MaxWager
    /\ s.phase.street = PreFlop =>
          s.last # "Start" /\ ~(s.phase.actor = 2 /\ s.last = "Check")
    /\ IF s.last = "Raise" THEN Theirs(s) - Mine(s) >= MinBet ELSE EqualWagers(s)

\* What a new bet must add: the bet it answers, or the minimum bet.
MinimumRaise(s) == IF s.last = "Raise" THEN Theirs(s) - Mine(s) ELSE MinBet

RaiseTargets(s) ==
    {target \in 0..MaxWager :
        /\ target > Mine(s) /\ target > Theirs(s)
        /\ target = MaxWager \/ target - Theirs(s) >= MinimumRaise(s)}

\* Slip: betting on the river opens yet another street.
ClosedPastRiver(s) == BoardReveal(Other(s.phase.actor), s.phase.street + 1, 1)

Closed(s) ==
    LET opponent == Other(s.phase.actor)
    IN IF s.phase.street = River
       THEN ShowdownReveal(opponent, 1)
       ELSE BoardReveal(opponent, s.phase.street + 1, 1)

\* Slip: a first check is not recorded, so the next one is a first check again.
MatchedForgetsCheck(s) ==
    LET matched == [s.wagers EXCEPT ![s.phase.actor] = Theirs(s)]
    IN IF s.last = "Start"
       THEN Successor(s, Betting(Other(s.phase.actor), s.phase.street), "Start", matched, {})
       ELSE Successor(s, Closed(s), "Start", matched, {})

\* Matching the opponent: a first check passes the turn, anything else closes.
Matched(s) ==
    LET matched == [s.wagers EXCEPT ![s.phase.actor] = Theirs(s)]
    IN IF s.last = "Start"
       THEN Successor(s, Betting(Other(s.phase.actor), s.phase.street), "Check", matched, {})
       ELSE Successor(s, Closed(s), "Start", matched, {})

\* Slip: the raise is booked as the opponent's wager.
RaisedOnWrongSeat(s, target) ==
    LET opponent == Other(s.phase.actor)
    IN Successor(s, Betting(opponent, s.phase.street), "Raise",
                 [s.wagers EXCEPT ![opponent] = target], {})

Raised(s, target) ==
    LET opponent == Other(s.phase.actor)
    IN Successor(s,
                 IF target = MaxWager THEN AllIn(opponent, s.phase.street)
                                      ELSE Betting(opponent, s.phase.street),
                 "Raise", [s.wagers EXCEPT ![s.phase.actor] = target], {})

BuildCheck(s, t) == BettingHistory(s) /\ s.last # "Raise" /\ t = Matched(s)
BuildCall(s, t) == BettingHistory(s) /\ s.last = "Raise" /\ t = Matched(s)
BuildRaiseTo(s, t) ==
    BettingHistory(s) /\ \E target \in RaiseTargets(s) : t = Raised(s, target)

(***************************************************************************)
(* Reveals.                                                                *)
(***************************************************************************)
\* Slip: a river that is open is not bet on.
BuildBoardRevealSkipsRiver(s, t) ==
    LET p == s.phase.actor
    IN /\ s.phase.kind = "BoardReveal" /\ StartEqual(s)
       /\ t = Successor(s, IF s.phase.pass = 1 THEN BoardReveal(Other(p), s.phase.street, 2)
                           ELSE IF s.phase.street = River THEN ShowdownReveal(Other(p), 1)
                           ELSE Betting(Other(p), s.phase.street),
                        s.last, s.wagers, BoardSlots(p, s.phase.street))

\* The first revealer of a street is the first to act on it.
BuildBoardReveal(s, t) ==
    LET p == s.phase.actor
        street == s.phase.street
    IN /\ s.phase.kind = "BoardReveal"
       /\ StartEqual(s) /\ s.wagers[1] < MaxWager
       /\ t = Successor(s, IF s.phase.pass = 1 THEN BoardReveal(Other(p), street, 2)
                                               ELSE Betting(Other(p), street),
                        s.last, s.wagers, BoardSlots(p, street))

\* Slip: no showdown reveal at the cap, not even the one after a river all-in call.
BuildShowdownRevealBelowCap(s, t) ==
    LET p == s.phase.actor
    IN /\ s.phase.kind = "ShowdownReveal" /\ StartEqual(s) /\ s.wagers[1] # MaxWager
       /\ t = Successor(s, IF s.phase.pass = 1 THEN ShowdownReveal(Other(p), 2)
                                               ELSE ShowdownEvaluation,
                        s.last, s.wagers, OwnHoleSlots(p))

BuildShowdownReveal(s, t) ==
    LET p == s.phase.actor
    IN /\ s.phase.kind = "ShowdownReveal"
       /\ StartEqual(s)
       /\ s.phase.pass = 1 => s.wagers[1] # MaxWager
       /\ t = Successor(s, IF s.phase.pass = 1 THEN ShowdownReveal(Other(p), 2)
                                               ELSE ShowdownEvaluation,
                        s.last, s.wagers, OwnHoleSlots(p))

\* Calling an all-in publishes everything the caller still owes.
BuildAllInCall(s, t) ==
    LET p == s.phase.actor
        street == s.phase.street
    IN /\ s.phase.kind = "AllIn"
       /\ s.last = "Raise" /\ Theirs(s) = MaxWager /\ Mine(s) < MaxWager
       /\ t = Successor(s, IF street = River THEN ShowdownReveal(Other(p), 2)
                                             ELSE AllInReveal(Other(p), street + 1),
                        "Start", [q \in Players |-> MaxWager],
                        RemainingSlots(p, street + 1))

BuildAllInReveal(s, t) ==
    /\ s.phase.kind = "AllInReveal"
    /\ StartEqual(s) /\ s.wagers[1] = MaxWager
    /\ t = Successor(s, ShowdownEvaluation, s.last, s.wagers,
                     RemainingSlots(s.phase.actor, s.phase.street))

BuildLive(s, t) ==
    \/ BuildPlayer1Funding(s, t) \/ BuildPlayer2Opening(s, t)
    \/ BuildCheck(s, t) \/ BuildCall(s, t) \/ BuildRaiseTo(s, t)
    \/ BuildBoardReveal(s, t) \/ BuildShowdownReveal(s, t)
    \/ BuildAllInCall(s, t) \/ BuildAllInReveal(s, t)

(***************************************************************************)
(* Terminal builders: which phases they accept, and who is paid what.      *)
(***************************************************************************)
ConcessionKinds == {"Betting", "AllIn", "ShowdownReveal", "AllInReveal"}

CanConcede(s, value) == s.phase.kind \in ConcessionKinds /\ value >= Bond
\* Slip: the opponent's bond is left out of the pot it wins.
ConcessionPayoutWithoutBond(s, value) ==
    [p \in Players |-> IF p = s.phase.actor THEN Bond ELSE value - 2 * Bond]
ConcessionPayout(s, value) ==
    [p \in Players |-> IF p = s.phase.actor THEN Bond ELSE value - Bond]

\* Slip: the betting phases are left out of the mask.
CanTimeoutOutsideBetting(s) == RequiredActor(s.phase) # 0 /\ s.phase.kind # "Betting"
\* Slip: nobody expects a client to be late with shares that need no user.
CanTimeoutExceptReveals(s) ==
    RequiredActor(s.phase) # 0 /\ s.phase.kind \notin {"BoardReveal", "ShowdownReveal", "AllInReveal"}
CanTimeout(s) == RequiredActor(s.phase) # 0
\* Slip: the late player is the beneficiary.
TimeoutPayoutToLate(s, value) ==
    [p \in Players |-> IF p = RequiredActor(s.phase) THEN value ELSE 0]
TimeoutPayout(s, value) ==
    [p \in Players |-> IF p = Other(RequiredActor(s.phase)) THEN value ELSE 0]

CanShowdown(s) == s.phase = ShowdownEvaluation /\ StartEqual(s)
\* Slip: the loser's bond goes to the winner, as after a timeout.
ShowdownPayoutAll(s, winner) ==
    [p \in Players |-> IF winner = 0 THEN LiveValue(s) \div 2
                       ELSE IF p = winner THEN LiveValue(s) ELSE 0]
\* winner is 0 on a tie; halving a tied value is exact because wagers are equal.
ShowdownPayout(s, winner) ==
    [p \in Players |-> IF winner = 0 THEN LiveValue(s) \div 2
                       ELSE IF p = winner THEN LiveValue(s) - Bond ELSE Bond]
=============================================================================
