------------------------------ MODULE Covenant ------------------------------
(***************************************************************************)
(* The life of one covenant: Player 2's deposit, the chain of live         *)
(* transactions that each spend the covenant output and recreate it, and   *)
(* the terminal transaction that pays it out.  One action per builder of   *)
(* src/internal/covenant; an action is one accepted transaction.           *)
(*                                                                         *)
(* What each player's wallet puts into and takes out of the covenant is    *)
(* recorded in the ledger variables contributed and received.  The emulator*)
(* clock is the only source of time: it decides when a timeout is mature,  *)
(* and nothing else, so a late move is still accepted if it comes first.   *)
(***************************************************************************)
EXTENDS CovenantBuilders

CONSTANTS MaxClock,     \* model bound: the clock stops here
          Deals         \* what the dealt cards may decide at showdown

ASSUME ClockAssumption == MaxClock \in Nat
ASSUME DealsAssumption == Deals \subseteq 0..2

VARIABLES
    stage,        \* "unfunded", "live" (an unspent covenant output) or "settled"
    state,        \* the State packet of the latest covenant transaction
    value,        \* satoshis in the covenant output
    contributed,  \* per player: paid into the covenant so far
    received,     \* per player: paid out of the covenant
    settlement,   \* how the hand ended and for whom
    winner,       \* what the fixed deal decides at showdown: 1, 2, or 0 for a tie
    clock         \* seconds, as the emulator sees them

vars == <<stage, state, value, contributed, received, settlement, winner, clock>>

NoSettlement == [kind |-> "none", winner |-> 0]

Init ==
    /\ stage = "unfunded"
    /\ state = InitialState
    /\ value = 0
    /\ contributed = NoWagers
    /\ received = NoWagers
    /\ settlement = NoSettlement
    /\ winner \in Deals
    /\ clock = 0

\* Player 2 locks its stake and bond; no poker script runs yet.
InitialDeposit ==
    /\ stage = "unfunded"
    /\ stage' = "live"
    /\ value' = DepositValue
    /\ contributed' = [contributed EXCEPT ![2] = @ + DepositValue]
    /\ UNCHANGED <<state, received, settlement, winner, clock>>

(***************************************************************************)
(* Live transactions.                                                      *)
(***************************************************************************)
\* livePredecessor and buildLive: the output holds what the state says it must,
\* and the actor funds exactly the difference to the successor's value.
Live(p) ==
    /\ stage = "live"
    /\ LiveValue(state') >= value
    /\ value' = LiveValue(state')
    /\ contributed' = [contributed EXCEPT ![p] = @ + (LiveValue(state') - value)]
    /\ UNCHANGED <<stage, received, settlement, winner, clock>>

JointPredecessor == value = LiveValue(state)

Player1Funding ==
    /\ value = DepositValue
    /\ BuildPlayer1Funding(state, state')
    /\ Live(1)

Player2Opening ==
    /\ JointPredecessor
    /\ BuildPlayer2Opening(state, state')
    /\ Live(2)

Check == JointPredecessor /\ BuildCheck(state, state') /\ Live(state.phase.actor)
Call == JointPredecessor /\ BuildCall(state, state') /\ Live(state.phase.actor)
RaiseTo == JointPredecessor /\ BuildRaiseTo(state, state') /\ Live(state.phase.actor)

RevealBoard ==
    JointPredecessor /\ BuildBoardReveal(state, state') /\ Live(state.phase.actor)
RevealShowdown ==
    JointPredecessor /\ BuildShowdownReveal(state, state') /\ Live(state.phase.actor)
AllInCall ==
    JointPredecessor /\ BuildAllInCall(state, state') /\ Live(state.phase.actor)
RevealAllIn ==
    JointPredecessor /\ BuildAllInReveal(state, state') /\ Live(state.phase.actor)

LiveStep ==
    \/ Player1Funding \/ Player2Opening
    \/ Check \/ Call \/ RaiseTo
    \/ RevealBoard \/ RevealShowdown \/ AllInCall \/ RevealAllIn

(***************************************************************************)
(* Terminal transactions.                                                  *)
(***************************************************************************)
Settle(kind, who, payout) ==
    /\ stage = "live"
    /\ stage' = "settled"
    /\ value' = 0
    /\ received' = [p \in Players |-> received[p] + payout[p]]
    /\ settlement' = [kind |-> kind, winner |-> who]
    /\ UNCHANGED <<state, contributed, winner, clock>>

Concession ==
    /\ CanConcede(state, value)
    /\ Settle("concession", Other(state.phase.actor), ConcessionPayout(state, value))

\* The builder does not consult a clock; the script does.
Timeout ==
    /\ CanTimeout(state)
    /\ clock >= state.deadline
    /\ Settle("timeout", Other(RequiredActor(state.phase)), TimeoutPayout(state, value))

\* Either player may submit; the proven ranks alone decide the payout.
Showdown ==
    /\ JointPredecessor
    /\ CanShowdown(state)
    /\ Settle("showdown", winner, ShowdownPayout(state, winner))

TerminalStep == Concession \/ Timeout \/ Showdown

Tick ==
    /\ clock < MaxClock
    /\ clock' = clock + 1
    /\ UNCHANGED <<stage, state, value, contributed, received, settlement, winner>>

\* The hand is over: nothing spends the payouts any more.
Finished == stage = "settled" /\ UNCHANGED vars

Next == InitialDeposit \/ LiveStep \/ TerminalStep \/ Tick \/ Finished

Spec == Init /\ [][Next]_vars
=============================================================================
