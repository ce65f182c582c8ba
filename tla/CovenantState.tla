--------------------------- MODULE CovenantState ---------------------------
(***************************************************************************)
(* The public state of one Arkade Poker hand, as it is carried by the      *)
(* packets of every accepted covenant transaction (src/internal/covenant,  *)
(* packets.go), and the transitions the Go builders assemble over it       *)
(* (action_*.go).  A builder is a relation over two states, the            *)
(* predecessor s and the successor t, so the same definition serves as a   *)
(* step of the state machine (t = state') and as a test of a proposed      *)
(* transaction (t any state).                                              *)
(*                                                                         *)
(* Data abstraction: a published decryption share is the number of its     *)
(* slot, 0..17; amounts and times are unbounded naturals under the         *)
(* MAX_MONEY assumption that validateAmounts establishes.                  *)
(***************************************************************************)
EXTENDS Integers, FiniteSets

CONSTANTS Stake, Bond, MinBet, MaxWager,   \* agreed amounts, in satoshis
          MaxMoney,                        \* the MAX_MONEY of the chain
          InitialDeadline, Interval        \* negotiated deadline; 60 seconds

\* validateAmounts: every term positive, min <= cap, the largest covenant fits.
ASSUME AmountsAssumption ==
    /\ Stake \in Nat \ {0} /\ Bond \in Nat \ {0}
    /\ MinBet \in Nat \ {0} /\ MaxWager \in Nat \ {0}
    /\ MinBet <= MaxWager
    /\ MaxMoney \in Nat
    /\ 2 * (Stake + Bond + MaxWager) <= MaxMoney

ASSUME TimeAssumption == InitialDeadline \in Nat /\ Interval \in Nat \ {0}

Players == {1, 2}
Other(p) == 3 - p

PreFlop == 1
Flop == 2
Turn == 3
River == 4

(***************************************************************************)
(* Phases.  A field a kind does not use is zero, as Phase.Encode demands.  *)
(***************************************************************************)
Ph(kind, actor, street, pass) ==
    [kind |-> kind, actor |-> actor, street |-> street, pass |-> pass]

AwaitPlayer1FundingAndReveal == Ph("AwaitPlayer1FundingAndReveal", 0, 0, 0)
AwaitPlayer2RevealAndOpening == Ph("AwaitPlayer2RevealAndOpening", 0, 0, 0)
ShowdownEvaluation == Ph("ShowdownEvaluation", 0, 0, 0)
Betting(p, street) == Ph("Betting", p, street, 0)
AllIn(p, street) == Ph("AllIn", p, street, 0)
BoardReveal(p, street, pass) == Ph("BoardReveal", p, street, pass)
ShowdownReveal(p, pass) == Ph("ShowdownReveal", p, 0, pass)
AllInReveal(p, street) == Ph("AllInReveal", p, street, 0)

Phases ==
    {AwaitPlayer1FundingAndReveal, AwaitPlayer2RevealAndOpening, ShowdownEvaluation}
    \cup {Betting(p, st) : p \in Players, st \in PreFlop..River}
    \cup {AllIn(p, st) : p \in Players, st \in PreFlop..River}
    \cup {BoardReveal(p, st, pass) : p \in Players, st \in Flop..River, pass \in 1..2}
    \cup {ShowdownReveal(p, pass) : p \in Players, pass \in 1..2}
    \cup {AllInReveal(p, st) : p \in Players, st \in Flop..River}

\* The player whose move it is; 0 once every share is out and either may settle.
RequiredActor(ph) ==
    CASE ph.kind = "AwaitPlayer1FundingAndReveal" -> 1
      [] ph.kind = "AwaitPlayer2RevealAndOpening" -> 2
      [] ph.kind = "ShowdownEvaluation" -> 0
      [] OTHER -> ph.actor

(***************************************************************************)
(* Reveal slots.  Slots 0,1 hold Player 2's shares of Player 1's hole      *)
(* cards and 2,3 the converse; 4..13 both players' shares of the board;    *)
(* 14..17 each player's shares of its own hole cards.                      *)
(***************************************************************************)
Slots == 0..17

OpponentHoleSlots(p) == {2 * (2 - p), 2 * (2 - p) + 1}
OwnHoleSlots(p) == {12 + 2 * p, 13 + 2 * p}

BoardSlots(p, street) ==
    CASE street = Flop -> {1 + 3 * p, 2 + 3 * p, 3 + 3 * p}
      [] street = Turn -> {9 + p}
      [] street = River -> {11 + p}
      [] OTHER -> {}

\* Slip: the first of the remaining streets is left out.
RemainingSlotsLate(p, street) ==
    OwnHoleSlots(p) \cup UNION {BoardSlots(p, st) : st \in (street + 1)..River}

\* Everything p still owes when the board is unrevealed from street on.
RemainingSlots(p, street) ==
    OwnHoleSlots(p) \cup UNION {BoardSlots(p, st) : st \in street..River}

\* Both shares of a street's cards, one per player: with both a card is open.
StreetSlots(street) == BoardSlots(1, street) \cup BoardSlots(2, street)

(***************************************************************************)
(* The state record and the covenant value it stands for.                  *)
(***************************************************************************)
LastActions == {"Start", "Check", "Raise"}

States == [phase : Phases, last : LastActions, wagers : [Players -> Nat],
           deadline : Nat, reveals : SUBSET Slots]

NoWagers == [p \in Players |-> 0]

InitialState == [phase |-> AwaitPlayer1FundingAndReveal, last |-> "Start",
                 wagers |-> NoWagers, deadline |-> InitialDeadline, reveals |-> {}]

DepositValue == Stake + Bond
LiveValue(s) == 2 * (Stake + Bond) + s.wagers[1] + s.wagers[2]

\* Every live builder ends in buildLive: the deadline moves by one interval and
\* all shares published so far are carried over.
Successor(s, phase, last, wagers, slots) ==
    [phase |-> phase, last |-> last, wagers |-> wagers,
     deadline |-> s.deadline + Interval, reveals |-> s.reveals \cup slots]

EqualWagers(s) == s.wagers[1] = s.wagers[2]
StartEqual(s) == s.last = "Start" /\ EqualWagers(s)
=============================================================================
