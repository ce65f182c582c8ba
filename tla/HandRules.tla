----------------------------- MODULE HandRules ------------------------------
(***************************************************************************)
(* What a hand of Arkade Poker promises its players, with no covenant, no  *)
(* cards, no streets and no turns: two players pay into a pot and one      *)
(* settlement distributes it.  README.md, "Funding, betting and settlement"*)
(* states these rules in words.  Covenant implements this specification.   *)
(***************************************************************************)
EXTENDS Integers

CONSTANTS Stake, Bond, MaxWager

VARIABLES
    paidIn,     \* per player, into the covenant
    paidOut,    \* per player, out of it
    result      \* [kind, winner] of the settlement, kind "none" before it

rulesVars == <<paidIn, paidOut, result>>

Seats == {1, 2}
Opponent(p) == 3 - p
Open == result.kind = "none"
AnteAndBond == Stake + Bond
Bet(p) == paidIn[p] - AnteAndBond
BothIn == \A p \in Seats : paidIn[p] >= AnteAndBond

RulesInit ==
    /\ paidIn = [p \in Seats |-> 0]
    /\ paidOut = [p \in Seats |-> 0]
    /\ result = [kind |-> "none", winner |-> 0]

\* The joiner funds first, the creator second, each the stake and the bond.
Fund(p) ==
    /\ Open /\ paidIn[p] = 0
    /\ p = 1 => paidIn[2] = AnteAndBond
    /\ paidIn' = [paidIn EXCEPT ![p] = AnteAndBond]
    /\ UNCHANGED <<paidOut, result>>

\* A bet at least matches the opponent's and never exceeds the cap.
PlaceBet(p) ==
    /\ Open /\ BothIn
    /\ \E total \in 1..MaxWager :
          /\ total > Bet(p) /\ total >= Bet(Opponent(p))
          /\ paidIn' = [paidIn EXCEPT ![p] = AnteAndBond + total]
    /\ UNCHANGED <<paidOut, result>>

Distribute(kind, who, out1, out2) ==
    /\ Open
    /\ paidOut' = [p \in Seats |-> IF p = 1 THEN out1 ELSE out2]
    /\ result' = [kind |-> kind, winner |-> who]
    /\ UNCHANGED paidIn

Pot == paidIn[1] + paidIn[2] - 2 * Bond

\* A player who is not ahead folds: the bonds go home, the pot to the opponent.
Fold(p) ==
    /\ BothIn /\ Bet(p) <= Bet(Opponent(p))
    /\ Distribute("concession", Opponent(p),
                  Bond + (IF p = 1 THEN 0 ELSE Pot), Bond + (IF p = 2 THEN 0 ELSE Pot))

\* A player who is not ahead stops playing: everything goes to the opponent.
Forfeit(p) ==
    /\ paidIn[2] >= AnteAndBond /\ paidIn[p] <= paidIn[Opponent(p)]
    /\ LET all == paidIn[1] + paidIn[2]
       IN Distribute("timeout", Opponent(p), IF p = 1 THEN 0 ELSE all, IF p = 2 THEN 0 ELSE all)

\* Level bets are compared: the pot to the better hand, halved on a tie.
Compare ==
    /\ BothIn /\ Bet(1) = Bet(2)
    /\ \/ \E p \in Seats :
             Distribute("showdown", p, Bond + (IF p = 1 THEN Pot ELSE 0),
                                       Bond + (IF p = 2 THEN Pot ELSE 0))
       \/ Distribute("showdown", 0, Bond + (Pot \div 2), Bond + (Pot \div 2))

RulesNext ==
    \/ \E p \in Seats : Fund(p) \/ PlaceBet(p) \/ Fold(p) \/ Forfeit(p)
    \/ Compare

RulesSpec == RulesInit /\ [][RulesNext]_rulesVars
=============================================================================
