------------------------- MODULE CovenantProperties -------------------------
(***************************************************************************)
(* What the covenant promises the two players, stated over Covenant.       *)
(***************************************************************************)
EXTENDS Covenant

(***************************************************************************)
(* The type invariant: every variable holds a value the code can produce.  *)
(***************************************************************************)
TypeOK ==
    /\ stage \in {"unfunded", "live", "settled"}
    /\ state \in States
    /\ value \in Nat
    /\ contributed \in [Players -> Nat]
    /\ received \in [Players -> Nat]
    /\ settlement \in [kind : {"none", "concession", "timeout", "showdown"}, winner : 0..2]
    /\ winner \in 0..2
    /\ clock \in 0..MaxClock

BothFunded == stage = "live" /\ state.phase # AwaitPlayer1FundingAndReveal

(***************************************************************************)
(* Money.                                                                  *)
(***************************************************************************)
\* No satoshi appears or vanishes: over any chain of live transactions and any
\* terminal payout, what is locked plus what was paid out is what was paid in.
FundsConserved ==
    value + received[1] + received[2] = contributed[1] + contributed[2]

\* The covenant value is shared state that neither player owns, yet each wallet
\* has funded exactly its own stake, bond and cumulative wager - never a part of
\* the opponent's (buildLive funds the difference of two joint values).
EachFundsItsOwnWagers ==
    BothFunded =>
        \A p \in Players : contributed[p] = Stake + Bond + state.wagers[p]

\* The two ledgers of the players and the covenant's value balance, jointly and each.
LedgerBalances == FundsConserved /\ EachFundsItsOwnWagers

Net(p) == received[p] - contributed[p]

\* The settlement rules: folding costs the stake and the folder's own wagers and
\* leaves the bond; a showdown moves one stake and one matched wager, or nothing
\* on a tie; missing a deadline forfeits everything the player had put in.
SettlementIsFair ==
    LET w == settlement.winner
        l == Other(w)
        moved == Stake + state.wagers[l]
    IN stage = "settled" =>
        CASE settlement.kind = "concession" -> Net(w) = moved /\ Net(l) = -moved
          [] settlement.kind = "timeout" ->
                Net(w) = contributed[l] /\ Net(l) = -contributed[l]
          [] settlement.kind = "showdown" ->
                IF w = 0 THEN Net(1) = 0 /\ Net(2) = 0
                         ELSE Net(w) = moved /\ Net(l) = -moved
          [] OTHER -> FALSE

\* The covenant never holds more than MAX_MONEY, so no output value the builders
\* compute can leave the range addAmount and the scripts accept.
ValueWithinMoney == value <= MaxMoney

(***************************************************************************)
(* Betting.                                                                *)
(***************************************************************************)
\* No trap: whenever the covenant waits for a player, some live builder serves
\* that player, so the rules themselves never force a fold or a timeout; and once
\* every share is out the showdown can be submitted.
ObligedPlayerCanMove ==
    stage = "live" =>
        IF state.phase = ShowdownEvaluation THEN ENABLED Showdown ELSE ENABLED LiveStep

\* Every live move hands the turn to the opponent, or ends the hand's moves: a
\* player can never move twice and run the opponent's deadline down alone.
TurnsAlternate ==
    [][state' # state =>
          \/ RequiredActor(state'.phase) = Other(RequiredActor(state.phase))
          \/ state'.phase = ShowdownEvaluation]_vars

(***************************************************************************)
(* Cards.                                                                  *)
(***************************************************************************)
\* What is published in each phase, exactly.  The first of two revealers of a
\* street or a showdown is the opponent of the one still obliged.
PublishedAt(ph) ==
    LET p == ph.actor
        holes == OpponentHoleSlots(1) \cup OpponentHoleSlots(2)
        board(last) == UNION {StreetSlots(st) : st \in Flop..last}
    IN CASE ph.kind = "AwaitPlayer1FundingAndReveal" -> {}
         [] ph.kind = "AwaitPlayer2RevealAndOpening" -> OpponentHoleSlots(1)
         [] ph.kind \in {"Betting", "AllIn"} -> holes \cup board(ph.street)
         [] ph.kind = "BoardReveal" ->
               holes \cup board(ph.street - 1)
               \cup (IF ph.pass = 2 THEN BoardSlots(Other(p), ph.street) ELSE {})
         [] ph.kind = "ShowdownReveal" ->
               holes \cup board(River)
               \cup (IF ph.pass = 2 THEN OwnHoleSlots(Other(p)) ELSE {})
         [] ph.kind = "AllInReveal" ->
               holes \cup board(ph.street - 1) \cup RemainingSlots(Other(p), ph.street)
         [] OTHER -> Slots

\* "keeping each player's hole cards private until showdown" (README.md:38): both
\* shares of a player's hole card are public only when no bet can follow.
HolesPrivateUntilShowdown ==
    \A p \in Players :
        state.reveals \cap OwnHoleSlots(p) # {} =>
            /\ StartEqual(state)
            /\ state.phase.kind \in {"ShowdownReveal", "AllInReveal", "ShowdownEvaluation"}

\* No share is published early, published twice or left out: the published slots
\* are a function of the phase, whatever history of checks, calls, raises and
\* all-ins led there.  In particular evaluation always has all nine cards, and
\* hole cards stay private until no bet can follow.
RevealsMatchPhase ==
    /\ state.reveals = PublishedAt(state.phase)
    /\ HolesPrivateUntilShowdown

(***************************************************************************)
(* Time.                                                                   *)
(***************************************************************************)
\* Raises are what makes a hand long.  Below the cap each adds at least MinBet;
\* a last one to the cap replaces one of the two showdown reveals.
MaxRaises == (MaxWager - 1) \div MinBet

\* The hand has a bounded number of moves, so the funds are locked no longer than
\* a deadline known in advance.  Player 1's funding; on each of four streets a
\* check and a closing move (the opening is the first of them), and the raises;
\* two reveals for each of three streets and two for the showdown.
LastDeadline == InitialDeadline + Interval * (1 + 4 * 2 + MaxRaises + 3 * 2 + 2)
LifetimeBounded == state.deadline <= LastDeadline

(***************************************************************************)
(* Liveness.  The clock runs.  A client reveals board shares and submits   *)
(* the showdown without asking its user (Driver.step on BoardRevealLocal   *)
(* and SettleShowdown); a claim of a mature timeout is offered to the user *)
(* for as long as it stays possible (WaitOpponentEffect).                  *)
(***************************************************************************)
AutomaticMoves == WF_vars(RevealBoard) /\ WF_vars(Showdown)
ClaimsAreTaken == WF_vars(Tick) /\ WF_vars(Timeout)

AutomaticSpec == Spec /\ AutomaticMoves

\* A street being revealed is always opened, and an evaluated hand always paid,
\* if both clients merely keep running: these phases need no user.
AutomaticPhasesEnd ==
    (stage = "live" /\ state.phase.kind \in {"BoardReveal", "ShowdownEvaluation"})
        ~> (stage = "settled" \/ state.phase.kind = "Betting")

\* Funds are never locked for good: if mature claims are taken, a funded covenant is
\* eventually paid out, even if one of the players stops taking part at any point.
EventuallySettled == ClaimsAreTaken => (stage = "live") ~> (stage = "settled")
=============================================================================
