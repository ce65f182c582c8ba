-------------------------- MODULE EmulatorScripts ---------------------------
(***************************************************************************)
(* The spending programs the Arkade emulator executes (program_live.go,    *)
(* program_terminal.go, program_reveals.go).  They are generated           *)
(* independently of the Go builders and speak in packet bytes: phases are  *)
(* numbers, successors are computed by adding to them.  A program is a     *)
(* relation between the spent output (state s, value v) and a proposed     *)
(* transaction, so what a program accepts does not depend on who built it. *)
(*                                                                         *)
(* A live proposal tx is [post, out, funded]: the successor state, the     *)
(* value of output 0 and whether there is any input besides the covenant.  *)
(* Proof verification is abstracted to presence: a slot in post.reveals    *)
(* holds a share with a valid proof by the slot's publisher.               *)
(***************************************************************************)
EXTENDS CovenantState, Sequences

PhaseByte(ph) ==
    CASE ph.kind = "AwaitPlayer1FundingAndReveal" -> 0
      [] ph.kind = "AwaitPlayer2RevealAndOpening" -> 1
      [] ph.kind = "ShowdownEvaluation" -> 26
      [] ph.kind = "Betting" -> 2 + 2 * (ph.street - PreFlop) + (ph.actor - 1)
      [] ph.kind = "AllIn" -> 28 + 2 * (ph.street - PreFlop) + (ph.actor - 1)
      [] ph.kind = "BoardReveal" ->
            10 + 4 * (ph.street - Flop) + 2 * (ph.pass - 1) + (ph.actor - 1)
      [] ph.kind = "ShowdownReveal" -> 22 + 2 * (ph.pass - 1) + (ph.actor - 1)
      [] ph.kind = "AllInReveal" -> 36 + 2 * (ph.street - Flop) + (ph.actor - 1)

\* DecodePhase: note the actor of a byte is its parity, for every acting phase.
DecodePhase(b) ==
    LET actor == 1 + (b % 2)
    IN CASE b = 0 -> AwaitPlayer1FundingAndReveal
         [] b = 1 -> AwaitPlayer2RevealAndOpening
         [] b \in 2..9 -> Betting(actor, PreFlop + (b - 2) \div 2)
         [] b \in 10..21 -> BoardReveal(actor, Flop + (b - 10) \div 4, 1 + ((b - 10) % 4) \div 2)
         [] b \in 22..25 -> ShowdownReveal(actor, 1 + (b - 22) \div 2)
         [] b = 26 -> ShowdownEvaluation
         [] b \in 28..35 -> AllIn(actor, PreFlop + (b - 28) \div 2)
         [] b \in 36..41 -> AllInReveal(actor, Flop + (b - 36) \div 2)

ActionByte(last) == CASE last = "Start" -> 0 [] last = "Check" -> 1 [] last = "Raise" -> 2

Half == Stake + Bond
Total == 2 * Half

DeadlineAdvances(s, tx) == tx.post.deadline = s.deadline + Interval

\* emitRevealPreservation and emitRevealProof: the named slots hold proven shares,
\* every other byte of the reveal packets is unchanged.
Reveals(s, tx, slots) ==
    /\ slots \subseteq tx.post.reveals
    /\ tx.post.reveals \ slots = s.reveals \ slots

SamePrefixWagers(s, tx) == tx.post.wagers = s.wagers

(***************************************************************************)
(* Live programs.  Each is compiled for one actor (and street), whose key  *)
(* the outer tapscript demands; p is that actor.                           *)
(***************************************************************************)
ScriptPlayer1Funding(s, v, tx) ==
    /\ s = InitialState
    /\ tx.funded
    /\ PhaseByte(tx.post.phase) = 1 /\ tx.post.last = s.last /\ SamePrefixWagers(s, tx)
    /\ DeadlineAdvances(s, tx)
    /\ Reveals(s, tx, {2, 3})
    /\ v = Half /\ tx.out = Total

ScriptPlayer2Opening(s, v, tx) ==
    LET b == tx.post.wagers[2]
        isBet == IF b > 0 THEN 1 ELSE 0
    IN /\ PhaseByte(s.phase) = 1 /\ s.last = "Start" /\ s.wagers = NoWagers
       /\ tx.post.wagers[1] = 0
       /\ DeadlineAdvances(s, tx)
       /\ b <= MaxWager
       /\ b = 0 \/ b >= MinBet
       /\ (b > 0) = tx.funded
       /\ ActionByte(tx.post.last) = isBet + 1
       /\ PhaseByte(tx.post.phase) = (IF b = MaxWager THEN 26 ELSE 0) + 2
       /\ tx.out = Total + b /\ v = Total
       /\ Reveals(s, tx, {0, 1})

\* One program serves check, call and raise: the new wager n tells them apart.
ScriptBetting(street, p, s, v, tx) ==
    LET player == p - 1
        betting == 2 + 2 * (street - PreFlop)
        closing == 10 + 4 * (street - PreFlop)
        leastAction == IF street = PreFlop THEN 1 + player ELSE 0
        a == s.wagers[p]
        o == s.wagers[Other(p)]
        l == ActionByte(s.last)
        n == tx.post.wagers[p]
        increment == IF l = 2 THEN o - a ELSE MinBet
        next == IF n = o
                THEN IF l = 0 THEN <<betting + 1 - player, 1>>
                              ELSE <<closing + 1 - player, 0>>
                ELSE <<betting + 1 - player + (IF n = MaxWager THEN 26 ELSE 0), 2>>
    IN /\ PhaseByte(s.phase) = betting + player
       /\ tx.post.wagers[Other(p)] = o
       /\ DeadlineAdvances(s, tx)
       /\ l >= leastAction
       /\ a < MaxWager /\ o < MaxWager
       /\ IF l = 2 THEN o - a >= MinBet ELSE a = o
       /\ n >= a /\ n <= MaxWager
       /\ (n > a) = tx.funded
       /\ v = a + o + Total /\ tx.out = n + o + Total
       /\ n # o => n > o /\ (n - o >= increment \/ n = MaxWager)
       /\ ActionByte(tx.post.last) = next[2] /\ PhaseByte(tx.post.phase) = next[1]
       /\ Reveals(s, tx, {})

\* Both passes share one program: the pass is the source phase's distance, halved.
ScriptBoardReveal(street, p, s, v, tx) ==
    LET player == p - 1
        firstPhase == 10 + 4 * (street - Flop)
        delta == PhaseByte(s.phase) - (firstPhase + player)
        nextFirst == firstPhase + 2 + 1 - player
        nextSecond == 4 + 2 * (street - Flop) + 1 - player
        count == IF street = Flop THEN 3 ELSE 1
        firstSlot == (IF street = Flop THEN 4 ELSE IF street = Turn THEN 10 ELSE 12)
                     + player * count
        w == s.wagers[1]
    IN /\ ~tx.funded
       /\ s.last = "Start"
       /\ delta = 0 \/ delta = 2
       /\ w < MaxWager /\ s.wagers[2] = w
       /\ v = 2 * (w + Half) /\ tx.out = 2 * (w + Half)
       /\ tx.post.last = "Start" /\ SamePrefixWagers(s, tx) /\ DeadlineAdvances(s, tx)
       /\ PhaseByte(tx.post.phase) = nextFirst + (delta \div 2) * (nextSecond - nextFirst)
       /\ Reveals(s, tx, firstSlot..(firstSlot + count - 1))

\* Slip: betting that ended on the flop is taken to have opened the turn.
RemainingCardsWithoutTurn(street, p) ==
    LET player == p - 1
    IN (IF street = PreFlop THEN (4 + 3 * player)..(6 + 3 * player) ELSE {})
       \cup (IF street = PreFlop THEN {10 + player} ELSE {})
       \cup (IF street # River THEN {12 + player} ELSE {})
       \cup {14 + 2 * player, 15 + 2 * player}

\* remainingRevealCards: what a player still owes after betting ended on street.
RemainingCards(street, p) ==
    LET player == p - 1
    IN (IF street = PreFlop THEN (4 + 3 * player)..(6 + 3 * player) ELSE {})
       \cup (IF street \in {PreFlop, Flop} THEN {10 + player} ELSE {})
       \cup (IF street # River THEN {12 + player} ELSE {})
       \cup {14 + 2 * player, 15 + 2 * player}

ScriptShowdownReveal(p, s, v, tx) ==
    LET player == p - 1
        delta == PhaseByte(s.phase) - (22 + player)
        nextFirst == 24 + 1 - player
        w == s.wagers[1]
    IN /\ ~tx.funded
       /\ s.last = "Start"
       /\ delta = 0 \/ delta = 2
       /\ w <= MaxWager /\ (w < MaxWager \/ delta = 2) /\ s.wagers[2] = w
       /\ v = 2 * (w + Half) /\ tx.out = 2 * (w + Half)
       /\ tx.post.last = "Start" /\ SamePrefixWagers(s, tx) /\ DeadlineAdvances(s, tx)
       /\ PhaseByte(tx.post.phase) = nextFirst + (delta \div 2) * (26 - nextFirst)
       /\ Reveals(s, tx, RemainingCards(River, p))

ScriptAllInCall(street, p, s, v, tx) ==
    LET player == p - 1
        phase == 28 + 2 * (street - PreFlop)
        next == IF street = River THEN 24 ELSE 36 + 2 * (street - PreFlop)
    IN /\ tx.funded
       /\ PhaseByte(s.phase) = phase + player /\ s.last = "Raise"
       /\ s.wagers[Other(p)] = MaxWager /\ s.wagers[p] < MaxWager
       /\ v = 2 * Half + MaxWager + s.wagers[p]
       /\ tx.out = 2 * (Half + MaxWager)
       /\ PhaseByte(tx.post.phase) = next + 1 - player /\ tx.post.last = "Start"
       /\ tx.post.wagers[1] = MaxWager /\ tx.post.wagers[2] = MaxWager
       /\ DeadlineAdvances(s, tx)
       /\ Reveals(s, tx, RemainingCards(street, p))

ScriptAllInReveal(first, p, s, v, tx) ==
    /\ ~tx.funded
    /\ PhaseByte(s.phase) = 36 + 2 * (first - Flop) + (p - 1) /\ s.last = "Start"
    /\ s.wagers[1] = MaxWager /\ s.wagers[2] = MaxWager
    /\ v = 2 * (Half + MaxWager) /\ tx.out = 2 * (Half + MaxWager)
    /\ PhaseByte(tx.post.phase) = 26 /\ tx.post.last = "Start"
    /\ SamePrefixWagers(s, tx) /\ DeadlineAdvances(s, tx)
    /\ Reveals(s, tx, RemainingCards(first - 1, p))

\* compileSpendingPaths: the live programs whose leaf the key of p unlocks.
ScriptAdmits(p, s, v, tx) ==
    \/ p = 1 /\ ScriptPlayer1Funding(s, v, tx)
    \/ p = 2 /\ ScriptPlayer2Opening(s, v, tx)
    \/ \E street \in PreFlop..River :
          ScriptBetting(street, p, s, v, tx) \/ ScriptAllInCall(street, p, s, v, tx)
    \/ \E street \in Flop..River :
          ScriptBoardReveal(street, p, s, v, tx) \/ ScriptAllInReveal(street, p, s, v, tx)
    \/ ScriptShowdownReveal(p, s, v, tx)

(***************************************************************************)
(* Terminal programs.  outs is the sequence of payouts [to, amount]; the   *)
(* phases a program serves are a bit mask over phase bytes.                *)
(***************************************************************************)
\* Slip: the mask also serves the second reveal of the river.
ConcessionPhasesWide(p) ==
    {b + p - 1 : b \in {2, 4, 6, 8, 20, 22, 24, 28, 30, 32, 34, 36, 38, 40}}

ConcessionPhases(p) ==
    {b + p - 1 : b \in {2, 4, 6, 8, 22, 24, 28, 30, 32, 34, 36, 38, 40}}

ScriptConcession(p, s, v, outs) ==
    /\ PhaseByte(s.phase) \in ConcessionPhases(p)
    /\ v >= Bond
    /\ Len(outs) >= 2
    /\ outs[p].amount = Bond /\ outs[Other(p)].amount = v - Bond
    /\ outs[1].to = 1 /\ outs[2].to = 2

\* The beneficiary is the player the phase byte's parity does not name.
TimeoutPhases(beneficiary) ==
    {b \in 0..41 : b \notin {26, 27} /\ (b % 2) = (IF beneficiary = 1 THEN 1 ELSE 0)}

ScriptTimeout(beneficiary, s, v, outs, now) ==
    /\ PhaseByte(s.phase) \in TimeoutPhases(beneficiary)
    /\ now >= s.deadline
    /\ outs[1].amount = v /\ outs[1].to = beneficiary

\* g is 2, 1 or 0 halves of the pot for Player 1, from the two proven ranks.
ScriptShowdown(s, v, outs, winner) ==
    LET w == s.wagers[1]
        g == CASE winner = 1 -> 2 [] winner = 0 -> 1 [] winner = 2 -> 0
        first == g * (Stake + w) + Bond
    IN /\ PhaseByte(s.phase) = 26 /\ s.last = "Start"
       /\ w <= MaxWager /\ s.wagers[2] = w
       /\ v = 2 * (w + Half)
       /\ Slots \subseteq s.reveals
       /\ Len(outs) >= 2
       /\ outs[1] = [to |-> 1, amount |-> first]
       /\ outs[2] = [to |-> 2, amount |-> v - first]
=============================================================================
