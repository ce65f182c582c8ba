------------------------- MODULE CovenantAgreement --------------------------
(***************************************************************************)
(* The rules of the hand are written three times: in the builders that     *)
(* assemble a player's own moves, in the emulator programs that decide     *)
(* which moves the service accepts, and in the admission code with which   *)
(* a client follows its opponent.  The three are not the same predicate -  *)
(* programs and admission check different parts of the source state.  They *)
(* must agree on every proposal against every state the covenant reaches.  *)
(***************************************************************************)
EXTENDS CovenantProperties, EmulatorScripts, ClientAdmission

(***************************************************************************)
(* Live proposals against the current output.  Plausible ones vary the     *)
(* phase, the last action and the wagers at will; near misses take a       *)
(* correct move and change its deadline, shares, value or funding.         *)
(***************************************************************************)
Proposal(t, out, funded) == [post |-> t, out |-> out, funded |-> funded]

\* One player's wager moved anywhere, or both set to the cap.
PlausibleWagers ==
    {[state.wagers EXCEPT ![p] = n] : p \in Players, n \in 0..MaxWager}
    \cup {[p \in Players |-> MaxWager]}

PlausibleSuccessors ==
    LET due == DueSlots(state.phase)
    IN {Successor(state, ph, last, w, due) :
            ph \in Phases, last \in LastActions, w \in PlausibleWagers}

MovesBuilt == {t \in PlausibleSuccessors : BuildLive(state, t)}

SlotGroups ==
    {OpponentHoleSlots(p) : p \in Players} \cup {OwnHoleSlots(p) : p \in Players}
    \cup {BoardSlots(p, st) : p \in Players, st \in Flop..River}

NearMisses(moves) ==
    {[t EXCEPT !.deadline = state.deadline + k * Interval] : t \in moves, k \in {0, 2}}
    \cup {[t EXCEPT !.reveals = @ \cup g] : t \in moves, g \in SlotGroups}
    \cup {[t EXCEPT !.reveals = @ \ g] : t \in moves, g \in SlotGroups}

\* Every plausible successor at its exact value, correct moves at a wrong one.
Proposals ==
    LET moves == MovesBuilt
    IN {Proposal(t, LiveValue(t), f) :
            t \in PlausibleSuccessors \cup NearMisses(moves), f \in BOOLEAN}
       \cup {Proposal(t, LiveValue(t) + d, f) : t \in moves, d \in {-1, 1}, f \in BOOLEAN}

\* What the builders produce: the successor, its exact value, and funding inputs
\* exactly when the actor pays something.
Built(tx) ==
    /\ BuildLive(state, tx.post)
    /\ tx.out = LiveValue(tx.post)
    /\ tx.funded = (tx.out > value)

InPlay == stage = "live"

\* Every output a hand can come to: no verdict compared here asks the clock.
UntimedNext == InitialDeposit \/ LiveStep \/ TerminalStep \/ Finished
UntimedSpec == Init /\ [][UntimedNext]_vars

\* The emulator accepts a proposed live transaction from the obliged player exactly
\* when that player's builder can produce it, and none from the other player, so
\* what holds of the builders holds against a modified client too.
ScriptsMatchBuilders ==
    InPlay => \A tx \in Proposals, p \in Players :
        ScriptAdmits(p, state, value, tx) <=> p = RequiredActor(state.phase) /\ Built(tx)

\* A client admits an accepted live transaction exactly when it is one a builder
\* produces: an honest client neither loses the thread of the hand on a legal move
\* nor follows it into a state the programs would not continue.  It offers its user
\* precisely the bets that can be built, at the funding the covenant will demand.
AdmissionMatchesBuilders ==
    InPlay =>
        /\ \A tx \in Proposals : AdmitSpend(state, value, tx) <=> Built(tx)
        /\ state.phase.kind \in {"AwaitPlayer2RevealAndOpening", "Betting", "AllIn"} =>
              OfferedMoves(state) =
                  {Offer(t.wagers[RequiredActor(state.phase)], LiveValue(t) - value) :
                      t \in MovesBuilt}

(***************************************************************************)
(* Terminal proposals: the locked value, to one player or divided between  *)
(* two outputs to either player.  No output is worth nothing, so the       *)
(* timeout program, which looks at the first output only, fixes them all.  *)
(***************************************************************************)
Payouts ==
    {<<[to |-> p, amount |-> value]>> : p \in Players}
    \cup {<<[to |-> p, amount |-> n], [to |-> q, amount |-> value - n]>> :
             p \in Players, q \in Players, n \in 1..(value - 1)}

\* The settlements the emulator would pay for outs, whoever submits them.
ScriptSettlements(outs) ==
    {[kind |-> "concession", winner |-> Other(p)] :
        p \in {q \in Players : ScriptConcession(q, state, value, outs)}}
    \cup {[kind |-> "timeout", winner |-> p] :
        p \in {q \in Players : ScriptTimeout(q, state, value, outs, state.deadline)}}
    \cup (IF ScriptShowdown(state, value, outs, winner)
          THEN {[kind |-> "showdown", winner |-> winner]} ELSE {})

\* Both clients read a terminal transaction the way the emulator meant it: the
\* kind and the winner a client reports from the payouts alone are those of the
\* one program that accepts them (a timeout's maturity is the emulator's to check).
TerminalReadingIsUnambiguous ==
    InPlay => \A outs \in Payouts :
        AdmitTerminal(state, value, outs, winner) = ScriptSettlements(outs)
=============================================================================
