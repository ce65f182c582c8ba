-------------------------- MODULE ClientAdmission ---------------------------
(***************************************************************************)
(* How a client reads an accepted transaction (internal/game/admission.go) *)
(* and which moves it offers its own user (hand_decide.go).  This is the   *)
(* third statement of the rules: the client recomputes the expected        *)
(* successor from the previous one and compares.  It checks less than the  *)
(* programs do, relying on the source being an admitted state.             *)
(*                                                                         *)
(* A live proposal tx is [post, out, funded] as in EmulatorScripts; a      *)
(* terminal one is the sequence of its payouts [to, amount].               *)
(***************************************************************************)
EXTENDS CovenantBuilders, Sequences

\* The shares the source phase obliges its actor to publish.
DueSlots(ph) ==
    LET p == RequiredActor(ph)
    IN CASE ph.kind = "AwaitPlayer1FundingAndReveal" -> {2, 3}
         [] ph.kind = "AwaitPlayer2RevealAndOpening" -> {0, 1}
         [] ph.kind = "BoardReveal" -> BoardSlots(p, ph.street)
         [] ph.kind = "ShowdownReveal" -> OwnHoleSlots(p)
         [] ph.kind = "AllIn" ->
               IF ph.street = River THEN OwnHoleSlots(p) ELSE RemainingSlots(p, ph.street + 1)
         [] ph.kind = "AllInReveal" -> RemainingSlots(p, ph.street)
         [] OTHER -> {}

\* The successor a client expects, and what its sender must have paid for it.
\* target is the actor's wager in the proposed successor.
Expectation(s, target) ==
    LET ph == s.phase
        actor == RequiredActor(ph)
        opponent == Other(actor)
        mine == s.wagers[actor]
        theirs == s.wagers[opponent]
        expect(phase, last, wagers, contribution) ==
            {[state |-> Successor(s, phase, last, wagers, DueSlots(ph)), paid |-> contribution]}
        unchanged(phase) == expect(phase, s.last, s.wagers, 0)
        bet == [s.wagers EXCEPT ![actor] = target]
        minimum == IF s.last = "Raise" THEN theirs - mine ELSE MinBet
    IN CASE ph.kind = "AwaitPlayer1FundingAndReveal" ->
              expect(AwaitPlayer2RevealAndOpening, s.last, s.wagers, Stake + Bond)
         [] ph.kind = "AwaitPlayer2RevealAndOpening" ->
              IF target > MaxWager \/ (target # 0 /\ target < MinBet) THEN {}
              ELSE expect(IF target = MaxWager THEN AllIn(opponent, PreFlop)
                                               ELSE Betting(opponent, PreFlop),
                          IF target # 0 THEN "Raise" ELSE "Check", bet, target)
         [] ph.kind = "Betting" ->
              IF target < mine \/ target > MaxWager THEN {}
              ELSE IF target = theirs
              THEN IF s.last = "Start"
                   THEN expect(Betting(opponent, ph.street), "Check", bet, target - mine)
                   ELSE expect(IF ph.street = River THEN ShowdownReveal(opponent, 1)
                                                    ELSE BoardReveal(opponent, ph.street + 1, 1),
                               "Start", bet, target - mine)
              ELSE IF \/ s.last = "Raise" /\ theirs < mine
                      \/ target <= theirs \/ target <= mine
                      \/ target # MaxWager /\ target - theirs < minimum
              THEN {}
              ELSE expect(IF target = MaxWager THEN AllIn(opponent, ph.street)
                                               ELSE Betting(opponent, ph.street),
                          "Raise", bet, target - mine)
         [] ph.kind = "BoardReveal" ->
              unchanged(IF ph.pass = 1 THEN BoardReveal(opponent, ph.street, 2)
                                       ELSE Betting(opponent, ph.street))
         [] ph.kind = "ShowdownReveal" ->
              unchanged(IF ph.pass = 1 THEN ShowdownReveal(opponent, 2) ELSE ShowdownEvaluation)
         [] ph.kind = "AllIn" ->
              IF mine > MaxWager THEN {}
              ELSE expect(IF ph.street = River THEN ShowdownReveal(opponent, 2)
                                               ELSE AllInReveal(opponent, ph.street + 1),
                          "Start", [q \in Players |-> MaxWager], MaxWager - mine)
         [] ph.kind = "AllInReveal" -> unchanged(ShowdownEvaluation)

\* Slip: admission trusts the state packet for the money and ignores the inputs.
AdmitSpendAnyFunding(s, v, tx) ==
    /\ RequiredActor(s.phase) # 0
    /\ DueSlots(s.phase) \cap s.reveals = {}
    /\ DueSlots(s.phase) \subseteq tx.post.reveals
    /\ \E e \in Expectation(s, tx.post.wagers[RequiredActor(s.phase)]) :
          tx.post = e.state /\ tx.out = v + e.paid

\* admitSpend: v is the value of the spent output.
AdmitSpend(s, v, tx) ==
    /\ RequiredActor(s.phase) # 0
    /\ DueSlots(s.phase) \cap s.reveals = {}          \* repeated publication
    /\ DueSlots(s.phase) \subseteq tx.post.reveals    \* each share is decoded, proved
    /\ \E e \in Expectation(s, tx.post.wagers[RequiredActor(s.phase)]) :
          /\ tx.post = e.state
          /\ tx.out = v + e.paid
          /\ tx.funded = (e.paid > 0)

Pays(p1, p2) == <<[to |-> 1, amount |-> p1], [to |-> 2, amount |-> p2]>>

\* admitTerminal: what the client concludes from a transaction without a state
\* packet, tried in the code's order; the empty set when it rejects it.
AdmitTerminal(s, v, outs, winner) ==
    LET actor == RequiredActor(s.phase)
        concession == ConcessionPayout(s, v)
        showdown == ShowdownPayout(s, winner)
    IN IF CanConcede(s, v) /\ outs = Pays(concession[1], concession[2])
       THEN {[kind |-> "concession", winner |-> Other(actor)]}
       ELSE IF CanTimeout(s) /\ outs = <<[to |-> Other(actor), amount |-> v]>>
       THEN {[kind |-> "timeout", winner |-> Other(actor)]}
       ELSE IF /\ s.phase.kind = "ShowdownEvaluation"
               /\ s.reveals = Slots                   \* checkEvaluation decodes all nine
               /\ CanShowdown(s) /\ v = LiveValue(s)
               /\ outs = Pays(showdown[1], showdown[2])
       THEN {[kind |-> "showdown", winner |-> winner]}
       ELSE {}

(***************************************************************************)
(* The moves offered to the local user while it is obliged to bet, as the  *)
(* wager each would lead to and the funding it is quoted (handChoice and   *)
(* RequiredFunding).                                                       *)
(***************************************************************************)
SmallerOf(a, b) == IF a < b THEN a ELSE b

Offer(to, funding) == [to |-> to, funding |-> funding]

OfferedMoves(s) ==
    LET role == RequiredActor(s.phase)
        mine == s.wagers[role]
        theirs == s.wagers[Other(role)]
        call == theirs - mine
        increment == IF s.last = "Raise" THEN call ELSE MinBet
        minRaiseTo == SmallerOf(theirs + increment, MaxWager)
    IN CASE s.phase.kind = "AwaitPlayer2RevealAndOpening" ->
              {Offer(0, 0)} \cup {Offer(n, n) : n \in MinBet..MaxWager}
         [] s.phase.kind = "Betting" ->
              (IF call >= 0 THEN {Offer(theirs, call)} ELSE {})
              \cup (IF theirs < MaxWager
                    THEN {Offer(n, n - mine) : n \in minRaiseTo..MaxWager} ELSE {})
         [] s.phase.kind = "AllIn" -> {Offer(MaxWager, MaxWager - mine)}
         [] OTHER -> {}
=============================================================================
