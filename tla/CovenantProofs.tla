-------------------------- MODULE CovenantProofs ---------------------------
(***************************************************************************)
(* Theorems about the covenant for every choice of amounts, deadlines and  *)
(* deals.  Each builder moves only its actor's wager, upwards and within   *)
(* the cap (the Moves lemmas); the accounting invariant follows from that  *)
(* alone.  Turns, time, published shares, the rules of the hand and its    *)
(* length follow from what else a live move does: whose turn it hands      *)
(* over, by how much it moves the deadline, which shares it adds to those  *)
(* its phase already had, what it pays, and how far it brings the hand.    *)
(* The last part shows that the three statements of the rules agree.       *)
(***************************************************************************)
EXTENDS CovenantTime, CovenantAgreement, TLAPS

(***************************************************************************)
(* Phases: which fields the kind of a phase determines.                    *)
(***************************************************************************)
ActingKinds == {"Betting", "AllIn", "BoardReveal", "ShowdownReveal", "AllInReveal"}

\* A phase of an acting kind names a player, and its other fields are in range.
LEMMA PhaseShape ==
    ASSUME NEW ph \in Phases
    PROVE  /\ ph.kind \in ActingKinds => ph.actor \in Players
           /\ ph.kind \in {"Betting", "AllIn"} => ph.street \in PreFlop..River
           /\ ph.kind \in {"BoardReveal", "AllInReveal"} => ph.street \in Flop..River
           /\ ph.kind \in {"BoardReveal", "ShowdownReveal"} => ph.pass \in 1..2
           /\ ph.kind \notin ActingKinds =>
                 ph \in {AwaitPlayer1FundingAndReveal, AwaitPlayer2RevealAndOpening,
                         ShowdownEvaluation}
  BY DEF Phases, ActingKinds, Ph, AwaitPlayer1FundingAndReveal, AwaitPlayer2RevealAndOpening,
         ShowdownEvaluation, Betting, AllIn, BoardReveal, ShowdownReveal, AllInReveal

\* Every phase a builder can enter is a phase of the packet format.
LEMMA PhaseRange ==
    /\ AwaitPlayer1FundingAndReveal \in Phases
    /\ AwaitPlayer2RevealAndOpening \in Phases
    /\ ShowdownEvaluation \in Phases
    /\ \A p \in Players, st \in PreFlop..River :
          Betting(p, st) \in Phases /\ AllIn(p, st) \in Phases
    /\ \A p \in Players, st \in Flop..River :
          /\ AllInReveal(p, st) \in Phases
          /\ \A pass \in 1..2 : BoardReveal(p, st, pass) \in Phases
    /\ \A p \in Players, pass \in 1..2 : ShowdownReveal(p, pass) \in Phases
  BY DEF Phases

\* The kinds of the named phases tell them apart.
LEMMA Kinds ==
    /\ AwaitPlayer1FundingAndReveal.kind = "AwaitPlayer1FundingAndReveal"
    /\ AwaitPlayer2RevealAndOpening.kind = "AwaitPlayer2RevealAndOpening"
    /\ ShowdownEvaluation.kind = "ShowdownEvaluation"
    /\ \A p, st : Betting(p, st).kind = "Betting" /\ AllIn(p, st).kind = "AllIn"
    /\ \A p, st, pass : BoardReveal(p, st, pass).kind = "BoardReveal"
    /\ \A p, pass : ShowdownReveal(p, pass).kind = "ShowdownReveal"
    /\ \A p, st : AllInReveal(p, st).kind = "AllInReveal"
  BY DEF Ph, AwaitPlayer1FundingAndReveal, AwaitPlayer2RevealAndOpening,
         ShowdownEvaluation, Betting, AllIn, BoardReveal, ShowdownReveal, AllInReveal

LEMMA OtherPlayer ==
    \A p \in Players : Other(p) \in Players /\ Other(p) # p /\ Other(Other(p)) = p
  BY DEF Players, Other

\* The slot groups are slots.
LEMMA SlotRange ==
    ASSUME NEW p \in Players
    PROVE  /\ OpponentHoleSlots(p) \subseteq Slots
           /\ OwnHoleSlots(p) \subseteq Slots
           /\ \A st : BoardSlots(p, st) \subseteq Slots
           /\ \A st : RemainingSlots(p, st) \subseteq Slots
<1>1. OpponentHoleSlots(p) \subseteq Slots /\ OwnHoleSlots(p) \subseteq Slots
  BY DEF Players, OpponentHoleSlots, OwnHoleSlots, Slots
<1>2. \A st : BoardSlots(p, st) \subseteq Slots
  <2>1. ASSUME NEW st PROVE BoardSlots(p, st) \subseteq Slots
    <3>1. CASE st \in {Flop, Turn, River}
      BY <3>1 DEF Players, BoardSlots, Slots, Flop, Turn, River
    <3>2. CASE st \notin {Flop, Turn, River}
      BY <3>2 DEF BoardSlots
    <3> QED BY <3>1, <3>2
  <2> QED BY <2>1
<1>3. \A st : RemainingSlots(p, st) \subseteq Slots
  BY <1>1, <1>2 DEF RemainingSlots
<1> QED BY <1>1, <1>2, <1>3

(***************************************************************************)
(* What one live move does to the state, whoever built it.                 *)
(***************************************************************************)
WithinCap(s) == \A p \in Players : s.wagers[p] <= MaxWager

\* p's move from s to t: nobody else's wager changes, p's grows within the cap.
Moves(p, s, t) ==
    /\ t \in States
    /\ t.phase # AwaitPlayer1FundingAndReveal
    /\ t.wagers[Other(p)] = s.wagers[Other(p)]
    /\ t.wagers[p] >= s.wagers[p]
    /\ t.wagers[p] <= MaxWager

\* A successor assembled from parts of the right type is a state.
LEMMA SuccessorType ==
    ASSUME NEW s \in States, NEW phase \in Phases, NEW last \in LastActions,
           NEW wagers \in [Players -> Nat], NEW slots \in SUBSET Slots
    PROVE  /\ Successor(s, phase, last, wagers, slots) \in States
           /\ Successor(s, phase, last, wagers, slots).phase = phase
           /\ Successor(s, phase, last, wagers, slots).last = last
           /\ Successor(s, phase, last, wagers, slots).wagers = wagers
           /\ Successor(s, phase, last, wagers, slots).deadline = s.deadline + Interval
           /\ Successor(s, phase, last, wagers, slots).reveals = s.reveals \cup slots
  BY TimeAssumption DEF Successor, States

LEMMA InitialStateType == InitialState \in States
  BY PhaseRange, TimeAssumption DEF InitialState, States, LastActions, NoWagers

LEMMA FundingMoves ==
    ASSUME NEW s \in States, NEW t, WithinCap(s), BuildPlayer1Funding(s, t)
    PROVE  Moves(1, s, t)
<1>1. 1 \in Players
  BY DEF Players
<1>2. t \in States /\ t.phase = AwaitPlayer2RevealAndOpening /\ t.wagers = s.wagers
  BY <1>1, PhaseRange, SlotRange, SuccessorType DEF BuildPlayer1Funding, States
<1>3. t.phase # AwaitPlayer1FundingAndReveal
  BY <1>2, Kinds
<1> QED BY <1>1, <1>2, <1>3 DEF Moves, WithinCap, States

LEMMA OpeningMoves ==
    ASSUME NEW s \in States, NEW t, WithinCap(s), BuildPlayer2Opening(s, t)
    PROVE  Moves(2, s, t)
<1>1. 1 \in Players /\ 2 \in Players /\ Other(2) = 1
  BY DEF Players, Other
<1>2. PICK bet \in OpeningBets : t = OpeningSuccessor(s, bet)
  BY DEF BuildPlayer2Opening
<1>3. bet \in Nat /\ bet <= MaxWager
  BY AmountsAssumption DEF OpeningBets
<1> DEFINE wagers == [s.wagers EXCEPT ![2] = bet]
           phase == IF bet = MaxWager THEN AllIn(1, PreFlop) ELSE Betting(1, PreFlop)
           last == IF bet = 0 THEN "Check" ELSE "Raise"
<1>4. wagers \in [Players -> Nat] /\ wagers[2] = bet /\ wagers[1] = s.wagers[1]
  BY <1>1, <1>3 DEF States
<1>5. phase \in Phases /\ phase # AwaitPlayer1FundingAndReveal
  BY <1>1, PhaseRange, Kinds DEF PreFlop, River
<1>6. last \in LastActions
  BY DEF LastActions
<1>7. t = Successor(s, phase, last, wagers, OpponentHoleSlots(2))
  BY <1>2 DEF OpeningSuccessor
<1>8. t \in States /\ t.phase = phase /\ t.wagers = wagers
  <2> HIDE DEF wagers, phase, last
  <2> QED BY <1>1, <1>4, <1>5, <1>6, <1>7, SlotRange, SuccessorType
<1>9. s.wagers[2] = 0
  BY <1>1 DEF BuildPlayer2Opening, NoWagers
<1> QED BY <1>1, <1>3, <1>4, <1>5, <1>8, <1>9 DEF Moves

\* The actor of a betting phase and its opponent are the two players.
LEMMA BettingShape ==
    ASSUME NEW s \in States, s.phase.kind \in {"Betting", "AllIn"}
    PROVE  /\ s.phase.actor \in Players /\ Other(s.phase.actor) \in Players
           /\ Other(s.phase.actor) # s.phase.actor
           /\ s.phase.street \in PreFlop..River
           /\ Mine(s) \in Nat /\ Theirs(s) \in Nat
<1>1. s.phase \in Phases /\ s.wagers \in [Players -> Nat]
  BY DEF States
<1>2. s.phase.actor \in Players /\ s.phase.street \in PreFlop..River
  BY <1>1, PhaseShape DEF ActingKinds
<1> QED BY <1>1, <1>2, OtherPlayer DEF Mine, Theirs

LEMMA MatchedMoves ==
    ASSUME NEW s \in States, WithinCap(s), BettingHistory(s)
    PROVE  Moves(s.phase.actor, s, Matched(s))
<1> DEFINE p == s.phase.actor
           wagers == [s.wagers EXCEPT ![p] = Theirs(s)]
<1>1. /\ p \in Players /\ Other(p) \in Players /\ Other(p) # p
      /\ s.phase.street \in PreFlop..River /\ Mine(s) \in Nat /\ Theirs(s) \in Nat
  BY BettingShape DEF BettingHistory
<1>2. Mine(s) <= Theirs(s) /\ Theirs(s) <= MaxWager
  <2>1. CASE s.last = "Raise"
    BY <1>1, <2>1, AmountsAssumption DEF BettingHistory
  <2>2. CASE s.last # "Raise"
    <3>1. s.wagers[1] = s.wagers[2]
      BY <2>2 DEF BettingHistory, EqualWagers
    <3>2. Mine(s) = Theirs(s)
      BY <1>1, <3>1 DEF Mine, Theirs, Players
    <3> QED BY <1>1, <3>2, AmountsAssumption DEF BettingHistory
  <2> QED BY <2>1, <2>2
<1>3. /\ wagers \in [Players -> Nat]
      /\ wagers[p] = Theirs(s) /\ wagers[Other(p)] = s.wagers[Other(p)]
  BY <1>1 DEF States
<1>4. /\ Betting(Other(p), s.phase.street) \in Phases
      /\ Betting(Other(p), s.phase.street) # AwaitPlayer1FundingAndReveal
  BY <1>1, PhaseRange, Kinds
<1>5. Closed(s) \in Phases /\ Closed(s) # AwaitPlayer1FundingAndReveal
  <2>1. CASE s.phase.street = River
    BY <1>1, <2>1, PhaseRange, Kinds DEF Closed
  <2>2. CASE s.phase.street # River
    <3>1. s.phase.street + 1 \in Flop..River
      BY <1>1, <2>2 DEF PreFlop, Flop, River
    <3>2. Closed(s) = BoardReveal(Other(p), s.phase.street + 1, 1)
      BY <2>2 DEF Closed
    <3> QED BY <1>1, <3>1, <3>2, PhaseRange, Kinds
  <2> QED BY <2>1, <2>2
<1>6. \E phase \in Phases, last \in LastActions :
         /\ Matched(s) = Successor(s, phase, last, wagers, {})
         /\ phase # AwaitPlayer1FundingAndReveal
  BY <1>4, <1>5 DEF Matched, LastActions
<1>7. Matched(s) \in States /\ Matched(s).wagers = wagers
      /\ Matched(s).phase # AwaitPlayer1FundingAndReveal
  <2> HIDE DEF wagers
  <2> QED BY <1>3, <1>6, SuccessorType
<1> QED BY <1>1, <1>2, <1>3, <1>7 DEF Moves, Mine

LEMMA RaisedMoves ==
    ASSUME NEW s \in States, WithinCap(s), BettingHistory(s),
           NEW target \in RaiseTargets(s)
    PROVE  Moves(s.phase.actor, s, Raised(s, target))
<1> DEFINE p == s.phase.actor
           wagers == [s.wagers EXCEPT ![p] = target]
           phase == IF target = MaxWager THEN AllIn(Other(p), s.phase.street)
                                         ELSE Betting(Other(p), s.phase.street)
<1>1. /\ p \in Players /\ Other(p) \in Players /\ Other(p) # p
      /\ s.phase.street \in PreFlop..River /\ Mine(s) \in Nat /\ Theirs(s) \in Nat
  BY BettingShape DEF BettingHistory
<1>2. target \in Nat /\ target > Mine(s) /\ target <= MaxWager
  BY AmountsAssumption DEF RaiseTargets
<1>3. /\ wagers \in [Players -> Nat]
      /\ wagers[p] = target /\ wagers[Other(p)] = s.wagers[Other(p)]
  BY <1>1, <1>2 DEF States
<1>4. phase \in Phases /\ phase # AwaitPlayer1FundingAndReveal
  BY <1>1, PhaseRange, Kinds
<1>5. Raised(s, target) = Successor(s, phase, "Raise", wagers, {})
  BY DEF Raised
<1>6. Raised(s, target) \in States /\ Raised(s, target).wagers = wagers
      /\ Raised(s, target).phase = phase
  <2> HIDE DEF wagers, phase
  <2> QED BY <1>3, <1>4, <1>5, SuccessorType DEF LastActions
<1> QED BY <1>1, <1>2, <1>3, <1>4, <1>6 DEF Moves, Mine

\* A reveal changes no wager.
LEMMA RevealMoves ==
    ASSUME NEW s \in States, WithinCap(s), NEW p \in Players, NEW phase \in Phases,
           phase # AwaitPlayer1FundingAndReveal, NEW slots \in SUBSET Slots
    PROVE  Moves(p, s, Successor(s, phase, s.last, s.wagers, slots))
<1>1. s.last \in LastActions /\ s.wagers \in [Players -> Nat]
  BY DEF States
<1>2. /\ Successor(s, phase, s.last, s.wagers, slots) \in States
      /\ Successor(s, phase, s.last, s.wagers, slots).phase = phase
      /\ Successor(s, phase, s.last, s.wagers, slots).wagers = s.wagers
  BY <1>1, SuccessorType
<1> QED BY <1>1, <1>2 DEF Moves, WithinCap

LEMMA BoardRevealMoves ==
    ASSUME NEW s \in States, WithinCap(s), NEW t, BuildBoardReveal(s, t)
    PROVE  s.phase.actor \in Players /\ Moves(s.phase.actor, s, t)
<1> DEFINE p == s.phase.actor
           phase == IF s.phase.pass = 1 THEN BoardReveal(Other(p), s.phase.street, 2)
                                        ELSE Betting(Other(p), s.phase.street)
<1>1. p \in Players /\ Other(p) \in Players /\ s.phase.street \in Flop..River
  BY PhaseShape, OtherPlayer DEF States, BuildBoardReveal, ActingKinds
<1>2. s.phase.street \in PreFlop..River
  BY <1>1 DEF PreFlop, Flop, River
<1>3. phase \in Phases /\ phase # AwaitPlayer1FundingAndReveal
  BY <1>1, <1>2, PhaseRange, Kinds
<1>4. t = Successor(s, phase, s.last, s.wagers, BoardSlots(p, s.phase.street))
  BY DEF BuildBoardReveal
<1>5. BoardSlots(p, s.phase.street) \in SUBSET Slots
  BY <1>1, SlotRange
<1> HIDE DEF phase
<1> QED BY <1>1, <1>3, <1>4, <1>5, RevealMoves

LEMMA ShowdownRevealMoves ==
    ASSUME NEW s \in States, WithinCap(s), NEW t, BuildShowdownReveal(s, t)
    PROVE  s.phase.actor \in Players /\ Moves(s.phase.actor, s, t)
<1> DEFINE p == s.phase.actor
           phase == IF s.phase.pass = 1 THEN ShowdownReveal(Other(p), 2)
                                        ELSE ShowdownEvaluation
<1>1. p \in Players /\ Other(p) \in Players
  BY PhaseShape, OtherPlayer DEF States, BuildShowdownReveal, ActingKinds
<1>2. phase \in Phases /\ phase # AwaitPlayer1FundingAndReveal
  BY <1>1, PhaseRange, Kinds
<1>3. t = Successor(s, phase, s.last, s.wagers, OwnHoleSlots(p))
  BY DEF BuildShowdownReveal
<1>4. OwnHoleSlots(p) \in SUBSET Slots
  BY <1>1, SlotRange
<1> HIDE DEF phase
<1> QED BY <1>1, <1>2, <1>3, <1>4, RevealMoves

LEMMA AllInRevealMoves ==
    ASSUME NEW s \in States, WithinCap(s), NEW t, BuildAllInReveal(s, t)
    PROVE  s.phase.actor \in Players /\ Moves(s.phase.actor, s, t)
<1>1. s.phase.actor \in Players
  BY PhaseShape DEF States, BuildAllInReveal, ActingKinds
<1>2. ShowdownEvaluation \in Phases /\ ShowdownEvaluation # AwaitPlayer1FundingAndReveal
  BY PhaseRange, Kinds
<1>3. RemainingSlots(s.phase.actor, s.phase.street) \in SUBSET Slots
  BY <1>1, SlotRange
<1> QED BY <1>1, <1>2, <1>3, RevealMoves DEF BuildAllInReveal

LEMMA AllInCallMoves ==
    ASSUME NEW s \in States, WithinCap(s), NEW t, BuildAllInCall(s, t)
    PROVE  s.phase.actor \in Players /\ Moves(s.phase.actor, s, t)
<1> DEFINE p == s.phase.actor
           street == s.phase.street
           wagers == [q \in Players |-> MaxWager]
           phase == IF street = River THEN ShowdownReveal(Other(p), 2)
                                      ELSE AllInReveal(Other(p), street + 1)
<1>1. /\ p \in Players /\ Other(p) \in Players /\ street \in PreFlop..River
      /\ Mine(s) < MaxWager /\ Theirs(s) = MaxWager /\ Mine(s) \in Nat
  BY BettingShape DEF BuildAllInCall
<1>2. phase \in Phases /\ phase # AwaitPlayer1FundingAndReveal
  <2>1. CASE street = River
    BY <1>1, <2>1, PhaseRange, Kinds
  <2>2. CASE street # River
    <3>1. street + 1 \in Flop..River
      BY <1>1, <2>2 DEF PreFlop, Flop, River
    <3> QED BY <1>1, <2>2, <3>1, PhaseRange, Kinds
  <2> QED BY <2>1, <2>2
<1>3. wagers \in [Players -> Nat] /\ wagers[p] = MaxWager /\ wagers[Other(p)] = MaxWager
  BY <1>1, AmountsAssumption
<1>4. t = Successor(s, phase, "Start", wagers, RemainingSlots(p, street + 1))
  BY DEF BuildAllInCall
<1>5. RemainingSlots(p, street + 1) \in SUBSET Slots
  BY <1>1, SlotRange
<1>6. t \in States /\ t.phase = phase /\ t.wagers = wagers
  <2> HIDE DEF phase, wagers
  <2> QED BY <1>2, <1>3, <1>4, <1>5, SuccessorType DEF LastActions
<1> QED BY <1>1, <1>2, <1>3, <1>6, AmountsAssumption DEF Moves, Mine, Theirs

(***************************************************************************)
(* The accounting invariant.  It ties the joint value, the public wagers   *)
(* and the two wallets' ledgers together, and is inductive.                *)
(***************************************************************************)
DepositOnly ==
    /\ state = InitialState
    /\ value = DepositValue
    /\ contributed[1] = 0 /\ contributed[2] = DepositValue

Joint ==
    /\ value = LiveValue(state)
    /\ \A p \in Players : contributed[p] = Stake + Bond + state.wagers[p]

Books ==
    /\ WithinCap(state)
    /\ stage = "unfunded" => state = InitialState /\ value = 0 /\ contributed = NoWagers
    /\ stage = "live" =>
          IF state.phase = AwaitPlayer1FundingAndReveal THEN DepositOnly ELSE Joint
    /\ stage # "settled" => received = NoWagers
    /\ stage = "settled" =>
          /\ value = 0
          /\ received[1] + received[2] = contributed[1] + contributed[2]
          /\ SettlementIsFair

IInv == TypeOK /\ Books

LEMMA LiveValueType ==
    ASSUME NEW s \in States
    PROVE  /\ s.wagers[1] \in Nat /\ s.wagers[2] \in Nat
           /\ LiveValue(s) \in Nat /\ LiveValue(s) >= 2 * (Stake + Bond)
<1>1. s.wagers[1] \in Nat /\ s.wagers[2] \in Nat
  BY DEF States, Players
<1> QED BY <1>1, AmountsAssumption DEF LiveValue

LEMMA InitIInv == Init => IInv
<1> SUFFICES ASSUME Init PROVE IInv
  OBVIOUS
<1>1. TypeOK
  BY InitialStateType, DealsAssumption, ClockAssumption
     DEF Init, TypeOK, NoSettlement, NoWagers, Players
<1>2. WithinCap(state)
  BY AmountsAssumption DEF Init, WithinCap, InitialState, NoWagers
<1> QED BY <1>1, <1>2 DEF Init, IInv, Books

LEMMA DepositIInv == IInv /\ InitialDeposit => IInv'
<1> SUFFICES ASSUME IInv, InitialDeposit PROVE IInv'
  OBVIOUS
<1> USE DEF IInv, InitialDeposit
<1>1. DepositValue \in Nat
  BY AmountsAssumption DEF DepositValue
<1>2. contributed' \in [Players -> Nat] /\ contributed'[1] = 0 /\ contributed'[2] = DepositValue
  BY <1>1 DEF TypeOK, Books, NoWagers, Players
<1>3. TypeOK'
  BY <1>1, <1>2 DEF TypeOK
<1>4. WithinCap(state)'
  BY DEF Books, WithinCap
<1>5. (DepositOnly)'
  BY <1>2 DEF DepositOnly, Books
<1>6. received' = NoWagers /\ state'.phase = AwaitPlayer1FundingAndReveal
  BY DEF Books, InitialState
<1> QED BY <1>3, <1>4, <1>5, <1>6 DEF Books

\* A move from a jointly funded state keeps the books: the value grows by what
\* the actor's wager grows, and the actor's wallet pays it.
LEMMA JointMove ==
    ASSUME IInv, JointPredecessor, state.phase # AwaitPlayer1FundingAndReveal,
           NEW p \in Players, Live(p), Moves(p, state, state')
    PROVE  IInv'
<1> USE DEF IInv
<1>1. /\ state \in States /\ state' \in States
      /\ state'.phase # AwaitPlayer1FundingAndReveal
      /\ stage = "live" /\ stage' = "live"
  BY DEF TypeOK, Moves, Live
<1>2. Joint
  BY <1>1 DEF Books
<1>3. /\ state.wagers[1] \in Nat /\ state.wagers[2] \in Nat /\ LiveValue(state) \in Nat
      /\ state'.wagers[1] \in Nat /\ state'.wagers[2] \in Nat /\ LiveValue(state') \in Nat
  BY <1>1, LiveValueType
<1>4. LiveValue(state') - value = state'.wagers[p] - state.wagers[p]
  <2>1. CASE p = 1
    BY <1>3, <2>1, AmountsAssumption DEF JointPredecessor, LiveValue, Moves, Other
  <2>2. CASE p = 2
    BY <1>3, <2>2, AmountsAssumption DEF JointPredecessor, LiveValue, Moves, Other
  <2> QED BY <2>1, <2>2 DEF Players
<1>5. contributed' = [contributed EXCEPT ![p] = @ + (state'.wagers[p] - state.wagers[p])]
  BY <1>4 DEF Live
<1>6. \A q \in Players : contributed'[q] = Stake + Bond + state'.wagers[q]
  <2>1. ASSUME NEW q \in Players, q = p PROVE contributed'[q] = Stake + Bond + state'.wagers[q]
    BY <1>1, <1>2, <1>3, <1>5, <2>1, AmountsAssumption DEF Joint, TypeOK, Players
  <2>2. ASSUME NEW q \in Players, q # p PROVE contributed'[q] = Stake + Bond + state'.wagers[q]
    <3>1. q = Other(p)
      BY <2>2 DEF Players, Other
    <3> QED BY <1>2, <1>5, <2>2, <3>1 DEF Joint, TypeOK, Moves
  <2> QED BY <2>1, <2>2
<1>7. contributed' \in [Players -> Nat]
  <2>1. \A q \in Players : contributed'[q] \in Nat
    BY <1>3, <1>6, AmountsAssumption DEF Players
  <2> QED BY <1>5, <2>1 DEF TypeOK
<1>8. value' = LiveValue(state')
  BY DEF Live
<1>9. TypeOK'
  BY <1>1, <1>3, <1>7, <1>8 DEF TypeOK, Live
<1>10. WithinCap(state)'
  <2>1. ASSUME NEW q \in Players PROVE state'.wagers[q] <= MaxWager
    <3>1. CASE q = p
      BY <3>1 DEF Moves
    <3>2. CASE q # p
      BY <3>2 DEF Players, Other, Moves, Books, WithinCap
    <3> QED BY <3>1, <3>2
  <2> QED BY <2>1 DEF WithinCap
<1>11. (Joint)'
  BY <1>6, <1>8 DEF Joint
<1>12. received' = NoWagers
  BY <1>1 DEF Live, Books
<1> QED BY <1>1, <1>9, <1>10, <1>11, <1>12 DEF Books

LEMMA FundingIInv == IInv /\ Player1Funding => IInv'
<1> SUFFICES ASSUME IInv, Player1Funding PROVE IInv'
  OBVIOUS
<1> USE DEF IInv, Player1Funding
<1>1. state \in States /\ WithinCap(state) /\ stage = "live" /\ stage' = "live"
  BY DEF TypeOK, Books, Live
<1>2. Moves(1, state, state')
  BY <1>1, FundingMoves
<1>3. state = InitialState /\ state.phase = AwaitPlayer1FundingAndReveal
  BY DEF BuildPlayer1Funding, InitialState
<1>4. DepositOnly
  BY <1>1, <1>3 DEF Books
<1>5. state'.wagers = NoWagers
  BY <1>3 DEF BuildPlayer1Funding, Successor, InitialState
<1>6. LiveValue(state') = 2 * (Stake + Bond)
  BY <1>5, AmountsAssumption DEF LiveValue, NoWagers, Players
<1>7. contributed' = [contributed EXCEPT ![1] = @ + (2 * (Stake + Bond) - (Stake + Bond))]
  BY <1>4, <1>6 DEF Live, DepositOnly, DepositValue
<1>8. \A q \in Players : contributed'[q] = Stake + Bond + state'.wagers[q]
  <2>1. contributed'[1] = Stake + Bond /\ contributed'[2] = Stake + Bond
    BY <1>4, <1>7, AmountsAssumption DEF DepositOnly, DepositValue, TypeOK, Players
  <2> QED BY <1>5, <2>1, AmountsAssumption DEF NoWagers, Players
<1>9. contributed' \in [Players -> Nat]
  <2>1. \A q \in Players : contributed'[q] \in Nat
    BY <1>5, <1>8, AmountsAssumption DEF NoWagers
  <2> QED BY <1>7, <2>1 DEF TypeOK
<1>10. value' = LiveValue(state') /\ value' \in Nat
  BY <1>6, AmountsAssumption DEF Live
<1>11. TypeOK'
  BY <1>2, <1>9, <1>10 DEF TypeOK, Live, Moves
<1>12. WithinCap(state)'
  BY <1>5, AmountsAssumption DEF WithinCap, NoWagers
<1>13. (Joint)' /\ received' = NoWagers
  BY <1>1, <1>8, <1>10 DEF Joint, Live, Books
<1> QED BY <1>1, <1>2, <1>11, <1>12, <1>13 DEF Books, Moves

\* The phase of every joint live action other than Player 1's funding has a kind
\* of its own, so the deposit is already joined by Player 1's funds.
LEMMA ActingStep ==
    ASSUME IInv, JointPredecessor, NEW p \in Players, Live(p), Moves(p, state, state'),
           state.phase.kind # "AwaitPlayer1FundingAndReveal"
    PROVE  IInv'
<1>1. state.phase # AwaitPlayer1FundingAndReveal
  BY Kinds
<1> QED BY <1>1, JointMove

LEMMA LiveIInv == IInv /\ LiveStep => IInv'
<1> SUFFICES ASSUME IInv, LiveStep PROVE IInv'
  OBVIOUS
<1>1. state \in States /\ WithinCap(state)
  BY DEF IInv, TypeOK, Books
<1>2. CASE Player1Funding
  BY <1>2, FundingIInv
<1>3. CASE Player2Opening
  <2>1. Moves(2, state, state')
    BY <1>1, <1>3, OpeningMoves DEF Player2Opening
  <2>2. state.phase.kind # "AwaitPlayer1FundingAndReveal"
    BY <1>3, Kinds DEF Player2Opening, BuildPlayer2Opening
  <2> QED BY <1>3, <2>1, <2>2, ActingStep DEF Player2Opening, Players
<1>4. CASE Check \/ Call
  <2>1. BettingHistory(state) /\ state' = Matched(state)
    BY <1>4 DEF Check, Call, BuildCheck, BuildCall
  <2>2. state.phase.actor \in Players
    BY <1>1, <2>1, BettingShape DEF BettingHistory
  <2>3. Moves(state.phase.actor, state, state')
    BY <1>1, <2>1, MatchedMoves
  <2>4. JointPredecessor /\ Live(state.phase.actor)
    BY <1>4 DEF Check, Call
  <2> QED BY <2>1, <2>2, <2>3, <2>4, ActingStep DEF BettingHistory
<1>5. CASE RaiseTo
  <2>1. BettingHistory(state)
    BY <1>5 DEF RaiseTo, BuildRaiseTo
  <2>2. PICK target \in RaiseTargets(state) : state' = Raised(state, target)
    BY <1>5 DEF RaiseTo, BuildRaiseTo
  <2>3. state.phase.actor \in Players
    BY <1>1, <2>1, BettingShape DEF BettingHistory
  <2>4. Moves(state.phase.actor, state, state')
    BY <1>1, <2>1, <2>2, RaisedMoves
  <2>5. JointPredecessor /\ Live(state.phase.actor)
    BY <1>5 DEF RaiseTo
  <2> QED BY <2>1, <2>3, <2>4, <2>5, ActingStep DEF BettingHistory
<1>6. CASE RevealBoard
  <2>1. state.phase.actor \in Players /\ Moves(state.phase.actor, state, state')
    BY <1>1, <1>6, BoardRevealMoves DEF RevealBoard
  <2> QED BY <1>6, <2>1, ActingStep DEF RevealBoard, BuildBoardReveal
<1>7. CASE RevealShowdown
  <2>1. state.phase.actor \in Players /\ Moves(state.phase.actor, state, state')
    BY <1>1, <1>7, ShowdownRevealMoves DEF RevealShowdown
  <2> QED BY <1>7, <2>1, ActingStep DEF RevealShowdown, BuildShowdownReveal
<1>8. CASE AllInCall
  <2>1. state.phase.actor \in Players /\ Moves(state.phase.actor, state, state')
    BY <1>1, <1>8, AllInCallMoves DEF AllInCall
  <2> QED BY <1>8, <2>1, ActingStep DEF AllInCall, BuildAllInCall
<1>9. CASE RevealAllIn
  <2>1. state.phase.actor \in Players /\ Moves(state.phase.actor, state, state')
    BY <1>1, <1>9, AllInRevealMoves DEF RevealAllIn
  <2> QED BY <1>9, <2>1, ActingStep DEF RevealAllIn, BuildAllInReveal
<1> QED BY <1>2, <1>3, <1>4, <1>5, <1>6, <1>7, <1>8, <1>9 DEF LiveStep

(***************************************************************************)
(* Settlements.                                                            *)
(***************************************************************************)
\* While the covenant is live its value is what the wallets paid in.
LEMMA ValueIsPaidIn ==
    ASSUME IInv, stage = "live"
    PROVE  value \in Nat /\ value = contributed[1] + contributed[2]
<1> USE DEF IInv
<1>1. state \in States /\ value \in Nat
  BY DEF TypeOK
<1>2. CASE state.phase = AwaitPlayer1FundingAndReveal
  BY <1>1, <1>2 DEF Books, DepositOnly
<1>3. CASE state.phase # AwaitPlayer1FundingAndReveal
  BY <1>1, <1>3, LiveValueType, AmountsAssumption DEF Books, Joint, LiveValue, Players
<1> QED BY <1>1, <1>2, <1>3

\* A settlement that distributes exactly the covenant value, fairly, keeps IInv.
LEMMA SettleIInv ==
    ASSUME IInv, NEW kind \in {"concession", "timeout", "showdown"}, NEW who \in 0..2,
           NEW payout \in [Players -> Nat], payout[1] + payout[2] = value,
           Settle(kind, who, payout), SettlementIsFair'
    PROVE  IInv'
<1> USE DEF IInv, Settle
<1>1. received' = payout
  BY DEF Books, NoWagers, Players
<1>2. TypeOK'
  BY <1>1 DEF TypeOK
<1>3. WithinCap(state)'
  BY DEF Books, WithinCap
<1>4. received'[1] + received'[2] = contributed'[1] + contributed'[2]
  BY <1>1, ValueIsPaidIn
<1> QED BY <1>2, <1>3, <1>4 DEF Books

LEMMA ConcessionIInv == IInv /\ Concession => IInv'
<1> SUFFICES ASSUME IInv, Concession PROVE IInv'
  OBVIOUS
<1> DEFINE l == state.phase.actor
           w == Other(l)
           payout == ConcessionPayout(state, value)
<1>1. state \in States /\ stage = "live" /\ Settle("concession", w, payout)
      /\ state.phase.kind \in ConcessionKinds /\ value >= Bond /\ value \in Nat
  BY DEF IInv, TypeOK, Concession, CanConcede, Settle
<1>2. l \in Players /\ w \in Players /\ Other(w) = l /\ w # l
  BY <1>1, PhaseShape, OtherPlayer DEF States, ConcessionKinds, ActingKinds
<1>3. state.phase # AwaitPlayer1FundingAndReveal
  BY <1>1, Kinds DEF ConcessionKinds
<1>4. Joint
  BY <1>1, <1>3 DEF IInv, Books
<1>5. payout \in [Players -> Nat] /\ payout[l] = Bond /\ payout[w] = value - Bond
  BY <1>1, <1>2, AmountsAssumption DEF ConcessionPayout
<1>6. payout[1] + payout[2] = value
  BY <1>1, <1>2, <1>5, AmountsAssumption DEF Players
<1>7. received' = payout
  BY <1>1, <1>5 DEF IInv, Books, Settle, NoWagers, Players
<1>8. value = 2 * (Stake + Bond) + state.wagers[w] + state.wagers[l]
  <2>1. state.wagers[1] \in Nat /\ state.wagers[2] \in Nat
    BY <1>1, LiveValueType
  <2> QED BY <1>2, <1>4, <2>1, AmountsAssumption DEF Joint, LiveValue, Players
<1>9. SettlementIsFair'
  <2>1. /\ state.wagers[l] \in Nat /\ state.wagers[w] \in Nat
        /\ contributed[l] = Stake + Bond + state.wagers[l]
        /\ contributed[w] = Stake + Bond + state.wagers[w]
    BY <1>1, <1>2, <1>4 DEF Joint, States
  <2>2. value - Bond - contributed[w] = Stake + state.wagers[l]
        /\ Bond - contributed[l] = -(Stake + state.wagers[l])
    BY <1>1, <1>8, <2>1, AmountsAssumption
  <2>3. /\ settlement'.kind = "concession" /\ settlement'.winner = w
        /\ contributed' = contributed /\ state' = state
    BY <1>1 DEF Settle
  <2> HIDE DEF l, w, payout
  <2>4. /\ received'[w] - contributed'[w] = Stake + state'.wagers[l]
        /\ received'[l] - contributed'[l] = -(Stake + state'.wagers[l])
    BY <1>5, <1>7, <2>2, <2>3
  <2> QED BY <1>2, <2>3, <2>4 DEF SettlementIsFair, Net
<1>10. w \in 0..2
  BY <1>2 DEF Players
<1> HIDE DEF payout, w, l
<1> QED BY <1>1, <1>5, <1>6, <1>9, <1>10, SettleIInv

LEMMA TimeoutIInv == IInv /\ Timeout => IInv'
<1> SUFFICES ASSUME IInv, Timeout PROVE IInv'
  OBVIOUS
<1> DEFINE l == RequiredActor(state.phase)
           w == Other(l)
           payout == TimeoutPayout(state, value)
<1>1. state \in States /\ stage = "live" /\ Settle("timeout", w, payout) /\ l # 0
  BY DEF IInv, TypeOK, Timeout, CanTimeout, Settle
<1>2. l \in Players
  BY <1>1, PhaseShape, Kinds DEF States, RequiredActor, ActingKinds, Players
<1>3. w \in Players /\ Other(w) = l /\ w # l
  BY <1>2, OtherPlayer
<1>4. value \in Nat /\ value = contributed[w] + contributed[l]
      /\ contributed[w] \in Nat /\ contributed[l] \in Nat
  BY <1>1, <1>2, <1>3, ValueIsPaidIn DEF Players, IInv, TypeOK
<1>5. payout \in [Players -> Nat] /\ payout[l] = 0 /\ payout[w] = value
  BY <1>2, <1>3, <1>4 DEF TimeoutPayout
<1>6. payout[1] + payout[2] = value
  BY <1>2, <1>3, <1>4, <1>5 DEF Players
<1>7. received' = payout
  BY <1>1, <1>5 DEF IInv, Books, Settle, NoWagers, Players
<1>8. SettlementIsFair'
  <2>1. /\ settlement'.kind = "timeout" /\ settlement'.winner = w
        /\ contributed' = contributed /\ state' = state
    BY <1>1 DEF Settle
  <2> HIDE DEF l, w, payout
  <2>2. /\ received'[w] - contributed'[w] = contributed'[l]
        /\ received'[l] - contributed'[l] = -contributed'[l]
    BY <1>4, <1>5, <1>7, <2>1
  <2> QED BY <1>3, <2>1, <2>2 DEF SettlementIsFair, Net
<1>9. w \in 0..2
  BY <1>3 DEF Players
<1> HIDE DEF payout, w, l
<1> QED BY <1>1, <1>5, <1>6, <1>8, <1>9, SettleIInv

LEMMA ShowdownIInv == IInv /\ Showdown => IInv'
<1> SUFFICES ASSUME IInv, Showdown PROVE IInv'
  OBVIOUS
<1> DEFINE payout == ShowdownPayout(state, winner)
           bet == state.wagers[1]
<1>1. /\ state \in States /\ stage = "live" /\ winner \in 0..2
      /\ Settle("showdown", winner, payout)
      /\ state.phase = ShowdownEvaluation /\ state.wagers[1] = state.wagers[2]
  BY DEF IInv, TypeOK, Showdown, CanShowdown, StartEqual, EqualWagers, Settle
<1>2. Joint
  BY <1>1, Kinds DEF IInv, Books
<1>3. bet \in Nat /\ LiveValue(state) = 2 * (Stake + Bond + bet) /\ value = LiveValue(state)
  BY <1>1, <1>2, LiveValueType, AmountsAssumption DEF LiveValue, Joint
<1>4. \A p \in Players : contributed[p] = Stake + Bond + bet /\ state.wagers[p] = bet
  BY <1>1, <1>2 DEF Joint, Players
<1>5. \A p \in Players : payout[p] =
          IF winner = 0 THEN Stake + Bond + bet
          ELSE IF p = winner THEN 2 * (Stake + Bond + bet) - Bond ELSE Bond
  BY <1>3, AmountsAssumption DEF ShowdownPayout
<1>6. payout \in [Players -> Nat]
  <2>1. \A p \in Players : payout[p] \in Nat
    BY <1>3, <1>5, AmountsAssumption
  <2> QED BY <2>1 DEF ShowdownPayout
<1>7. payout[1] + payout[2] = value
  BY <1>1, <1>3, <1>5, AmountsAssumption DEF Players
<1>8. received' = payout
  BY <1>1, <1>6 DEF IInv, Books, Settle, NoWagers, Players
<1>9. SettlementIsFair'
  <2>1. /\ settlement'.kind = "showdown" /\ settlement'.winner = winner
        /\ contributed' = contributed /\ state' = state
    BY <1>1 DEF Settle
  <2>2. \A p \in Players : received'[p] - contributed'[p] = payout[p] - (Stake + Bond + bet)
    BY <1>4, <1>8, <2>1
  <2> HIDE DEF payout
  <2>3. CASE winner = 0
    <3>1. received'[1] - contributed'[1] = 0 /\ received'[2] - contributed'[2] = 0
      BY <1>3, <1>5, <2>2, <2>3, AmountsAssumption DEF Players
    <3> QED BY <2>1, <2>3, <3>1 DEF SettlementIsFair, Net
  <2>4. CASE winner # 0
    <3>1. winner \in Players
      BY <1>1, <2>4 DEF Players
    <3>2. Other(winner) \in Players /\ Other(winner) # winner
      BY <3>1, OtherPlayer
    <3>3. /\ received'[winner] - contributed'[winner] = Stake + bet
          /\ received'[Other(winner)] - contributed'[Other(winner)] = -(Stake + bet)
      BY <1>3, <1>5, <2>2, <2>4, <3>1, <3>2, AmountsAssumption
    <3>4. state.wagers[Other(winner)] = bet
      BY <1>4, <3>2
    <3> HIDE DEF bet
    <3> QED BY <2>1, <2>4, <3>3, <3>4 DEF SettlementIsFair, Net
  <2> QED BY <2>3, <2>4
<1> HIDE DEF payout
<1> QED BY <1>1, <1>6, <1>7, <1>9, SettleIInv

(***************************************************************************)
(* The invariant, and what follows from it.                                *)
(***************************************************************************)
LEMMA NextIInv == IInv /\ [Next]_vars => IInv'
<1> SUFFICES ASSUME IInv, [Next]_vars PROVE IInv'
  OBVIOUS
<1>1. CASE InitialDeposit
  BY <1>1, DepositIInv
<1>2. CASE LiveStep
  BY <1>2, LiveIInv
<1>3. CASE Concession
  BY <1>3, ConcessionIInv
<1>4. CASE Timeout
  BY <1>4, TimeoutIInv
<1>5. CASE Showdown
  BY <1>5, ShowdownIInv
<1>6. CASE Tick
  <2>1. TypeOK'
    BY <1>6, ClockAssumption DEF IInv, TypeOK, Tick
  <2>2. Books'
    BY <1>6 DEF IInv, Books, WithinCap, DepositOnly, Joint, SettlementIsFair, Net, Tick
  <2> QED BY <2>1, <2>2 DEF IInv
<1>7. CASE UNCHANGED vars
  BY <1>7 DEF IInv, TypeOK, Books, WithinCap, DepositOnly, Joint, SettlementIsFair, Net, vars
<1> QED BY <1>1, <1>2, <1>3, <1>4, <1>5, <1>6, <1>7 DEF Next, TerminalStep, Finished

\* The accounting invariant holds in every reachable state.
THEOREM BooksBalance == Spec => []IInv
  BY InitIInv, NextIInv, PTL DEF Spec

\* Every variable keeps its type: in particular no value computed by a builder is
\* negative, and the winner of a settlement is a player or nobody.
THEOREM TypeCorrect == Spec => []TypeOK
<1>1. IInv => TypeOK
  BY DEF IInv
<1> QED BY <1>1, BooksBalance, PTL

LEMMA MoneyIsConserved == IInv => FundsConserved
<1> SUFFICES ASSUME IInv PROVE FundsConserved
  OBVIOUS
<1>1. /\ contributed[1] \in Nat /\ contributed[2] \in Nat /\ value \in Nat
      /\ received[1] \in Nat /\ received[2] \in Nat
  BY DEF IInv, TypeOK, Players
<1>2. CASE stage = "unfunded"
  BY <1>1, <1>2 DEF IInv, Books, FundsConserved, NoWagers, Players
<1>3. CASE stage = "live"
  BY <1>1, <1>3, ValueIsPaidIn DEF IInv, Books, FundsConserved, NoWagers, Players
<1>4. CASE stage = "settled"
  BY <1>1, <1>4 DEF IInv, Books, FundsConserved
<1> QED BY <1>2, <1>3, <1>4 DEF IInv, TypeOK

\* For all amounts and in every state: locked plus paid out equals paid in, and no
\* wallet ever funds a part of the opponent's wager.
THEOREM LedgersBalance == Spec => []LedgerBalances
<1>1. IInv => FundsConserved
  BY MoneyIsConserved
<1>2. IInv => EachFundsItsOwnWagers
  BY DEF IInv, Books, Joint, EachFundsItsOwnWagers, BothFunded
<1>3. IInv => LedgerBalances
  BY <1>1, <1>2 DEF LedgerBalances
<1> QED BY <1>3, BooksBalance, PTL

\* Every settlement distributes the pot by the rules of the game.
THEOREM SettlementsAreFair == Spec => []SettlementIsFair
<1>1. IInv => SettlementIsFair
  BY DEF IInv, Books, SettlementIsFair
<1> QED BY <1>1, BooksBalance, PTL

\* No covenant output leaves the range of amounts the chain accepts.
THEOREM ValuesFit == Spec => []ValueWithinMoney
<1>1. IInv => ValueWithinMoney
  <2> SUFFICES ASSUME IInv PROVE ValueWithinMoney
    OBVIOUS
  <2>1. state \in States /\ value \in Nat
    BY DEF IInv, TypeOK
  <2>2. value = 0 \/ value = DepositValue \/ value = LiveValue(state)
    BY DEF IInv, TypeOK, Books, DepositOnly, Joint
  <2>3. state.wagers[1] <= MaxWager /\ state.wagers[2] <= MaxWager
    BY DEF IInv, Books, WithinCap, Players
  <2> QED BY <2>1, <2>2, <2>3, LiveValueType, AmountsAssumption
          DEF ValueWithinMoney, DepositValue, LiveValue
<1> QED BY <1>1, BooksBalance, PTL

(***************************************************************************)
(* Only live moves change the state packet.                                *)
(***************************************************************************)
LEMMA LiveStepBuilds == LiveStep => BuildLive(state, state') /\ UNCHANGED clock
  BY DEF LiveStep, BuildLive, Live, Player1Funding, Player2Opening, Check, Call, RaiseTo,
         RevealBoard, RevealShowdown, AllInCall, RevealAllIn

LEMMA StateChanges == [Next]_vars => LiveStep \/ UNCHANGED state
  BY DEF Next, vars, InitialDeposit, TerminalStep, Concession, Timeout, Showdown, Settle,
         Tick, Finished

(***************************************************************************)
(* Time.                                                                   *)
(***************************************************************************)
\* Whichever builder made it, a move advances the deadline by one interval.
LEMMA DeadlineAdvance ==
    ASSUME NEW s, NEW t, BuildLive(s, t)
    PROVE  t.deadline = s.deadline + Interval
<1>1. CASE BuildPlayer1Funding(s, t) \/ BuildPlayer2Opening(s, t)
  BY <1>1 DEF Successor, BuildPlayer1Funding, BuildPlayer2Opening, OpeningSuccessor
<1>2. CASE BuildCheck(s, t) \/ BuildCall(s, t)
  BY <1>2 DEF Successor, BuildCheck, BuildCall, Matched
<1>3. CASE BuildRaiseTo(s, t)
  BY <1>3 DEF Successor, BuildRaiseTo, Raised
<1>4. CASE BuildBoardReveal(s, t) \/ BuildShowdownReveal(s, t)
  BY <1>4 DEF Successor, BuildBoardReveal, BuildShowdownReveal
<1>5. CASE BuildAllInCall(s, t) \/ BuildAllInReveal(s, t)
  BY <1>5 DEF Successor, BuildAllInCall, BuildAllInReveal
<1> QED BY <1>1, <1>2, <1>3, <1>4, <1>5 DEF BuildLive

(***************************************************************************)
(* Turns.                                                                  *)
(***************************************************************************)
\* Whose move each phase is.
LEMMA Actors ==
    /\ RequiredActor(AwaitPlayer1FundingAndReveal) = 1
    /\ RequiredActor(AwaitPlayer2RevealAndOpening) = 2
    /\ \A p, st : RequiredActor(Betting(p, st)) = p /\ RequiredActor(AllIn(p, st)) = p
    /\ \A p, st : RequiredActor(AllInReveal(p, st)) = p
    /\ \A p, st, pass : RequiredActor(BoardReveal(p, st, pass)) = p
    /\ \A p, pass : RequiredActor(ShowdownReveal(p, pass)) = p
  BY DEF RequiredActor, Ph, AwaitPlayer1FundingAndReveal, AwaitPlayer2RevealAndOpening,
         Betting, AllIn, BoardReveal, ShowdownReveal, AllInReveal

LEMMA ActingActor == \A ph : ph.kind \in ActingKinds => RequiredActor(ph) = ph.actor
  BY DEF RequiredActor, ActingKinds

\* From s to t the turn passes to the opponent, or the moves are over.
PassesTurn(s, t) ==
    \/ RequiredActor(t.phase) = Other(RequiredActor(s.phase))
    \/ t.phase = ShowdownEvaluation

LEMMA TurnPasses ==
    ASSUME NEW s, NEW t, BuildLive(s, t)
    PROVE  PassesTurn(s, t)
<1> USE DEF PassesTurn
<1>1. CASE BuildPlayer1Funding(s, t)
  <2>1. t.phase = AwaitPlayer2RevealAndOpening /\ s.phase = AwaitPlayer1FundingAndReveal
    BY <1>1 DEF BuildPlayer1Funding, Successor, InitialState
  <2> QED BY <2>1, Actors DEF Other
<1>2. CASE BuildPlayer2Opening(s, t)
  <2>1. s.phase = AwaitPlayer2RevealAndOpening
    BY <1>2 DEF BuildPlayer2Opening
  <2>2. t.phase = AllIn(1, PreFlop) \/ t.phase = Betting(1, PreFlop)
    BY <1>2 DEF BuildPlayer2Opening, OpeningSuccessor, Successor
  <2> QED BY <2>1, <2>2, Actors DEF Other
<1> DEFINE p == s.phase.actor
           street == s.phase.street
<1>3. CASE BuildCheck(s, t) \/ BuildCall(s, t)
  <2>1. s.phase.kind = "Betting"
    BY <1>3 DEF BuildCheck, BuildCall, BettingHistory
  <2>2. t.phase = Betting(Other(p), street) \/ t.phase = Closed(s)
    BY <1>3 DEF BuildCheck, BuildCall, Matched, Successor
  <2>3. Closed(s) = ShowdownReveal(Other(p), 1) \/ Closed(s) = BoardReveal(Other(p), street + 1, 1)
    BY DEF Closed
  <2> QED BY <2>1, <2>2, <2>3, Actors, ActingActor DEF ActingKinds
<1>4. CASE BuildRaiseTo(s, t)
  <2>1. s.phase.kind = "Betting"
    BY <1>4 DEF BuildRaiseTo, BettingHistory
  <2>2. t.phase = AllIn(Other(p), street) \/ t.phase = Betting(Other(p), street)
    BY <1>4 DEF BuildRaiseTo, Raised, Successor
  <2> QED BY <2>1, <2>2, Actors, ActingActor DEF ActingKinds
<1>5. CASE BuildBoardReveal(s, t)
  <2>1. s.phase.kind = "BoardReveal"
    BY <1>5 DEF BuildBoardReveal
  <2>2. t.phase = BoardReveal(Other(p), street, 2) \/ t.phase = Betting(Other(p), street)
    BY <1>5 DEF BuildBoardReveal, Successor
  <2> QED BY <2>1, <2>2, Actors, ActingActor DEF ActingKinds
<1>6. CASE BuildShowdownReveal(s, t)
  <2>1. s.phase.kind = "ShowdownReveal"
    BY <1>6 DEF BuildShowdownReveal
  <2>2. t.phase = ShowdownReveal(Other(p), 2) \/ t.phase = ShowdownEvaluation
    BY <1>6 DEF BuildShowdownReveal, Successor
  <2> QED BY <2>1, <2>2, Actors, ActingActor DEF ActingKinds
<1>7. CASE BuildAllInCall(s, t)
  <2>1. s.phase.kind = "AllIn"
    BY <1>7 DEF BuildAllInCall
  <2>2. t.phase = ShowdownReveal(Other(p), 2) \/ t.phase = AllInReveal(Other(p), street + 1)
    BY <1>7 DEF BuildAllInCall, Successor
  <2> QED BY <2>1, <2>2, Actors, ActingActor DEF ActingKinds
<1>8. CASE BuildAllInReveal(s, t)
  BY <1>8 DEF BuildAllInReveal, Successor
<1> QED BY <1>1, <1>2, <1>3, <1>4, <1>5, <1>6, <1>7, <1>8 DEF BuildLive

\* No player moves twice in a row, whatever the amounts and the history.
THEOREM TurnsPass == Spec => TurnsAlternate
<1>1. [Next]_vars =>
         [state' # state =>
              \/ RequiredActor(state'.phase) = Other(RequiredActor(state.phase))
              \/ state'.phase = ShowdownEvaluation]_vars
  BY LiveStepBuilds, StateChanges, TurnPasses DEF PassesTurn
<1> QED BY <1>1, PTL DEF Spec, TurnsAlternate

(***************************************************************************)
(* Shares.                                                                 *)
(***************************************************************************)
Holes == OpponentHoleSlots(1) \cup OpponentHoleSlots(2)

\* The slots of all streets up to the last one opened.
Board(last) == UNION {StreetSlots(st) : st \in Flop..last}

LEMMA BoardStarts == Board(PreFlop) = {}
  BY DEF Board, Flop, PreFlop

LEMMA BoardGrows ==
    ASSUME NEW street \in Flop..River
    PROVE  Board(street) = Board(street - 1) \cup BoardSlots(1, street) \cup BoardSlots(2, street)
<1>1. Flop..street = (Flop..(street - 1)) \cup {street}
  BY DEF Flop, River
<1> QED BY <1>1 DEF Board, StreetSlots

\* The slots of one street for both players, whichever of them is named first.
LEMMA BothPlayers ==
    ASSUME NEW p \in Players, NEW street
    PROVE  BoardSlots(p, street) \cup BoardSlots(Other(p), street) = StreetSlots(street)
<1>1. (p = 1 /\ Other(p) = 2) \/ (p = 2 /\ Other(p) = 1)
  BY DEF Players, Other
<1> QED BY <1>1 DEF StreetSlots

\* What both players owe from a street on, and everything up to the street before,
\* is the whole board and both players' own hole cards.
LEMMA RemainingStarts ==
    ASSUME NEW p \in Players
    PROVE  RemainingSlots(p, River + 1) = OwnHoleSlots(p)
<1>1. (River + 1)..River = {}
  BY DEF River
<1> QED BY <1>1 DEF RemainingSlots

LEMMA RemainingCompletes ==
    ASSUME NEW p \in Players, NEW street \in Flop..River
    PROVE  Board(street - 1) \cup RemainingSlots(p, street) \cup RemainingSlots(Other(p), street)
              = Board(River) \cup OwnHoleSlots(1) \cup OwnHoleSlots(2)
<1>1. Flop..River = (Flop..(street - 1)) \cup (street..River)
  BY DEF Flop, River
<1>2. Board(River) = Board(street - 1) \cup UNION {StreetSlots(st) : st \in street..River}
  BY <1>1 DEF Board
<1>3. OwnHoleSlots(p) \cup OwnHoleSlots(Other(p)) = OwnHoleSlots(1) \cup OwnHoleSlots(2)
  <2>1. (p = 1 /\ Other(p) = 2) \/ (p = 2 /\ Other(p) = 1)
    BY DEF Players, Other
  <2> QED BY <2>1
<1> DEFINE mine == UNION {BoardSlots(p, st) : st \in street..River}
           theirs == UNION {BoardSlots(Other(p), st) : st \in street..River}
           rest == UNION {StreetSlots(st) : st \in street..River}
<1>4. mine \cup theirs = rest
  <2>1. ASSUME NEW slot, slot \in mine \cup theirs PROVE slot \in rest
    <3>1. PICK st \in street..River : slot \in BoardSlots(p, st) \/ slot \in BoardSlots(Other(p), st)
      BY <2>1
    <3>2. slot \in StreetSlots(st)
      BY <3>1, BothPlayers
    <3> QED BY <3>2
  <2>2. ASSUME NEW slot, slot \in rest PROVE slot \in mine \cup theirs
    <3>1. PICK st \in street..River : slot \in StreetSlots(st)
      BY <2>2
    <3>2. slot \in BoardSlots(p, st) \/ slot \in BoardSlots(Other(p), st)
      BY <3>1, BothPlayers
    <3> QED BY <3>2
  <2> QED BY <2>1, <2>2
<1>5. /\ RemainingSlots(p, street) = OwnHoleSlots(p) \cup mine
      /\ RemainingSlots(Other(p), street) = OwnHoleSlots(Other(p)) \cup theirs
  BY DEF RemainingSlots
<1> HIDE DEF mine, theirs, rest
<1> QED BY <1>2, <1>3, <1>4, <1>5 DEF rest

\* Hole cards, board and own hole cards are the eighteen slots, and disjoint.
LEMMA BoardSlotsOf ==
    /\ BoardSlots(1, Flop) = {4, 5, 6} /\ BoardSlots(2, Flop) = {7, 8, 9}
    /\ BoardSlots(1, Turn) = {10} /\ BoardSlots(2, Turn) = {11}
    /\ BoardSlots(1, River) = {12} /\ BoardSlots(2, River) = {13}
  BY DEF BoardSlots, Flop, Turn, River

LEMMA WholeBoard == Board(River) = 4..13
<1>1. Flop..River = {Flop, Turn, River}
  BY DEF Flop, Turn, River
<1>2. Board(River) = StreetSlots(Flop) \cup StreetSlots(Turn) \cup StreetSlots(River)
  BY <1>1 DEF Board
<1> QED BY <1>2, BoardSlotsOf DEF StreetSlots

LEMMA AllSlots ==
    /\ Holes = 0..3 /\ OwnHoleSlots(1) = {14, 15} /\ OwnHoleSlots(2) = {16, 17}
    /\ Holes \cup Board(River) \cup OwnHoleSlots(1) \cup OwnHoleSlots(2) = Slots
<1>1. Holes = 0..3 /\ OwnHoleSlots(1) = {14, 15} /\ OwnHoleSlots(2) = {16, 17}
  BY DEF Holes, OpponentHoleSlots, OwnHoleSlots
<1> QED BY <1>1, WholeBoard DEF Slots

LEMMA OwnHolesApart ==
    ASSUME NEW p \in Players, NEW street \in PreFlop..River
    PROVE  (Holes \cup Board(street)) \cap OwnHoleSlots(p) = {}
<1>1. Board(street) \subseteq Board(River)
  BY DEF Board, PreFlop, Flop, River
<1> QED BY <1>1, WholeBoard, AllSlots DEF Players

\* What is published in each phase, phase by phase.
LEMMA Published ==
    /\ PublishedAt(AwaitPlayer1FundingAndReveal) = {}
    /\ PublishedAt(AwaitPlayer2RevealAndOpening) = OpponentHoleSlots(1)
    /\ PublishedAt(ShowdownEvaluation) = Slots
    /\ \A p, st : PublishedAt(Betting(p, st)) = Holes \cup Board(st)
    /\ \A p, st : PublishedAt(AllIn(p, st)) = Holes \cup Board(st)
    /\ \A p, st : PublishedAt(BoardReveal(p, st, 1)) = Holes \cup Board(st - 1)
    /\ \A p, st : PublishedAt(BoardReveal(p, st, 2))
                     = Holes \cup Board(st - 1) \cup BoardSlots(Other(p), st)
    /\ \A p : PublishedAt(ShowdownReveal(p, 1)) = Holes \cup Board(River)
    /\ \A p : PublishedAt(ShowdownReveal(p, 2))
                 = Holes \cup Board(River) \cup OwnHoleSlots(Other(p))
    /\ \A p, st : PublishedAt(AllInReveal(p, st))
                     = Holes \cup Board(st - 1) \cup RemainingSlots(Other(p), st)
<1> USE DEF PublishedAt, Ph, Holes, Board
<1>1. /\ PublishedAt(AwaitPlayer1FundingAndReveal) = {}
      /\ PublishedAt(AwaitPlayer2RevealAndOpening) = OpponentHoleSlots(1)
      /\ PublishedAt(ShowdownEvaluation) = Slots
  BY DEF AwaitPlayer1FundingAndReveal, AwaitPlayer2RevealAndOpening, ShowdownEvaluation
<1>2. \A p, st : PublishedAt(Betting(p, st)) = Holes \cup Board(st)
  BY DEF Betting
<1>3. \A p, st : PublishedAt(AllIn(p, st)) = Holes \cup Board(st)
  BY DEF AllIn
<1>4. \A p, st : PublishedAt(BoardReveal(p, st, 1)) = Holes \cup Board(st - 1)
  BY DEF BoardReveal
<1>5. \A p, st : PublishedAt(BoardReveal(p, st, 2))
                    = Holes \cup Board(st - 1) \cup BoardSlots(Other(p), st)
  BY DEF BoardReveal
<1>6. \A p : PublishedAt(ShowdownReveal(p, 1)) = Holes \cup Board(River)
  BY DEF ShowdownReveal
<1>7. \A p : PublishedAt(ShowdownReveal(p, 2)) = Holes \cup Board(River) \cup OwnHoleSlots(Other(p))
  BY DEF ShowdownReveal
<1>8. \A p, st : PublishedAt(AllInReveal(p, st))
                    = Holes \cup Board(st - 1) \cup RemainingSlots(Other(p), st)
  BY DEF AllInReveal
<1> QED BY <1>1, <1>2, <1>3, <1>4, <1>5, <1>6, <1>7, <1>8

\* A phase is made of its kind and the fields that kind uses.
LEMMA PhaseForms ==
    ASSUME NEW ph \in Phases
    PROVE  /\ ph.kind = "Betting" => ph = Betting(ph.actor, ph.street)
           /\ ph.kind = "AllIn" => ph = AllIn(ph.actor, ph.street)
           /\ ph.kind = "BoardReveal" => ph = BoardReveal(ph.actor, ph.street, ph.pass)
           /\ ph.kind = "ShowdownReveal" => ph = ShowdownReveal(ph.actor, ph.pass)
           /\ ph.kind = "AllInReveal" => ph = AllInReveal(ph.actor, ph.street)
  BY DEF Phases, Ph, AwaitPlayer1FundingAndReveal, AwaitPlayer2RevealAndOpening,
         ShowdownEvaluation, Betting, AllIn, BoardReveal, ShowdownReveal, AllInReveal

(***************************************************************************)
(* The invariant: the published slots are those of the phase, and hole     *)
(* cards are due only once the wagers are level and no bet is open.  It is *)
(* a statement about one state packet, and every builder preserves it.     *)
(***************************************************************************)
RevealKinds == {"ShowdownReveal", "AllInReveal", "ShowdownEvaluation"}

Dealt(s) ==
    /\ s.reveals = PublishedAt(s.phase)
    /\ s.phase.kind \in RevealKinds => StartEqual(s)

LEMMA InitialDealt == Dealt(InitialState)
  BY Published, Kinds DEF Dealt, InitialState, RevealKinds

LEMMA FundingDealt ==
    ASSUME NEW s, NEW t, BuildPlayer1Funding(s, t)
    PROVE  Dealt(t)
<1>1. t.phase = AwaitPlayer2RevealAndOpening /\ t.reveals = OpponentHoleSlots(1)
  BY DEF BuildPlayer1Funding, Successor, InitialState
<1> QED BY <1>1, Published, Kinds DEF Dealt, RevealKinds

LEMMA OpeningDealt ==
    ASSUME NEW s, NEW t, Dealt(s), BuildPlayer2Opening(s, t)
    PROVE  Dealt(t)
<1>1. s.reveals = OpponentHoleSlots(1)
  BY Published DEF BuildPlayer2Opening, Dealt
<1>2. /\ t.phase = AllIn(1, PreFlop) \/ t.phase = Betting(1, PreFlop)
      /\ t.reveals = s.reveals \cup OpponentHoleSlots(2)
  BY DEF BuildPlayer2Opening, OpeningSuccessor, Successor
<1>3. t.reveals = Holes \cup Board(PreFlop)
  BY <1>1, <1>2, BoardStarts DEF Holes
<1> QED BY <1>2, <1>3, Published, Kinds DEF Dealt, RevealKinds

LEMMA MatchedDealt ==
    ASSUME NEW s \in States, Dealt(s), BettingHistory(s)
    PROVE  Dealt(Matched(s))
<1> DEFINE p == s.phase.actor
           street == s.phase.street
           wagers == [s.wagers EXCEPT ![p] = Theirs(s)]
           t == Matched(s)
<1>1. p \in Players /\ Other(p) \in Players /\ Other(p) # p /\ street \in PreFlop..River
  BY BettingShape DEF BettingHistory
<1>2. s.reveals = Holes \cup Board(street)
  BY Published, PhaseForms DEF BettingHistory, Dealt, States
<1>3. t.reveals = s.reveals /\ t.wagers = wagers
  BY DEF Matched, Successor
<1>4. CASE s.last = "Start"
  <2>1. t.phase = Betting(Other(p), street)
    BY <1>4 DEF Matched, Successor
  <2> QED BY <1>2, <1>3, <2>1, Published, Kinds DEF Dealt, RevealKinds
<1>5. CASE s.last # "Start"
  <2>1. t.phase = Closed(s) /\ t.last = "Start"
    BY <1>5 DEF Matched, Successor
  <2>2. wagers[p] = Theirs(s) /\ wagers[Other(p)] = Theirs(s)
    BY <1>1 DEF States, Theirs
  <2>3. wagers[1] = wagers[2]
    BY <1>1, <2>2 DEF Players
  <2>4. StartEqual(t)
    BY <1>3, <2>1, <2>3 DEF StartEqual, EqualWagers
  <2>5. t.reveals = PublishedAt(t.phase)
    <3>1. CASE street = River
      BY <1>2, <1>3, <2>1, <3>1, Published DEF Closed
    <3>2. CASE street # River
      <4>1. (street + 1) - 1 = street
        BY <1>1 DEF PreFlop, River
      <4>2. t.phase = BoardReveal(Other(p), street + 1, 1)
        BY <2>1, <3>2 DEF Closed
      <4>3. PublishedAt(t.phase) = Holes \cup Board((street + 1) - 1)
        BY <4>2, Published
      <4> QED BY <1>2, <1>3, <4>1, <4>3
    <3> QED BY <3>1, <3>2
  <2> QED BY <2>4, <2>5 DEF Dealt
<1> QED BY <1>4, <1>5

LEMMA RaisedDealt ==
    ASSUME NEW s \in States, Dealt(s), BettingHistory(s), NEW target
    PROVE  Dealt(Raised(s, target))
<1> DEFINE t == Raised(s, target)
           opponent == Other(s.phase.actor)
<1>1. s.reveals = Holes \cup Board(s.phase.street)
  BY Published, PhaseForms DEF BettingHistory, Dealt, States
<1>2. /\ t.reveals = s.reveals
      /\ t.phase = AllIn(opponent, s.phase.street) \/ t.phase = Betting(opponent, s.phase.street)
  BY DEF Raised, Successor
<1> QED BY <1>1, <1>2, Published, Kinds DEF Dealt, RevealKinds

LEMMA BoardRevealDealt ==
    ASSUME NEW s \in States, NEW t, Dealt(s), BuildBoardReveal(s, t)
    PROVE  Dealt(t)
<1> DEFINE p == s.phase.actor
           street == s.phase.street
<1>1. /\ p \in Players /\ Other(p) \in Players /\ Other(Other(p)) = p
      /\ street \in Flop..River /\ s.phase.pass \in 1..2
      /\ s.phase = BoardReveal(p, street, s.phase.pass)
  BY PhaseShape, PhaseForms, OtherPlayer DEF States, BuildBoardReveal, ActingKinds
<1>2. t.reveals = s.reveals \cup BoardSlots(p, street)
  BY DEF BuildBoardReveal, Successor
<1>3. CASE s.phase.pass = 1
  <2>1. t.phase = BoardReveal(Other(p), street, 2)
    BY <1>3 DEF BuildBoardReveal, Successor
  <2>2. s.reveals = Holes \cup Board(street - 1)
    BY <1>1, <1>3, Published DEF Dealt
  <2>3. PublishedAt(t.phase) = Holes \cup Board(street - 1) \cup BoardSlots(p, street)
    BY <1>1, <2>1, Published
  <2> QED BY <1>2, <2>1, <2>2, <2>3, Kinds DEF Dealt, RevealKinds
<1>4. CASE s.phase.pass = 2
  <2>1. t.phase = Betting(Other(p), street)
    BY <1>4 DEF BuildBoardReveal, Successor
  <2>2. s.reveals = Holes \cup Board(street - 1) \cup BoardSlots(Other(p), street)
    BY <1>1, <1>4, Published DEF Dealt
  <2>3. Board(street) = Board(street - 1) \cup StreetSlots(street)
    BY <1>1, BoardGrows DEF StreetSlots
  <2>4. BoardSlots(p, street) \cup BoardSlots(Other(p), street) = StreetSlots(street)
    BY <1>1, BothPlayers
  <2>5. t.reveals = Holes \cup Board(street)
    BY <1>2, <2>2, <2>3, <2>4
  <2> QED BY <2>1, <2>5, Published, Kinds DEF Dealt, RevealKinds
<1> QED BY <1>1, <1>3, <1>4

LEMMA ShowdownRevealDealt ==
    ASSUME NEW s \in States, NEW t, Dealt(s), BuildShowdownReveal(s, t)
    PROVE  Dealt(t)
<1> DEFINE p == s.phase.actor
<1>1. /\ p \in Players /\ Other(p) \in Players /\ Other(Other(p)) = p
      /\ s.phase.pass \in 1..2 /\ s.phase = ShowdownReveal(p, s.phase.pass)
  BY PhaseShape, PhaseForms, OtherPlayer DEF States, BuildShowdownReveal, ActingKinds
<1>2. t.reveals = s.reveals \cup OwnHoleSlots(p) /\ StartEqual(t)
  BY DEF BuildShowdownReveal, Successor, StartEqual, EqualWagers
<1>3. CASE s.phase.pass = 1
  <2>1. t.phase = ShowdownReveal(Other(p), 2)
    BY <1>3 DEF BuildShowdownReveal, Successor
  <2>2. s.reveals = Holes \cup Board(River)
    BY <1>1, <1>3, Published DEF Dealt
  <2>3. PublishedAt(t.phase) = Holes \cup Board(River) \cup OwnHoleSlots(p)
    BY <1>1, <2>1, Published
  <2> QED BY <1>2, <2>2, <2>3 DEF Dealt
<1>4. CASE s.phase.pass = 2
  <2>1. t.phase = ShowdownEvaluation
    BY <1>4 DEF BuildShowdownReveal, Successor
  <2>2. s.reveals = Holes \cup Board(River) \cup OwnHoleSlots(Other(p))
    BY <1>1, <1>4, Published DEF Dealt
  <2>3. OwnHoleSlots(p) \cup OwnHoleSlots(Other(p)) = OwnHoleSlots(1) \cup OwnHoleSlots(2)
    <3>1. (p = 1 /\ Other(p) = 2) \/ (p = 2 /\ Other(p) = 1)
      BY <1>1 DEF Players, Other
    <3> QED BY <3>1
  <2>4. t.reveals = Slots
    BY <1>2, <2>2, <2>3, AllSlots
  <2> QED BY <1>2, <2>1, <2>4, Published DEF Dealt
<1> QED BY <1>1, <1>3, <1>4

LEMMA AllInCallDealt ==
    ASSUME NEW s \in States, NEW t, Dealt(s), BuildAllInCall(s, t)
    PROVE  Dealt(t)
<1> DEFINE p == s.phase.actor
           street == s.phase.street
<1>1. /\ p \in Players /\ Other(p) \in Players /\ Other(Other(p)) = p
      /\ street \in PreFlop..River /\ s.phase = AllIn(p, street)
  BY PhaseShape, PhaseForms, OtherPlayer DEF States, BuildAllInCall, ActingKinds
<1>2. s.reveals = Holes \cup Board(street)
  BY <1>1, Published DEF Dealt
<1>3. t.reveals = s.reveals \cup RemainingSlots(p, street + 1) /\ StartEqual(t)
  BY DEF BuildAllInCall, Successor, StartEqual, EqualWagers, Players
<1>4. CASE street = River
  <2>1. t.phase = ShowdownReveal(Other(p), 2)
    BY <1>4 DEF BuildAllInCall, Successor
  <2>2. PublishedAt(t.phase) = Holes \cup Board(River) \cup OwnHoleSlots(p)
    BY <1>1, <2>1, Published
  <2> QED BY <1>1, <1>2, <1>3, <1>4, <2>2, RemainingStarts DEF Dealt
<1>5. CASE street # River
  <2>1. t.phase = AllInReveal(Other(p), street + 1)
    BY <1>5 DEF BuildAllInCall, Successor
  <2>2. (street + 1) - 1 = street
    BY <1>1 DEF PreFlop, River
  <2>3. PublishedAt(t.phase)
           = Holes \cup Board((street + 1) - 1) \cup RemainingSlots(Other(Other(p)), street + 1)
    BY <2>1, Published
  <2>4. PublishedAt(t.phase) = Holes \cup Board(street) \cup RemainingSlots(p, street + 1)
    BY <1>1, <2>2, <2>3
  <2> QED BY <1>2, <1>3, <2>4 DEF Dealt
<1> QED BY <1>4, <1>5

LEMMA AllInRevealDealt ==
    ASSUME NEW s \in States, NEW t, Dealt(s), BuildAllInReveal(s, t)
    PROVE  Dealt(t)
<1> DEFINE p == s.phase.actor
           street == s.phase.street
<1>1. /\ p \in Players /\ street \in Flop..River /\ s.phase = AllInReveal(p, street)
  BY PhaseShape, PhaseForms DEF States, BuildAllInReveal, ActingKinds
<1>2. s.reveals = Holes \cup Board(street - 1) \cup RemainingSlots(Other(p), street)
  BY <1>1, Published DEF Dealt
<1>3. /\ t.reveals = s.reveals \cup RemainingSlots(p, street)
      /\ t.phase = ShowdownEvaluation /\ StartEqual(t)
  BY DEF BuildAllInReveal, Successor, StartEqual, EqualWagers
<1>4. t.reveals = Holes \cup (Board(street - 1) \cup RemainingSlots(p, street)
                              \cup RemainingSlots(Other(p), street))
  BY <1>2, <1>3
<1>5. t.reveals = Slots
  BY <1>1, <1>4, RemainingCompletes, AllSlots
<1> QED BY <1>3, <1>5, Published DEF Dealt

LEMMA LiveDealt ==
    ASSUME NEW s \in States, NEW t, Dealt(s), BuildLive(s, t)
    PROVE  Dealt(t)
<1>1. CASE BuildCheck(s, t) \/ BuildCall(s, t)
  BY <1>1, MatchedDealt DEF BuildCheck, BuildCall
<1>2. CASE BuildRaiseTo(s, t)
  BY <1>2, RaisedDealt DEF BuildRaiseTo
<1> QED BY <1>1, <1>2, FundingDealt, OpeningDealt, BoardRevealDealt, ShowdownRevealDealt,
           AllInCallDealt, AllInRevealDealt DEF BuildLive

\* Published slots are a function of the phase, and hole cards stay private until
\* no bet can follow, in every reachable state and whatever led there.
THEOREM RevealsFollowPhases == Spec => []RevealsMatchPhase
<1>1. Init => Dealt(state)
  BY InitialDealt DEF Init
<1>2. TypeOK /\ Dealt(state) /\ [Next]_vars => Dealt(state)'
  <2> SUFFICES ASSUME TypeOK, Dealt(state), [Next]_vars PROVE Dealt(state')
    OBVIOUS
  <2>1. CASE LiveStep
    BY <2>1, LiveStepBuilds, LiveDealt DEF TypeOK
  <2>2. CASE UNCHANGED state
    BY <2>2
  <2> QED BY <2>1, <2>2, StateChanges
<1>3. TypeOK /\ Dealt(state) => RevealsMatchPhase
  <2> SUFFICES ASSUME TypeOK, Dealt(state), NEW p \in Players,
                      state.reveals \cap OwnHoleSlots(p) # {}
               PROVE  state.phase.kind \in RevealKinds
    BY DEF Dealt, RevealsMatchPhase, HolesPrivateUntilShowdown, RevealKinds
  <2> DEFINE ph == state.phase
  <2>1. ph \in Phases /\ state.reveals = PublishedAt(ph)
    BY DEF TypeOK, States, Dealt
  <2>2. ASSUME NEW st \in PreFlop..River, state.reveals = Holes \cup Board(st) PROVE FALSE
    BY <2>2, OwnHolesApart
  <2>3. ph.kind \notin {"Betting", "AllIn"}
    BY <2>1, <2>2, PhaseShape, PhaseForms, Published
  <2>4. ph.kind # "BoardReveal"
    <3> SUFFICES ASSUME ph.kind = "BoardReveal" PROVE FALSE
      OBVIOUS
    <3>1. /\ ph.actor \in Players /\ Other(ph.actor) \in Players
          /\ ph.street \in Flop..River /\ ph.pass \in 1..2
          /\ ph = BoardReveal(ph.actor, ph.street, ph.pass)
      BY <2>1, PhaseShape, PhaseForms, OtherPlayer DEF ActingKinds
    <3>2. ph.street \in PreFlop..River
      BY <3>1 DEF PreFlop, Flop, River
    <3>3. Board(ph.street) = Board(ph.street - 1) \cup StreetSlots(ph.street)
      BY <3>1, BoardGrows DEF StreetSlots
    <3>4. BoardSlots(Other(ph.actor), ph.street) \subseteq StreetSlots(ph.street)
      BY <3>1, BothPlayers
    <3>5. state.reveals \subseteq Holes \cup Board(ph.street)
      BY <2>1, <3>1, <3>3, <3>4, Published
    <3> QED BY <3>2, <3>5, OwnHolesApart
  <2>5. ph \notin {AwaitPlayer1FundingAndReveal, AwaitPlayer2RevealAndOpening}
    <3> SUFFICES ASSUME ph \in {AwaitPlayer1FundingAndReveal, AwaitPlayer2RevealAndOpening}
                 PROVE  FALSE
      OBVIOUS
    <3>1. state.reveals \subseteq Holes \cup Board(PreFlop)
      BY <2>1, Published DEF Holes
    <3>2. PreFlop \in PreFlop..River
      BY DEF PreFlop, River
    <3> QED BY <3>1, <3>2, OwnHolesApart
  <2> QED BY <2>1, <2>3, <2>4, <2>5, PhaseShape, Kinds DEF ActingKinds, RevealKinds
<1>4. Spec => []Dealt(state)
  BY <1>1, <1>2, TypeCorrect, PTL DEF Spec
<1> QED BY <1>3, <1>4, TypeCorrect, PTL

(***************************************************************************)
(* Wagers: who may be ahead of whom.                                       *)
(***************************************************************************)
\* After its move a player is at least level with its opponent.
LEMMA MoverNotBehind ==
    ASSUME NEW s \in States, NEW t, WithinCap(s), BuildLive(s, t)
    PROVE  LET p == RequiredActor(s.phase)
           IN p \in Players /\ Moves(p, s, t) /\ t.wagers[p] >= t.wagers[Other(p)]
<1> DEFINE p == RequiredActor(s.phase)
<1>1. CASE BuildPlayer1Funding(s, t)
  <2>1. p = 1 /\ Moves(p, s, t)
    BY <1>1, Actors, FundingMoves DEF BuildPlayer1Funding, InitialState
  <2>2. t.wagers = NoWagers
    BY <1>1 DEF BuildPlayer1Funding, InitialState, Successor
  <2> QED BY <2>1, <2>2 DEF NoWagers, Players, Other
<1>2. CASE BuildPlayer2Opening(s, t)
  <2>1. p = 2 /\ Moves(p, s, t)
    BY <1>2, Actors, OpeningMoves DEF BuildPlayer2Opening
  <2>2. t.wagers[1] = 0 /\ t.wagers[2] \in Nat
    BY <1>2, <2>1 DEF BuildPlayer2Opening, NoWagers, Moves, Players, Other, States
  <2> QED BY <2>1, <2>2 DEF Players, Other
<1>3. CASE BuildCheck(s, t) \/ BuildCall(s, t)
  <2>1. BettingHistory(s) /\ t = Matched(s)
    BY <1>3 DEF BuildCheck, BuildCall
  <2>2. p = s.phase.actor /\ p \in Players /\ Other(p) \in Players /\ Other(p) # p
    BY <2>1, BettingShape, ActingActor DEF ActingKinds, BettingHistory
  <2>3. Moves(p, s, t)
    BY <2>1, <2>2, MatchedMoves
  <2>4. t.wagers = [s.wagers EXCEPT ![p] = Theirs(s)]
    BY <2>1, <2>2 DEF Matched, Successor
  <2>5. t.wagers[p] = Theirs(s) /\ t.wagers[Other(p)] = Theirs(s) /\ Theirs(s) \in Nat
    BY <2>1, <2>2, <2>4, BettingShape DEF States, Theirs, BettingHistory
  <2> QED BY <2>2, <2>3, <2>5
<1>4. CASE BuildRaiseTo(s, t)
  <2>1. BettingHistory(s)
    BY <1>4 DEF BuildRaiseTo
  <2>2. PICK target \in RaiseTargets(s) : t = Raised(s, target)
    BY <1>4 DEF BuildRaiseTo
  <2>3. p = s.phase.actor /\ p \in Players /\ Other(p) \in Players /\ Other(p) # p
    BY <2>1, BettingShape, ActingActor DEF ActingKinds, BettingHistory
  <2>4. Moves(p, s, t)
    BY <2>1, <2>2, <2>3, RaisedMoves
  <2>5. t.wagers = [s.wagers EXCEPT ![p] = target]
    BY <2>2, <2>3 DEF Raised, Successor
  <2>6. t.wagers[p] = target /\ t.wagers[Other(p)] = Theirs(s) /\ Theirs(s) \in Nat
    BY <2>1, <2>3, <2>5, BettingShape DEF States, Theirs, BettingHistory
  <2>7. target \in Nat /\ target > Theirs(s)
    BY DEF RaiseTargets
  <2> QED BY <2>3, <2>4, <2>6, <2>7
<1>5. CASE BuildBoardReveal(s, t)
  <2>1. p = s.phase.actor /\ p \in Players /\ Moves(p, s, t)
    BY <1>5, BoardRevealMoves, ActingActor DEF ActingKinds, BuildBoardReveal
  <2>2. t.wagers = s.wagers /\ s.wagers[1] = s.wagers[2]
    BY <1>5 DEF BuildBoardReveal, Successor, StartEqual, EqualWagers
  <2> QED BY <2>1, <2>2 DEF Players, Other, States
<1>6. CASE BuildShowdownReveal(s, t)
  <2>1. p = s.phase.actor /\ p \in Players /\ Moves(p, s, t)
    BY <1>6, ShowdownRevealMoves, ActingActor DEF ActingKinds, BuildShowdownReveal
  <2>2. t.wagers = s.wagers /\ s.wagers[1] = s.wagers[2]
    BY <1>6 DEF BuildShowdownReveal, Successor, StartEqual, EqualWagers
  <2> QED BY <2>1, <2>2 DEF Players, Other, States
<1>7. CASE BuildAllInCall(s, t)
  <2>1. p = s.phase.actor /\ p \in Players /\ Moves(p, s, t)
    BY <1>7, AllInCallMoves, ActingActor DEF ActingKinds, BuildAllInCall
  <2>2. t.wagers = [q \in Players |-> MaxWager]
    BY <1>7 DEF BuildAllInCall, Successor
  <2> QED BY <2>1, <2>2, OtherPlayer, AmountsAssumption
<1>8. CASE BuildAllInReveal(s, t)
  <2>1. p = s.phase.actor /\ p \in Players /\ Moves(p, s, t)
    BY <1>8, AllInRevealMoves, ActingActor DEF ActingKinds, BuildAllInReveal
  <2>2. t.wagers = s.wagers /\ s.wagers[1] = s.wagers[2]
    BY <1>8 DEF BuildAllInReveal, Successor, StartEqual, EqualWagers
  <2> QED BY <2>1, <2>2 DEF Players, Other, States
<1> QED BY <1>1, <1>2, <1>3, <1>4, <1>5, <1>6, <1>7, <1>8 DEF BuildLive

\* The player whose move it is never leads.
Lead(s) ==
    LET p == RequiredActor(s.phase)
    IN p \in Players => s.wagers[p] <= s.wagers[Other(p)]

LEMMA LiveLead ==
    ASSUME NEW s \in States, NEW t, WithinCap(s), BuildLive(s, t)
    PROVE  Lead(t)
<1> DEFINE p == RequiredActor(s.phase)
<1>1. p \in Players /\ Moves(p, s, t) /\ t.wagers[p] >= t.wagers[Other(p)]
  BY MoverNotBehind
<1>2. PassesTurn(s, t)
  BY TurnPasses
<1>3. RequiredActor(ShowdownEvaluation) \notin Players
  BY DEF RequiredActor, ShowdownEvaluation, Ph, Players
<1>4. Other(Other(p)) = p
  BY <1>1, OtherPlayer
<1>5. t.wagers[p] \in Nat /\ t.wagers[Other(p)] \in Nat
  BY <1>1, OtherPlayer DEF Moves, States
<1> QED BY <1>1, <1>2, <1>3, <1>4, <1>5 DEF PassesTurn, Lead

\* Before a settlement there is no result.
Undecided == stage # "settled" => settlement = NoSettlement

RulesInv == IInv /\ Lead(state) /\ Undecided

LEMMA RulesInvariant == Spec => []RulesInv
<1>1. Init => Lead(state) /\ Undecided
  BY DEF Init, Lead, Undecided, InitialState, NoWagers, Players, Other
<1>2. IInv /\ Lead(state) /\ Undecided /\ [Next]_vars => Lead(state)' /\ Undecided'
  <2> SUFFICES ASSUME IInv, Lead(state), Undecided, [Next]_vars
               PROVE  Lead(state') /\ Undecided'
    OBVIOUS
  <2>1. Lead(state')
    <3>1. CASE LiveStep
      BY <3>1, LiveStepBuilds, LiveLead DEF IInv, TypeOK, Books
    <3>2. CASE UNCHANGED state
      BY <3>2
    <3> QED BY <3>1, <3>2, StateChanges
  <2>2. Undecided'
    BY DEF Undecided, Next, vars, InitialDeposit, LiveStep, Live, Player1Funding,
           Player2Opening, Check, Call, RaiseTo, RevealBoard, RevealShowdown, AllInCall,
           RevealAllIn, TerminalStep, Concession, Timeout, Showdown, Settle, Tick, Finished
  <2> QED BY <2>1, <2>2
<1>3. Spec => [](Lead(state) /\ Undecided)
  BY <1>1, <1>2, BooksBalance, PTL DEF Spec
<1> QED BY <1>3, BooksBalance, PTL DEF RulesInv

(***************************************************************************)
(* The rules of the hand.                                                  *)
(***************************************************************************)
\* Both definitions of the seats, and what one of them has bet.
LEMMA Seating ==
    /\ Rules!Seats = Players
    /\ Rules!AnteAndBond = DepositValue
    /\ \A p \in Players : Rules!Opponent(p) = Other(p)
  BY DEF Rules!Seats, Rules!AnteAndBond, Rules!Opponent, Players, DepositValue, Other

LEMMA JointBets ==
    ASSUME RulesInv, stage = "live", state.phase # AwaitPlayer1FundingAndReveal
    PROVE  /\ Joint /\ Rules!Open /\ Rules!BothIn
           /\ \A p \in Players : Rules!Bet(p) = state.wagers[p] /\ state.wagers[p] \in Nat
<1>1. Joint /\ settlement = NoSettlement /\ state \in States
  BY DEF RulesInv, IInv, TypeOK, Books, Undecided
<1>2. \A p \in Players : state.wagers[p] \in Nat
  BY <1>1 DEF States
<1>3. \A p \in Players : contributed[p] = DepositValue + state.wagers[p]
  BY <1>1 DEF Joint, DepositValue
<1>4. DepositValue \in Nat
  BY AmountsAssumption DEF DepositValue
<1>5. \A p \in Players : contributed[p] - DepositValue = state.wagers[p]
                         /\ contributed[p] >= DepositValue
  BY <1>2, <1>3, <1>4
<1> QED BY <1>1, <1>2, <1>5, Seating DEF Rules!Open, Rules!BothIn, Rules!Bet, NoSettlement

LEMMA DepositFunds == RulesInv /\ InitialDeposit => Rules!Fund(2)
<1> SUFFICES ASSUME RulesInv, InitialDeposit PROVE Rules!Fund(2)
  OBVIOUS
<1>1. contributed = NoWagers /\ settlement = NoSettlement
  BY DEF RulesInv, IInv, Books, Undecided, InitialDeposit
<1>2. contributed' = [contributed EXCEPT ![2] = DepositValue]
  BY <1>1, AmountsAssumption DEF InitialDeposit, NoWagers, Players, DepositValue
<1>3. contributed[2] = 0 /\ settlement.kind = "none"
  BY <1>1 DEF NoWagers, Players, NoSettlement
<1>4. UNCHANGED <<received, settlement>>
  BY DEF InitialDeposit
<1> QED BY <1>2, <1>3, <1>4, Seating DEF Rules!Fund, Rules!Open

LEMMA FundingFunds == RulesInv /\ Player1Funding => Rules!Fund(1)
<1> SUFFICES ASSUME RulesInv, Player1Funding PROVE Rules!Fund(1)
  OBVIOUS
<1>1. stage = "live" /\ state.phase = AwaitPlayer1FundingAndReveal
  BY DEF Player1Funding, Live, BuildPlayer1Funding, InitialState
<1>2. DepositOnly /\ settlement = NoSettlement
  BY <1>1 DEF RulesInv, IInv, Books, Undecided
<1>3. state'.wagers = NoWagers
  BY DEF Player1Funding, BuildPlayer1Funding, Successor, InitialState
<1>4. LiveValue(state') = 2 * (Stake + Bond)
  BY <1>3, AmountsAssumption DEF LiveValue, NoWagers, Players
<1>5. contributed' = [contributed EXCEPT ![1] = DepositValue]
  <2>1. contributed' = [contributed EXCEPT ![1] = contributed[1] + (LiveValue(state') - value)]
    BY DEF Player1Funding, Live
  <2>2. contributed[1] = 0 /\ value = Stake + Bond
    BY <1>2 DEF DepositOnly, DepositValue
  <2>3. contributed[1] + (LiveValue(state') - value) = DepositValue
    BY <1>4, <2>2, AmountsAssumption DEF DepositValue
  <2> QED BY <2>1, <2>3
<1>6. contributed[1] = 0 /\ contributed[2] = DepositValue /\ settlement.kind = "none"
  BY <1>2 DEF NoSettlement, DepositOnly, DepositValue
<1>7. UNCHANGED <<received, settlement>>
  BY DEF Player1Funding, Live
<1> QED BY <1>5, <1>6, <1>7, Seating DEF Rules!Fund, Rules!Open

\* Every later move is a bet of its actor, or costs nothing.
LEMMA MoveBets ==
    ASSUME RulesInv, NEW p \in Players, Live(p), BuildLive(state, state'),
           state.phase # AwaitPlayer1FundingAndReveal, RequiredActor(state.phase) = p,
           JointPredecessor
    PROVE  Rules!PlaceBet(p) \/ UNCHANGED Rules!rulesVars
<1> DEFINE total == state'.wagers[p]
<1>1. state \in States /\ WithinCap(state) /\ stage = "live"
      /\ contributed \in [Players -> Nat]
  BY DEF RulesInv, IInv, TypeOK, Books, Live
<1>2. Moves(p, state, state') /\ total >= state'.wagers[Other(p)]
  BY <1>1, MoverNotBehind
<1>3. /\ Joint /\ Rules!Open /\ Rules!BothIn
      /\ \A q \in Players : Rules!Bet(q) = state.wagers[q] /\ state.wagers[q] \in Nat
  BY <1>1, JointBets
<1>4. Other(p) \in Players /\ total \in Nat /\ state'.wagers[Other(p)] \in Nat
  BY <1>2, OtherPlayer DEF Moves, States
<1>5. LiveValue(state') - value = total - state.wagers[p]
  <2>1. CASE p = 1
    BY <1>2, <1>3, <1>4, <2>1, AmountsAssumption DEF JointPredecessor, LiveValue, Moves, Other,
       Players
  <2>2. CASE p = 2
    BY <1>2, <1>3, <1>4, <2>2, AmountsAssumption DEF JointPredecessor, LiveValue, Moves, Other,
       Players
  <2> QED BY <2>1, <2>2 DEF Players
<1>6. contributed' = [contributed EXCEPT ![p] = contributed[p] + (total - state.wagers[p])]
  BY <1>5 DEF Live
<1>7. contributed[p] + (total - state.wagers[p]) = DepositValue + total
  BY <1>3, <1>4, AmountsAssumption DEF Joint, DepositValue
<1>8. CASE total = state.wagers[p]
  <2>1. contributed' = contributed
    BY <1>1, <1>6, <1>8, <1>4
  <2> QED BY <2>1 DEF Live, Rules!rulesVars
<1>9. CASE total # state.wagers[p]
  <2>1. total \in 1..MaxWager /\ total > state.wagers[p] /\ total >= state.wagers[Other(p)]
    BY <1>2, <1>3, <1>4, <1>9, AmountsAssumption DEF Moves
  <2> HIDE DEF total
  <2>2. /\ total > Rules!Bet(p) /\ total >= Rules!Bet(Rules!Opponent(p))
        /\ contributed' = [contributed EXCEPT ![p] = Rules!AnteAndBond + total]
    BY <1>3, <1>4, <1>6, <1>7, <2>1, Seating
  <2>3. UNCHANGED <<received, settlement>>
    BY DEF Live
  <2> QED BY <1>3, <2>1, <2>2, <2>3 DEF Rules!PlaceBet
<1> QED BY <1>8, <1>9

LEMMA LiveFollowsRules ==
    ASSUME RulesInv, LiveStep
    PROVE  \/ \E p \in Players : Rules!Fund(p) \/ Rules!PlaceBet(p)
           \/ UNCHANGED Rules!rulesVars
<1>1. CASE Player1Funding
  BY <1>1, FundingFunds DEF Players
<1>2. CASE ~Player1Funding
  <2>1. BuildLive(state, state') /\ state \in States /\ WithinCap(state)
    BY LiveStepBuilds DEF RulesInv, IInv, TypeOK, Books
  <2>2. CASE Player2Opening
    <3>1. state.phase = AwaitPlayer2RevealAndOpening
      BY <2>2 DEF Player2Opening, BuildPlayer2Opening
    <3>2. Live(2) /\ JointPredecessor
      BY <2>2 DEF Player2Opening
    <3> QED BY <2>1, <3>1, <3>2, Actors, Kinds, MoveBets DEF Players
  <2>3. CASE ~Player2Opening
    <3>1. Live(state.phase.actor) /\ JointPredecessor
      BY <1>2, <2>3 DEF LiveStep, Check, Call, RaiseTo, RevealBoard, RevealShowdown, AllInCall,
                        RevealAllIn
    <3>2. state.phase.kind \in ActingKinds
      BY <1>2, <2>3 DEF LiveStep, Check, Call, RaiseTo, RevealBoard, RevealShowdown, AllInCall,
                        RevealAllIn, BuildCheck, BuildCall, BuildRaiseTo, BuildBoardReveal,
                        BuildShowdownReveal, BuildAllInCall, BuildAllInReveal, BettingHistory,
                        ActingKinds
    <3>3. /\ RequiredActor(state.phase) = state.phase.actor
          /\ state.phase.actor \in Players
          /\ state.phase # AwaitPlayer1FundingAndReveal
      BY <2>1, <3>2, ActingActor, PhaseShape, Kinds DEF States, ActingKinds
    <3> QED BY <2>1, <3>1, <3>3, MoveBets
  <2> QED BY <2>2, <2>3
<1> QED BY <1>1, <1>2

LEMMA ConcessionFolds ==
    ASSUME RulesInv, Concession
    PROVE  \E p \in Players : Rules!Fold(p)
<1> DEFINE l == state.phase.actor
           w == Other(l)
<1>1. /\ state \in States /\ stage = "live" /\ state.phase.kind \in ConcessionKinds
      /\ Settle("concession", w, ConcessionPayout(state, value))
      /\ received = NoWagers
  BY DEF RulesInv, IInv, TypeOK, Books, Concession, CanConcede, Settle
<1>2. l \in Players /\ w \in Players /\ Other(w) = l /\ w # l
  BY <1>1, PhaseShape, OtherPlayer DEF States, ConcessionKinds, ActingKinds
<1>3. state.phase # AwaitPlayer1FundingAndReveal /\ RequiredActor(state.phase) = l
  BY <1>1, Kinds, ActingActor DEF ConcessionKinds, ActingKinds
<1>4. /\ Joint /\ Rules!Open /\ Rules!BothIn
      /\ \A p \in Players : Rules!Bet(p) = state.wagers[p] /\ state.wagers[p] \in Nat
  BY <1>1, <1>3, JointBets
<1>5. Rules!Bet(l) <= Rules!Bet(Rules!Opponent(l))
  BY <1>2, <1>3, <1>4, Seating DEF RulesInv, Lead
<1>6. value = contributed[1] + contributed[2] /\ value \in Nat
      /\ contributed[1] \in Nat /\ contributed[2] \in Nat
  BY <1>1, ValueIsPaidIn DEF RulesInv, IInv, TypeOK, Players
<1>7. received' = [p \in Players |-> IF p = l THEN Bond ELSE value - Bond]
  <2>1. \A p \in Players : (IF p = l THEN Bond ELSE value - Bond) \in Int
    BY <1>6, AmountsAssumption
  <2> HIDE DEF l, w
  <2>2. \A p \in Players : ConcessionPayout(state, value)[p]
                           = IF p = l THEN Bond ELSE value - Bond
    BY DEF ConcessionPayout, l
  <2>3. \A p \in Players : received[p] + ConcessionPayout(state, value)[p]
                           = IF p = l THEN Bond ELSE value - Bond
    BY <1>1, <2>1, <2>2 DEF NoWagers
  <2> QED BY <1>1, <2>3 DEF Settle
<1>8. value - Bond = Bond + Rules!Pot
  BY <1>6, AmountsAssumption DEF Rules!Pot
<1>9. l = 1 \/ l = 2
  <2> HIDE DEF l
  <2> QED BY <1>2 DEF Players
<1>10. Rules!Fold(l)
  <2>1. received' = [p \in Rules!Seats |->
                        IF p = 1 THEN Bond + (IF l = 1 THEN 0 ELSE Rules!Pot)
                                 ELSE Bond + (IF l = 2 THEN 0 ELSE Rules!Pot)]
    <3> HIDE DEF l, w
    <3>1. \A p \in Players : (IF p = l THEN Bond ELSE value - Bond)
              = IF p = 1 THEN Bond + (IF l = 1 THEN 0 ELSE Rules!Pot)
                         ELSE Bond + (IF l = 2 THEN 0 ELSE Rules!Pot)
      BY <1>8, <1>9, AmountsAssumption DEF Players
    <3> QED BY <1>7, <3>1, Seating
  <2>2. settlement' = [kind |-> "concession", winner |-> Rules!Opponent(l)]
        /\ contributed' = contributed
    BY <1>1, <1>2, Seating DEF Settle
  <2> HIDE DEF l
  <2> QED BY <1>4, <1>5, <2>1, <2>2 DEF Rules!Fold, Rules!Distribute
<1> QED BY <1>2, <1>10

LEMMA TimeoutForfeits ==
    ASSUME RulesInv, Timeout
    PROVE  \E p \in Players : Rules!Forfeit(p)
<1> DEFINE l == RequiredActor(state.phase)
           w == Other(l)
<1>1. /\ state \in States /\ stage = "live" /\ l # 0
      /\ Settle("timeout", w, TimeoutPayout(state, value))
      /\ received = NoWagers /\ settlement = NoSettlement
  BY DEF RulesInv, IInv, TypeOK, Books, Timeout, CanTimeout, Settle, Undecided
<1>2. l \in Players
  BY <1>1, PhaseShape, Kinds DEF States, RequiredActor, ActingKinds, Players
<1>3. w \in Players /\ Other(w) = l /\ w # l
  BY <1>2, OtherPlayer
<1>4. /\ value = contributed[1] + contributed[2] /\ value \in Nat
      /\ contributed[1] \in Nat /\ contributed[2] \in Nat
  BY <1>1, ValueIsPaidIn DEF RulesInv, IInv, TypeOK, Players
<1>5. contributed[2] >= DepositValue /\ contributed[l] <= contributed[w]
  <2>1. CASE state.phase = AwaitPlayer1FundingAndReveal
    <3>1. DepositOnly /\ l = 1 /\ w = 2
      BY <1>1, <2>1, Actors DEF RulesInv, IInv, Books, Other
    <3> QED BY <3>1, AmountsAssumption DEF DepositOnly, DepositValue
  <2>2. CASE state.phase # AwaitPlayer1FundingAndReveal
    <3>1. Joint
      BY <1>1, <2>2 DEF RulesInv, IInv, Books
    <3>2. state.wagers[l] <= state.wagers[w] /\ state.wagers[l] \in Nat
          /\ state.wagers[w] \in Nat /\ state.wagers[2] \in Nat
      BY <1>1, <1>2, <1>3 DEF RulesInv, Lead, States, Players
    <3>3. /\ contributed[l] = Stake + Bond + state.wagers[l]
          /\ contributed[w] = Stake + Bond + state.wagers[w]
          /\ contributed[2] = Stake + Bond + state.wagers[2]
      BY <1>2, <1>3, <3>1 DEF Joint, Players
    <3> HIDE DEF l, w
    <3> QED BY <3>2, <3>3, AmountsAssumption DEF DepositValue
  <2> QED BY <2>1, <2>2
<1>6. received' = [p \in Players |-> IF p = w THEN value ELSE 0]
  <2>1. \A p \in Players : received[p] + TimeoutPayout(state, value)[p]
                           = IF p = w THEN value ELSE 0
    BY <1>1, <1>4 DEF NoWagers, TimeoutPayout
  <2> HIDE DEF w
  <2> QED BY <1>1, <2>1 DEF Settle
<1>7. (l = 1 /\ w = 2) \/ (l = 2 /\ w = 1)
  BY <1>2, <1>3 DEF Players
<1>8. Rules!Forfeit(l)
  <2> HIDE DEF l, w
  <2>1. received' = [p \in Rules!Seats |->
                        IF p = 1 THEN (IF l = 1 THEN 0 ELSE contributed[1] + contributed[2])
                                 ELSE (IF l = 2 THEN 0 ELSE contributed[1] + contributed[2])]
    <3>1. \A p \in Players : (IF p = w THEN value ELSE 0)
              = IF p = 1 THEN (IF l = 1 THEN 0 ELSE contributed[1] + contributed[2])
                         ELSE (IF l = 2 THEN 0 ELSE contributed[1] + contributed[2])
      BY <1>4, <1>7 DEF Players
    <3> QED BY <1>6, <3>1, Seating
  <2>2. Rules!Opponent(l) = w
    BY <1>2, Seating DEF w
  <2>3. settlement' = [kind |-> "timeout", winner |-> w] /\ contributed' = contributed
    BY <1>1 DEF Settle
  <2> QED BY <1>1, <1>5, <2>1, <2>2, <2>3, Seating
          DEF Rules!Forfeit, Rules!Distribute, Rules!Open, NoSettlement
<1> QED BY <1>2, <1>8

LEMMA ShowdownCompares == RulesInv /\ Showdown => Rules!Compare
<1> SUFFICES ASSUME RulesInv, Showdown PROVE Rules!Compare
  OBVIOUS
<1>1. /\ state \in States /\ stage = "live" /\ winner \in 0..2
      /\ Settle("showdown", winner, ShowdownPayout(state, winner))
      /\ state.phase = ShowdownEvaluation /\ state.wagers[1] = state.wagers[2]
      /\ received = NoWagers
  BY DEF RulesInv, IInv, TypeOK, Books, Showdown, CanShowdown, StartEqual, EqualWagers, Settle
<1>2. /\ Joint /\ Rules!Open /\ Rules!BothIn
      /\ \A p \in Players : Rules!Bet(p) = state.wagers[p] /\ state.wagers[p] \in Nat
  BY <1>1, JointBets, Kinds
<1>3. Rules!Bet(1) = Rules!Bet(2)
  BY <1>1, <1>2 DEF Players
<1>4. LiveValue(state) = contributed[1] + contributed[2] /\ LiveValue(state) \in Nat
  BY <1>1, <1>2, ValueIsPaidIn DEF RulesInv, Joint
<1> DEFINE pot == Rules!Pot
           half == LiveValue(state) \div 2
<1>5. LiveValue(state) - Bond = Bond + pot /\ pot \in Int /\ half \in Int
      /\ half = Bond + (pot \div 2)
  <2>1. contributed[1] \in Nat /\ contributed[2] \in Nat
    BY DEF RulesInv, IInv, TypeOK, Players
  <2>2. pot = LiveValue(state) - 2 * Bond
    BY <1>4, <2>1, AmountsAssumption DEF Rules!Pot
  <2> HIDE DEF pot
  <2> QED BY <1>4, <2>2, AmountsAssumption
<1>6. received' = [p \in Players |-> IF winner = 0 THEN half
                       ELSE IF p = winner THEN LiveValue(state) - Bond ELSE Bond]
  <2>1. \A p \in Players : received[p] + ShowdownPayout(state, winner)[p]
            = IF winner = 0 THEN half
              ELSE IF p = winner THEN LiveValue(state) - Bond ELSE Bond
    BY <1>1, <1>4, <1>5, AmountsAssumption DEF NoWagers, ShowdownPayout
  <2> QED BY <1>1, <2>1 DEF Settle
<1>7. contributed' = contributed /\ settlement' = [kind |-> "showdown", winner |-> winner]
  BY <1>1 DEF Settle
<1>8. CASE winner = 0
  <2>1. received' = [p \in Rules!Seats |-> IF p = 1 THEN Bond + (pot \div 2)
                                                   ELSE Bond + (pot \div 2)]
    BY <1>5, <1>6, <1>8, Seating
  <2> QED BY <1>2, <1>3, <1>7, <1>8, <2>1 DEF Rules!Compare, Rules!Distribute
<1>9. CASE winner # 0
  <2>1. winner \in Players
    BY <1>1, <1>9 DEF Players
  <2>2. received' = [p \in Rules!Seats |-> IF p = 1 THEN Bond + (IF winner = 1 THEN pot ELSE 0)
                                           ELSE Bond + (IF winner = 2 THEN pot ELSE 0)]
    <3> HIDE DEF pot, half
    <3>1. \A p \in Players : (IF p = winner THEN LiveValue(state) - Bond ELSE Bond)
              = IF p = 1 THEN Bond + (IF winner = 1 THEN pot ELSE 0)
                         ELSE Bond + (IF winner = 2 THEN pot ELSE 0)
      BY <1>5, <2>1, AmountsAssumption DEF Players
    <3> QED BY <1>6, <1>9, <3>1, Seating
  <2>3. Rules!Distribute("showdown", winner, Bond + (IF winner = 1 THEN pot ELSE 0),
                                             Bond + (IF winner = 2 THEN pot ELSE 0))
    BY <1>2, <1>7, <2>2 DEF Rules!Distribute
  <2> QED BY <1>2, <1>3, <2>1, <2>3, Seating DEF Rules!Compare
<1> QED BY <1>8, <1>9

\* The money of a hand moves as the rules say, whatever order of builders, amounts and
\* deals: the covenant implements HandRules.
THEOREM RulesAreImplemented == Spec => ImplementsRules
<1>1. Init => Rules!RulesInit
  BY Seating DEF Init, Rules!RulesInit, NoWagers, NoSettlement
<1>2. RulesInv /\ [Next]_vars => [Rules!RulesNext]_(Rules!rulesVars)
  <2> SUFFICES ASSUME RulesInv, [Next]_vars
               PROVE  Rules!RulesNext \/ UNCHANGED Rules!rulesVars
    OBVIOUS
  <2> USE Seating DEF Rules!RulesNext, Rules!rulesVars
  <2>1. CASE InitialDeposit
    BY <2>1, DepositFunds DEF Players
  <2>2. CASE LiveStep
    BY <2>2, LiveFollowsRules
  <2>3. CASE Concession
    BY <2>3, ConcessionFolds
  <2>4. CASE Timeout
    BY <2>4, TimeoutForfeits
  <2>5. CASE Showdown
    BY <2>5, ShowdownCompares
  <2>6. CASE Tick \/ UNCHANGED vars
    BY <2>6 DEF Tick, vars
  <2> QED BY <2>1, <2>2, <2>3, <2>4, <2>5, <2>6 DEF Next, TerminalStep, Finished
<1> QED BY <1>1, <1>2, RulesInvariant, PTL DEF Spec, ImplementsRules, Rules!RulesSpec

(***************************************************************************)
(* The length of a hand.                                                   *)
(***************************************************************************)
\* The moves made before a street is bet on, and before a phase is entered, when
\* raises below the cap are not counted.
Before(street) == 1 + 4 * (street - 1)

Quiet(ph, last) ==
    CASE ph.kind = "AwaitPlayer1FundingAndReveal" -> 0
      [] ph.kind = "AwaitPlayer2RevealAndOpening" -> 1
      [] ph.kind = "Betting" -> Before(ph.street) + (IF last = "Start" THEN 0 ELSE 1)
      [] ph.kind = "AllIn" -> Before(ph.street) + 2
      [] ph.kind = "BoardReveal" -> Before(ph.street - 1) + 1 + ph.pass
      [] ph.kind = "ShowdownReveal" -> Before(River) + 1 + ph.pass
      [] ph.kind = "AllInReveal" -> Before(ph.street - 1) + 3
      [] OTHER -> Before(River) + 4

LEMMA QuietPhases ==
    /\ \A last : Quiet(AwaitPlayer1FundingAndReveal, last) = 0
    /\ \A last : Quiet(AwaitPlayer2RevealAndOpening, last) = 1
    /\ \A last : Quiet(ShowdownEvaluation, last) = Before(River) + 4
    /\ \A p, st, last : Quiet(Betting(p, st), last)
                        = Before(st) + (IF last = "Start" THEN 0 ELSE 1)
    /\ \A p, st, last : Quiet(AllIn(p, st), last) = Before(st) + 2
    /\ \A p, st, pass, last : Quiet(BoardReveal(p, st, pass), last) = Before(st - 1) + 1 + pass
    /\ \A p, pass, last : Quiet(ShowdownReveal(p, pass), last) = Before(River) + 1 + pass
    /\ \A p, st, last : Quiet(AllInReveal(p, st), last) = Before(st - 1) + 3
  BY DEF Quiet, Ph, AwaitPlayer1FundingAndReveal, AwaitPlayer2RevealAndOpening,
         ShowdownEvaluation, Betting, AllIn, BoardReveal, ShowdownReveal, AllInReveal

\* Seventeen moves at most are not raises below the cap.
LEMMA QuietRange ==
    ASSUME NEW ph \in Phases, NEW last
    PROVE  Quiet(ph, last) \in 0..(Before(River) + 4)
<1>1. ph.kind \in ActingKinds \/ ph \in {AwaitPlayer1FundingAndReveal,
                                         AwaitPlayer2RevealAndOpening, ShowdownEvaluation}
  BY PhaseShape
<1>2. CASE ph.kind \notin ActingKinds
  BY <1>1, <1>2, QuietPhases DEF Before, River
<1>3. CASE ph.kind \in {"Betting", "AllIn"}
  <2>1. ph.street \in 1..4
    BY <1>3, PhaseShape DEF PreFlop, River
  <2> QED BY <1>3, <2>1 DEF Quiet, Before, River
<1>4. CASE ph.kind \in {"BoardReveal", "AllInReveal", "ShowdownReveal"}
  <2>1. /\ ph.kind # "ShowdownReveal" => ph.street \in 2..4
        /\ ph.kind # "AllInReveal" => ph.pass \in 1..2
    BY <1>4, PhaseShape DEF Flop, River
  <2> QED BY <1>4, <2>1 DEF Quiet, Before, River
<1> QED BY <1>2, <1>3, <1>4 DEF ActingKinds

\* One player's wager in t is below the cap and tops both wagers of s by MinBet.
RaisesBelowCap(s, t) ==
    \E p \in Players :
        /\ t.wagers[p] < MaxWager
        /\ \A q \in Players : t.wagers[p] >= s.wagers[q] + MinBet

Advances(s, t) == Quiet(t.phase, t.last) >= Quiet(s.phase, s.last) + 1

LEMMA MatchAdvances ==
    ASSUME NEW s \in States, BettingHistory(s)
    PROVE  Advances(s, Matched(s))
<1> DEFINE p == s.phase.actor
           street == s.phase.street
<1>1. street \in 1..4 /\ s.phase.kind = "Betting"
  BY BettingShape DEF BettingHistory, PreFlop, River
<1>2. Quiet(s.phase, s.last) = Before(street) + (IF s.last = "Start" THEN 0 ELSE 1)
  BY <1>1 DEF Quiet
<1>3. CASE s.last = "Start"
  <2>1. Matched(s).phase = Betting(Other(p), street) /\ Matched(s).last = "Check"
    BY <1>3 DEF Matched, Successor
  <2> QED BY <1>1, <1>2, <1>3, <2>1, QuietPhases DEF Advances, Before
<1>4. CASE s.last # "Start"
  <2>1. Matched(s).phase = Closed(s)
    BY <1>4 DEF Matched, Successor
  <2>2. Quiet(Closed(s), Matched(s).last) = Before(street) + 2
    BY <1>1, QuietPhases DEF Closed, Before, River
  <2> QED BY <1>1, <1>2, <1>4, <2>1, <2>2 DEF Advances, Before
<1> QED BY <1>3, <1>4

LEMMA RaiseAdvances ==
    ASSUME NEW s \in States, BettingHistory(s), NEW target \in RaiseTargets(s)
    PROVE  LET t == Raised(s, target)
           IN \/ Advances(s, t)
              \/ RaisesBelowCap(s, t) /\ Quiet(t.phase, t.last) >= Quiet(s.phase, s.last)
<1> DEFINE p == s.phase.actor
           o == Other(p)
           street == s.phase.street
           t == Raised(s, target)
<1>1. street \in 1..4 /\ s.phase.kind = "Betting" /\ s.wagers \in [Players -> Nat]
  BY BettingShape DEF BettingHistory, PreFlop, River, States
<1>2. Quiet(s.phase, s.last) = Before(street) + (IF s.last = "Start" THEN 0 ELSE 1)
  BY <1>1 DEF Quiet
<1>3. Before(street) \in Nat
  BY <1>1 DEF Before
<1>4. t.last = "Raise" /\ t.wagers = [s.wagers EXCEPT ![p] = target]
  BY DEF Raised, Successor
<1>5. CASE target = MaxWager
  <2>1. t.phase = AllIn(o, street)
    BY <1>5 DEF Raised, Successor
  <2> QED BY <1>2, <1>3, <2>1, QuietPhases DEF Advances
<1>6. CASE target # MaxWager
  <2>1. t.phase = Betting(o, street)
    BY <1>6 DEF Raised, Successor
  <2>2. Quiet(t.phase, t.last) >= Quiet(s.phase, s.last)
    BY <1>2, <1>3, <1>4, <2>1, QuietPhases
  <2>3. /\ p \in Players /\ o \in Players /\ o # p /\ Mine(s) \in Nat /\ Theirs(s) \in Nat
        /\ s.wagers[p] = Mine(s) /\ s.wagers[o] = Theirs(s)
    BY BettingShape DEF BettingHistory, Mine, Theirs
  <2>4. Mine(s) <= Theirs(s) /\ MinimumRaise(s) \in Nat /\ MinimumRaise(s) >= MinBet
    <3>1. CASE s.last = "Raise"
      BY <2>3, <3>1, AmountsAssumption DEF BettingHistory, MinimumRaise
    <3>2. CASE s.last # "Raise"
      <4>1. Mine(s) = Theirs(s)
        BY <2>3, <3>2 DEF BettingHistory, EqualWagers, Players
      <4> QED BY <2>3, <3>2, <4>1, AmountsAssumption DEF MinimumRaise
    <3> QED BY <3>1, <3>2
  <2>5. target \in Nat /\ target < MaxWager /\ target - Theirs(s) >= MinimumRaise(s)
    BY <1>6, AmountsAssumption DEF RaiseTargets
  <2>6. t.wagers[p] = target
    BY <1>1, <1>4, <2>3
  <2>7. \A q \in Players : q = p \/ q = o
    BY <2>3 DEF Players
  <2>8. \A q \in Players : target >= s.wagers[q] + MinBet
    BY <2>3, <2>4, <2>5, <2>7, AmountsAssumption
  <2>9. RaisesBelowCap(s, t)
    <3> HIDE DEF t, p
    <3> QED BY <2>3, <2>5, <2>6, <2>8 DEF RaisesBelowCap
  <2> QED BY <2>2, <2>9
<1> QED BY <1>5, <1>6

\* Every move is one of the quiet ones, or a raise below the cap.
LEMMA MovesAdvance ==
    ASSUME NEW s \in States, NEW t, BuildLive(s, t)
    PROVE  \/ Advances(s, t)
           \/ RaisesBelowCap(s, t) /\ Quiet(t.phase, t.last) >= Quiet(s.phase, s.last)
<1>1. CASE BuildPlayer1Funding(s, t)
  <2>1. s.phase = AwaitPlayer1FundingAndReveal /\ t.phase = AwaitPlayer2RevealAndOpening
    BY <1>1 DEF BuildPlayer1Funding, InitialState, Successor
  <2> QED BY <2>1, QuietPhases DEF Advances
<1>2. CASE BuildPlayer2Opening(s, t)
  <2>1. s.phase = AwaitPlayer2RevealAndOpening /\ t.last # "Start"
        /\ t.phase \in {AllIn(1, PreFlop), Betting(1, PreFlop)}
    BY <1>2 DEF BuildPlayer2Opening, OpeningSuccessor, Successor
  <2> QED BY <2>1, QuietPhases DEF Advances, Before, PreFlop
<1>3. CASE BuildCheck(s, t) \/ BuildCall(s, t)
  BY <1>3, MatchAdvances DEF BuildCheck, BuildCall
<1>4. CASE BuildRaiseTo(s, t)
  BY <1>4, RaiseAdvances DEF BuildRaiseTo
<1> DEFINE p == s.phase.actor
           street == s.phase.street
<1>5. CASE BuildBoardReveal(s, t)
  <2>1. s.phase.kind = "BoardReveal" /\ street \in 2..4 /\ s.phase.pass \in 1..2
    BY <1>5, PhaseShape DEF BuildBoardReveal, States, Flop, River
  <2>2. /\ t.phase = IF s.phase.pass = 1 THEN BoardReveal(Other(p), street, 2)
                                         ELSE Betting(Other(p), street)
        /\ t.last = "Start"
    BY <1>5 DEF BuildBoardReveal, Successor, StartEqual
  <2>3. Quiet(s.phase, s.last) = Before(street - 1) + 1 + s.phase.pass
    BY <2>1 DEF Quiet
  <2> QED BY <2>1, <2>2, <2>3, QuietPhases DEF Advances, Before
<1>6. CASE BuildShowdownReveal(s, t)
  <2>1. s.phase.kind = "ShowdownReveal" /\ s.phase.pass \in 1..2
    BY <1>6, PhaseShape DEF BuildShowdownReveal, States
  <2>2. t.phase = IF s.phase.pass = 1 THEN ShowdownReveal(Other(p), 2) ELSE ShowdownEvaluation
    BY <1>6 DEF BuildShowdownReveal, Successor
  <2>3. Quiet(s.phase, s.last) = Before(River) + 1 + s.phase.pass
    BY <2>1 DEF Quiet
  <2> QED BY <2>1, <2>2, <2>3, QuietPhases DEF Advances, Before, River
<1>7. CASE BuildAllInCall(s, t)
  <2>1. s.phase.kind = "AllIn" /\ street \in 1..4
    BY <1>7, PhaseShape DEF BuildAllInCall, States, PreFlop, River
  <2>2. t.phase = IF street = River THEN ShowdownReveal(Other(p), 2)
                                    ELSE AllInReveal(Other(p), street + 1)
    BY <1>7 DEF BuildAllInCall, Successor
  <2>3. Quiet(s.phase, s.last) = Before(street) + 2
    BY <2>1 DEF Quiet
  <2> QED BY <2>1, <2>2, <2>3, QuietPhases DEF Advances, Before, River
<1>8. CASE BuildAllInReveal(s, t)
  <2>1. s.phase.kind = "AllInReveal" /\ street \in 2..4
    BY <1>8, PhaseShape DEF BuildAllInReveal, States, Flop, River
  <2>2. t.phase = ShowdownEvaluation
    BY <1>8 DEF BuildAllInReveal, Successor
  <2>3. Quiet(s.phase, s.last) = Before(street - 1) + 3
    BY <2>1 DEF Quiet
  <2> QED BY <2>1, <2>2, <2>3, QuietPhases DEF Advances, Before, River
<1> QED BY <1>1, <1>2, <1>3, <1>4, <1>5, <1>6, <1>7, <1>8 DEF BuildLive

\* A hand in state s can have seen r raises below the cap: they fit under a wager,
\* and with the quiet moves they account for the deadline.
Length(s, r) ==
    /\ r * MinBet < MaxWager
    /\ \E p \in Players : r * MinBet <= s.wagers[p]
    /\ s.deadline <= InitialDeadline + Interval * (Quiet(s.phase, s.last) + r)

LEMMA ProductGrows ==
    ASSUME NEW k \in Nat, NEW m \in Int, NEW n \in Int, m <= n
    PROVE  k * m <= k * n
  OBVIOUS

LEMMA LengthStep ==
    ASSUME NEW s \in States, NEW t, WithinCap(s), BuildLive(s, t), NEW r \in Nat, Length(s, r)
    PROVE  \E n \in Nat : Length(t, n)
<1> DEFINE p == RequiredActor(s.phase)
           m == Quiet(s.phase, s.last) + r
<1>1. p \in Players /\ Moves(p, s, t)
  BY MoverNotBehind
<1>2. t \in States /\ Other(p) \in Players /\ \A q \in Players : q = p \/ q = Other(p)
  BY <1>1 DEF Moves, Players, Other
<1>3. \A q \in Players : s.wagers[q] \in Nat /\ t.wagers[q] \in Nat
                         /\ t.wagers[q] >= s.wagers[q]
  BY <1>1, <1>2 DEF Moves, States
<1>4. r * MinBet \in Nat /\ (r + 1) * MinBet = r * MinBet + MinBet /\ MinBet \in Nat
  BY AmountsAssumption
<1>5. t.deadline = s.deadline + Interval
  BY DeadlineAdvance
<1>6. /\ Quiet(s.phase, s.last) \in Nat /\ Quiet(t.phase, t.last) \in Nat
      /\ s.deadline \in Nat /\ InitialDeadline \in Nat /\ Interval \in Nat
  BY <1>2, QuietRange, TimeAssumption DEF States, Before, River
<1>7. t.deadline <= InitialDeadline + Interval * (m + 1)
  <2>1. Interval * (m + 1) = Interval * m + Interval /\ Interval * m \in Nat
    BY <1>6
  <2> HIDE DEF m
  <2> QED BY <1>5, <1>6, <2>1 DEF Length, m
<1>8. CASE Advances(s, t)
  <2>1. Interval * (m + 1) <= Interval * (Quiet(t.phase, t.last) + r)
    BY <1>6, <1>8, ProductGrows DEF Advances
  <2>2. t.deadline <= InitialDeadline + Interval * (Quiet(t.phase, t.last) + r)
    <3>1. Interval * (m + 1) \in Nat /\ Interval * (Quiet(t.phase, t.last) + r) \in Nat
      BY <1>6
    <3> HIDE DEF m
    <3> QED BY <1>2, <1>6, <1>7, <2>1, <3>1 DEF States
  <2>3. \E q \in Players : r * MinBet <= t.wagers[q]
    BY <1>3, <1>4 DEF Length
  <2>4. Length(t, r)
    BY <2>2, <2>3 DEF Length
  <2> QED BY <2>4
<1>9. CASE RaisesBelowCap(s, t) /\ Quiet(t.phase, t.last) >= Quiet(s.phase, s.last)
  <2>1. Interval * (m + 1) <= Interval * (Quiet(t.phase, t.last) + (r + 1))
    BY <1>6, <1>9, ProductGrows
  <2>2. t.deadline <= InitialDeadline + Interval * (Quiet(t.phase, t.last) + (r + 1))
    <3>1. Interval * (m + 1) \in Nat /\ Interval * (Quiet(t.phase, t.last) + (r + 1)) \in Nat
      BY <1>6
    <3> HIDE DEF m
    <3> QED BY <1>2, <1>6, <1>7, <2>1, <3>1 DEF States
  <2>3. PICK q \in Players : r * MinBet <= s.wagers[q]
    BY DEF Length
  <2>4. PICK o \in Players : t.wagers[o] < MaxWager /\ t.wagers[o] >= s.wagers[q] + MinBet
    BY <1>9 DEF RaisesBelowCap
  <2>5. (r + 1) * MinBet <= t.wagers[o] /\ (r + 1) * MinBet < MaxWager
    BY <1>3, <1>4, <2>3, <2>4, AmountsAssumption
  <2>6. Length(t, r + 1) /\ r + 1 \in Nat
    BY <2>2, <2>5 DEF Length
  <2> QED BY <2>6
<1> QED BY <1>8, <1>9, MovesAdvance

LengthInv == IInv /\ \E r \in Nat : Length(state, r)

LEMMA LengthInvariant == Spec => []LengthInv
<1>1. Init => \E r \in Nat : Length(state, r)
  <2> SUFFICES ASSUME Init PROVE Length(state, 0)
    OBVIOUS
  <2>1. state = InitialState
    BY DEF Init
  <2>2. 0 * MinBet = 0 /\ Interval * (0 + 0) = 0 /\ 1 \in Players
    BY AmountsAssumption, TimeAssumption DEF Players
  <2> QED BY <2>1, <2>2, QuietPhases, AmountsAssumption, TimeAssumption
          DEF Length, InitialState, NoWagers
<1>2. IInv /\ (\E r \in Nat : Length(state, r)) /\ [Next]_vars
        => (\E r \in Nat : Length(state, r))'
  <2> SUFFICES ASSUME IInv, NEW r \in Nat, Length(state, r), [Next]_vars
               PROVE  \E n \in Nat : Length(state', n)
    OBVIOUS
  <2>1. CASE UNCHANGED state
    BY <2>1
  <2>2. CASE LiveStep
    BY <2>2, LiveStepBuilds, LengthStep DEF IInv, TypeOK, Books
  <2> QED BY <2>1, <2>2, StateChanges
<1> QED BY <1>1, <1>2, BooksBalance, PTL DEF Spec, LengthInv

\* Dividing undoes multiplying.
LEMMA QuotientBound ==
    ASSUME NEW r \in Nat, NEW b \in Nat \ {0}, NEW m \in Nat, r * b <= m
    PROVE  r <= m \div b /\ m \div b \in Nat
<1> DEFINE d == m \div b
<1>1. d \in Nat /\ m < (d + 1) * b
  OBVIOUS
<1>2. CASE r >= d + 1
  <2> HIDE DEF d
  <2>1. b * (d + 1) <= b * r
    BY <1>1, <1>2, ProductGrows
  <2> QED BY <1>1, <2>1
<1> QED BY <1>1, <1>2

\* Funds are never locked beyond a deadline that is known when the hand starts, for
\* every cap, minimum bet and interval.
THEOREM HandsEnd == Spec => []LifetimeBounded
<1>1. LengthInv => LifetimeBounded
  <2> SUFFICES ASSUME IInv, NEW r \in Nat, Length(state, r) PROVE LifetimeBounded
    BY DEF LengthInv
  <2> DEFINE q == Quiet(state.phase, state.last)
             most == Before(River) + 4 + MaxRaises
  <2>1. q \in 0..(Before(River) + 4) /\ Before(River) = 13 /\ state.deadline \in Nat
    BY QuietRange DEF IInv, TypeOK, States, Before, River
  <2>2. MaxWager - 1 \in Nat /\ MinBet \in Nat \ {0} /\ r * MinBet <= MaxWager - 1
    BY AmountsAssumption DEF Length
  <2>3. r <= MaxRaises /\ MaxRaises \in Nat
    BY <2>2, QuotientBound DEF MaxRaises
  <2>4. q + r <= most /\ most = 1 + 4 * 2 + MaxRaises + 3 * 2 + 2 /\ q + r \in Int /\ most \in Int
    BY <2>1, <2>3
  <2> HIDE DEF q, most
  <2>5. Interval * (q + r) <= Interval * most /\ Interval * (q + r) \in Int
        /\ Interval * most \in Int
    BY <2>4, TimeAssumption, ProductGrows
  <2>6. state.deadline <= InitialDeadline + Interval * (q + r)
    BY DEF Length, q
  <2> QED BY <2>1, <2>4, <2>5, <2>6, TimeAssumption DEF LifetimeBounded, LastDeadline
<1> QED BY <1>1, LengthInvariant, PTL

(***************************************************************************)
(* Promptness.                                                             *)
(***************************************************************************)
\* The history variable restricts no step of the covenant.
LEMMA TimedSteps == [TimedNext]_timedVars => [Next]_vars
  BY DEF TimedNext, timedVars, Next

\* The actor of a phase is a player, and the phase is not over.
LEMMA ObligedActor ==
    ASSUME NEW ph \in Phases, RequiredActor(ph) # 0
    PROVE  RequiredActor(ph) \in Players
  BY PhaseShape, Actors, ActingActor, Kinds DEF RequiredActor, Players, ActingKinds

\* What times are.
LEMMA Times ==
    ASSUME TypeOK, TimeInv
    PROVE  /\ clock \in Nat /\ state.deadline \in Nat /\ InitialDeadline \in Nat
           /\ Interval \in Nat /\ Interval > 0 /\ state \in States /\ state.phase \in Phases
           /\ \A p \in Players : idle[p] \in 0..Interval
  BY TimeAssumption, ClockAssumption DEF TypeOK, TimeInv, States

\* What a move leaves of the mover's waiting, and of the other's.
LEMMA ActedIs ==
    ASSUME Interval \in Nat, idle \in [Players -> 0..Interval], NEW p \in Players
    PROVE  /\ Acted(p) \in [Players -> 0..Interval]
           /\ Acted(p)[p] = IF idle[p] = Interval THEN Interval ELSE 0
           /\ \A r \in Players : r # p => Acted(p)[r] = idle[r]
<1> DEFINE v == IF idle[p] = Interval THEN Interval ELSE 0
<1>1. Acted(p) = [idle EXCEPT ![p] = v]
  BY Zenon DEF Acted, Dawdled
<1>2. v \in 0..Interval
  OBVIOUS
<1> HIDE DEF v
<1>3. /\ Acted(p) \in [Players -> 0..Interval] /\ Acted(p)[p] = v
      /\ \A r \in Players : r # p => Acted(p)[r] = idle[r]
  BY <1>1, <1>2
<1> QED BY <1>3 DEF v

LEMMA FundedIs ==
    ASSUME Interval \in Nat, idle \in [Players -> 0..Interval], NEW p \in Players
    PROVE  /\ Funded(p) \in [Players -> 0..Interval]
           /\ Funded(p)[p] = IF clock > InitialDeadline \/ idle[p] = Interval THEN Interval ELSE 0
           /\ \A r \in Players : r # p => Funded(p)[r] = idle[r]
<1>1. CASE clock > InitialDeadline
  BY <1>1 DEF Funded
<1>2. CASE ~(clock > InitialDeadline)
  BY <1>2, ActedIs DEF Funded
<1> QED BY <1>1, <1>2

LEMMA TickKeepsTime ==
    ASSUME IInv, TimeInv, Tick, idle' = Waited
    PROVE  TimeInv'
<1>1. UNCHANGED <<stage, state, value, contributed, received, settlement, winner>>
      /\ clock' = clock + 1
  BY DEF Tick
<1>2. /\ clock \in Nat /\ state.deadline \in Nat /\ Interval \in Nat /\ Interval > 0
      /\ state.phase \in Phases /\ \A p \in Players : idle[p] \in 0..Interval
  BY Times DEF IInv
<1>3. \A p \in Players : idle'[p] = IF idle[p] = Interval THEN Interval
                                    ELSE IF MayAct(p) THEN idle[p] + 1 ELSE 0
  BY DEF Waited, Dawdled
<1>4. idle' \in [Players -> 0..Interval]
  <2>1. \A p \in Players : idle'[p] \in 0..Interval
    BY <1>2, <1>3
  <2> QED BY <2>1 DEF Waited
<1>5. TimeIsKept'
  <2> DEFINE q == RequiredActor(state.phase)
             o == Other(q)
  <2>1. SUFFICES ASSUME stage = "live", q # 0
                 PROVE  /\ state.phase = AwaitPlayer1FundingAndReveal
                           \/ idle'[q] = Interval \/ clock' + Interval - state.deadline <= idle'[q]
                        /\ idle'[o] = Interval \/ clock' - state.deadline <= idle'[o]
    BY <1>1 DEF TimeIsKept, Dawdled
  <2>2. q \in Players /\ o \in Players
    BY <1>2, <2>1, ObligedActor, OtherPlayer
  <2>3. MayAct(q) /\ (clock >= state.deadline => MayAct(o))
    BY <2>1 DEF MayAct, CanTimeout
  <2>4. /\ state.phase = AwaitPlayer1FundingAndReveal
           \/ idle[q] = Interval \/ clock + Interval - state.deadline <= idle[q]
        /\ idle[o] = Interval \/ clock - state.deadline <= idle[o]
    BY <2>1 DEF TimeInv, TimeIsKept, Dawdled
  <2> HIDE DEF q, o
  <2>5. idle[q] \in 0..Interval /\ idle[o] \in 0..Interval
    BY <1>2, <2>2
  <2>6. idle'[q] = Interval \/ idle'[q] = idle[q] + 1
    BY <1>3, <2>2, <2>3
  <2>7. idle[q] = Interval => idle'[q] = Interval
    BY <1>3, <2>2
  <2>8. \/ idle'[o] = Interval
        \/ idle'[o] = idle[o] + 1
        \/ clock < state.deadline /\ idle'[o] = 0
    BY <1>2, <1>3, <2>2, <2>3
  <2>9. idle[o] = Interval => idle'[o] = Interval
    BY <1>3, <2>2
  <2> QED BY <1>1, <1>2, <2>4, <2>5, <2>6, <2>7, <2>8, <2>9
<1>6. PromptPlayersNeverForfeit'
  <2>1. ASSUME NEW p \in Players, Forfeited(p)' PROVE idle'[p] = Interval
    <3>1. idle[p] = Interval
      BY <1>1, <2>1 DEF TimeInv, PromptPlayersNeverForfeit, Forfeited, Dawdled
    <3> QED BY <1>3, <3>1
  <2> QED BY <2>1 DEF PromptPlayersNeverForfeit, Dawdled
<1> QED BY <1>4, <1>5, <1>6 DEF TimeInv

LEMMA DepositKeepsTime ==
    ASSUME RulesInv, TimeInv, InitialDeposit, idle' = Funded(2)
    PROVE  TimeInv'
<1>1. /\ clock' = clock /\ state' = state /\ settlement' = settlement
      /\ stage = "unfunded" /\ settlement = NoSettlement /\ state = InitialState
  BY DEF InitialDeposit, RulesInv, Undecided, IInv, Books
<1>2. /\ clock \in Nat /\ Interval \in Nat /\ Interval > 0 /\ InitialDeadline \in Nat
      /\ idle \in [Players -> 0..Interval] /\ \A p \in Players : idle[p] \in 0..Interval
  BY Times DEF RulesInv, IInv, TimeInv
<1>3. idle' \in [Players -> 0..Interval] /\ (clock > InitialDeadline => idle'[2] = Interval)
  BY <1>2, FundedIs DEF Players
<1>4. RequiredActor(state.phase) = 1 /\ state.phase = AwaitPlayer1FundingAndReveal
      /\ state.deadline = InitialDeadline /\ Other(1) = 2
  BY <1>1, Actors DEF InitialState, Other
<1>5. idle'[2] \in 0..Interval
  BY <1>3 DEF Players
<1>6. TimeIsKept'
  <2>1. idle'[2] = Interval \/ clock - InitialDeadline <= idle'[2]
    BY <1>2, <1>3, <1>5
  <2> QED BY <1>1, <1>4, <2>1 DEF TimeIsKept, Dawdled
<1>7. PromptPlayersNeverForfeit'
  BY <1>1 DEF PromptPlayersNeverForfeit, Forfeited, NoSettlement
<1> QED BY <1>3, <1>6, <1>7 DEF TimeInv

\* A live move hands the turn to a player who has not used more than it has waited.
LEMMA LiveKeepsTime ==
    ASSUME RulesInv, TimeInv, LiveStep,
           idle' = IF state.phase = AwaitPlayer1FundingAndReveal
                   THEN Funded(1) ELSE Acted(RequiredActor(state.phase))
    PROVE  TimeInv'
<1> DEFINE q == RequiredActor(state.phase)
           o == Other(q)
<1>1. BuildLive(state, state') /\ stage = "live" /\ UNCHANGED <<stage, clock, settlement>>
  BY LiveStepBuilds
     DEF LiveStep, Live, Player1Funding, Player2Opening, Check, Call, RaiseTo,
         RevealBoard, RevealShowdown, AllInCall, RevealAllIn
<1>2. /\ clock \in Nat /\ state.deadline \in Nat /\ Interval \in Nat /\ Interval > 0
      /\ InitialDeadline \in Nat /\ state \in States
      /\ idle \in [Players -> 0..Interval] /\ \A p \in Players : idle[p] \in 0..Interval
  BY Times DEF RulesInv, IInv, TimeInv
<1>3. q \in Players /\ state' \in States /\ state'.phase # AwaitPlayer1FundingAndReveal
  BY <1>1, <1>2, MoverNotBehind DEF Moves, RulesInv, IInv, Books
<1>4. o \in Players /\ o # q /\ Other(o) = q /\ q # 0
  BY <1>3, OtherPlayer DEF Players
<1>5. state'.deadline = state.deadline + Interval
  BY <1>1, DeadlineAdvance
<1>6. RequiredActor(state'.phase) = o \/ RequiredActor(state'.phase) = 0
  BY <1>1, TurnPasses DEF PassesTurn, RequiredActor, ShowdownEvaluation, Ph
<1>7. /\ state.phase = AwaitPlayer1FundingAndReveal
         \/ idle[q] = Interval \/ clock + Interval - state.deadline <= idle[q]
      /\ idle[o] = Interval \/ clock - state.deadline <= idle[o]
  BY <1>1, <1>4 DEF TimeInv, TimeIsKept, Dawdled
<1>8. state.phase = AwaitPlayer1FundingAndReveal => q = 1 /\ state.deadline = InitialDeadline
  <2>1. SUFFICES ASSUME state.phase = AwaitPlayer1FundingAndReveal
                 PROVE  state.deadline = InitialDeadline
    BY Actors
  <2> QED BY <1>1, <2>1 DEF RulesInv, IInv, Books, DepositOnly, InitialState
<1>9. /\ idle' \in [Players -> 0..Interval] /\ idle'[o] = idle[o]
      /\ idle'[q] = Interval \/ idle'[q] = 0
      /\ state.phase = AwaitPlayer1FundingAndReveal => idle'[q] = Interval \/ clock <= state.deadline
      /\ idle[q] = Interval => idle'[q] = Interval
  <2> HIDE DEF q, o
  <2>1. CASE state.phase = AwaitPlayer1FundingAndReveal
    <3>1. idle' = Funded(q) /\ state.deadline = InitialDeadline
      BY <1>8, <2>1
    <3>2. clock > state.deadline \/ clock <= state.deadline
      BY <1>2
    <3> QED BY <1>2, <1>3, <1>4, <3>1, <3>2, FundedIs
  <2>2. CASE state.phase # AwaitPlayer1FundingAndReveal
    <3>1. idle' = Acted(q)
      BY <2>2 DEF q
    <3> QED BY <1>2, <1>3, <1>4, <2>2, <3>1, ActedIs
  <2> QED BY <2>1, <2>2
<1>10. TimeIsKept'
  <2>1. SUFFICES ASSUME RequiredActor(state'.phase) = o
                 PROVE  /\ idle'[o] = Interval \/ clock + Interval - state'.deadline <= idle'[o]
                        /\ idle'[q] = Interval \/ clock - state'.deadline <= idle'[q]
    BY <1>1, <1>4, <1>6 DEF TimeIsKept, Dawdled
  <2> HIDE DEF q, o
  <2>2. idle[o] \in 0..Interval /\ idle[q] \in 0..Interval
    BY <1>2, <1>3, <1>4
  <2> QED BY <1>2, <1>5, <1>7, <1>9, <2>2
<1>11. PromptPlayersNeverForfeit'
  <2>1. settlement' = NoSettlement
    BY <1>1 DEF RulesInv, Undecided
  <2> QED BY <2>1 DEF PromptPlayersNeverForfeit, Forfeited, NoSettlement
<1> QED BY <1>9, <1>10, <1>11 DEF TimeInv

\* A timeout is claimed of a player who has let a whole interval pass, or has paid nothing.
LEMMA SettlingKeepsTime ==
    ASSUME RulesInv, TimeInv, TerminalStep, UNCHANGED idle
    PROVE  TimeInv'
<1>1. stage = "live" /\ stage' = "settled" /\ UNCHANGED <<state, contributed, clock>>
  BY DEF TerminalStep, Concession, Timeout, Showdown, Settle
<1>2. idle' \in [Players -> 0..Interval] /\ TimeIsKept'
  BY <1>1 DEF TimeInv, TimeIsKept
<1>3. CASE Concession \/ Showdown
  <2>1. settlement'.kind # "timeout"
    BY <1>3 DEF Concession, Showdown, Settle
  <2> QED BY <1>2, <2>1 DEF TimeInv, PromptPlayersNeverForfeit, Forfeited
<1>4. CASE Timeout
  <2> DEFINE q == RequiredActor(state.phase)
  <2>1. q # 0 /\ clock >= state.deadline /\ settlement'.winner = Other(q)
    BY <1>4 DEF Timeout, CanTimeout, Settle
  <2>2. /\ clock \in Nat /\ state.deadline \in Nat /\ Interval \in Nat /\ state.phase \in Phases
        /\ \A p \in Players : idle[p] \in 0..Interval
    BY Times DEF RulesInv, IInv
  <2>3. q \in Players
    BY <2>1, <2>2, ObligedActor
  <2>4. state.phase = AwaitPlayer1FundingAndReveal
        \/ idle[q] = Interval \/ clock + Interval - state.deadline <= idle[q]
    BY <1>1, <2>1 DEF TimeInv, TimeIsKept, Dawdled
  <2>5. state.phase = AwaitPlayer1FundingAndReveal => q = 1 /\ contributed[1] = 0
    BY <1>1, Actors DEF RulesInv, IInv, Books, DepositOnly
  <2>6. contributed[q] = 0 \/ idle[q] = Interval
    <3>1. idle[q] \in 0..Interval
      BY <2>2, <2>3
    <3>2. CASE state.phase = AwaitPlayer1FundingAndReveal
      BY <2>5, <3>2
    <3>3. CASE state.phase # AwaitPlayer1FundingAndReveal
      <4> HIDE DEF q
      <4> QED BY <2>1, <2>2, <2>4, <3>1, <3>3
    <3> QED BY <3>2, <3>3
  <2>7. ASSUME NEW p \in Players, Forfeited(p)' PROVE idle'[p] = Interval
    <3>1. Other(p) = Other(q) /\ contributed[p] > 0
      BY <1>1, <2>1, <2>7 DEF Forfeited
    <3>2. p = q
      BY <2>3, <3>1 DEF Other, Players
    <3> QED BY <2>6, <3>1, <3>2
  <2> QED BY <1>2, <2>7 DEF TimeInv, PromptPlayersNeverForfeit, Dawdled
<1> QED BY <1>3, <1>4 DEF TerminalStep

LEMMA StepKeepsTime ==
    ASSUME RulesInv, TimeInv, [TimedNext]_timedVars
    PROVE  TimeInv'
<1>1. CASE (Finished /\ UNCHANGED idle) \/ UNCHANGED timedVars
  BY <1>1 DEF Finished, vars, timedVars, TimeInv, TimeIsKept, PromptPlayersNeverForfeit,
              Forfeited, Dawdled
<1> QED BY <1>1, TickKeepsTime, DepositKeepsTime, LiveKeepsTime, SettlingKeepsTime
        DEF TimedNext, RulesInv

\* For all amounts and intervals, and however often the opponent moves late: whoever never
\* lets a whole interval pass while it may move or claim keeps its money from being forfeited.
THEOREM PromptnessPays == TimedSpec => []PromptPlayersNeverForfeit
<1>1. TimedSpec => Spec
  <2>1. TimedInit => Init
    BY DEF TimedInit
  <2> QED BY <2>1, TimedSteps, PTL DEF TimedSpec, Spec
<1>2. TimedInit => TimeInv
  <2> SUFFICES ASSUME TimedInit PROVE TimeInv
    OBVIOUS
  <2>1. idle \in [Players -> 0..Interval]
    BY TimeAssumption DEF TimedInit
  <2> QED BY <2>1 DEF TimedInit, Init, TimeInv, TimeIsKept, NoSettlement,
                      PromptPlayersNeverForfeit, Forfeited
<1>3. RulesInv /\ TimeInv /\ [TimedNext]_timedVars => TimeInv'
  BY StepKeepsTime
<1>4. TimeInv => PromptPlayersNeverForfeit
  BY DEF TimeInv
<1> QED BY <1>1, <1>2, <1>3, <1>4, RulesInvariant, PTL DEF TimedSpec

(***************************************************************************)
(* Agreement: on every output a covenant reaches the emulator's programs,  *)
(* the builders and the client's admission agree on every live transaction *)
(* and on every settlement of its value.                                   *)
(***************************************************************************)

(***************************************************************************)
(* Every state a hand reaches is one its obliged player's builder accepts. *)
(* The programs check much of this again, the client nearly nothing: they  *)
(* agree only because it is so.                                            *)
(***************************************************************************)
Ready(s) ==
    /\ s.phase.kind = "AwaitPlayer1FundingAndReveal" => s = InitialState
    /\ s.phase.kind = "AwaitPlayer2RevealAndOpening" => s.last = "Start" /\ s.wagers = NoWagers
    /\ s.phase.kind = "Betting" => BettingHistory(s)
    /\ s.phase.kind = "BoardReveal" => StartEqual(s) /\ s.wagers[1] < MaxWager
    /\ s.phase.kind = "ShowdownReveal" =>
          StartEqual(s) /\ (s.phase.pass = 1 => s.wagers[1] < MaxWager)
    /\ s.phase.kind = "AllIn" =>
          s.last = "Raise" /\ Theirs(s) = MaxWager /\ Mine(s) < MaxWager
    /\ s.phase.kind = "AllInReveal" => StartEqual(s) /\ s.wagers[1] = MaxWager
    /\ s.phase.kind = "ShowdownEvaluation" => StartEqual(s)

LEMMA Fields ==
    /\ \A p, st : Betting(p, st).actor = p /\ Betting(p, st).street = st
    /\ \A p, st : AllIn(p, st).actor = p /\ AllIn(p, st).street = st
    /\ \A p, st, pass : /\ BoardReveal(p, st, pass).actor = p
                        /\ BoardReveal(p, st, pass).street = st
                        /\ BoardReveal(p, st, pass).pass = pass
    /\ \A p, pass : ShowdownReveal(p, pass).actor = p /\ ShowdownReveal(p, pass).pass = pass
    /\ \A p, st : AllInReveal(p, st).actor = p /\ AllInReveal(p, st).street = st
  BY DEF Ph, Betting, AllIn, BoardReveal, ShowdownReveal, AllInReveal

LEMMA InitialReady == Ready(InitialState)
  BY Kinds DEF Ready, InitialState

LEMMA FundingReady ==
    ASSUME NEW s, NEW t, BuildPlayer1Funding(s, t)
    PROVE  Ready(t)
<1>1. t.phase = AwaitPlayer2RevealAndOpening /\ t.last = "Start" /\ t.wagers = NoWagers
  BY DEF BuildPlayer1Funding, InitialState, Successor
<1> QED BY <1>1, Kinds DEF Ready

LEMMA OpeningReady ==
    ASSUME NEW s, NEW t, BuildPlayer2Opening(s, t)
    PROVE  Ready(t)
<1>1. PICK bet \in OpeningBets : t = OpeningSuccessor(s, bet)
  BY DEF BuildPlayer2Opening
<1>2. bet \in Nat /\ bet <= MaxWager /\ (bet = 0 \/ bet >= MinBet)
  BY AmountsAssumption DEF OpeningBets
<1>3. t.wagers[1] = 0 /\ t.wagers[2] = bet
  BY <1>1 DEF BuildPlayer2Opening, OpeningSuccessor, Successor, NoWagers, Players
<1>4. t.last = IF bet = 0 THEN "Check" ELSE "Raise"
  BY <1>1 DEF OpeningSuccessor, Successor
<1>5. CASE bet = MaxWager
  <2>1. t.phase = AllIn(1, PreFlop)
    BY <1>1, <1>5 DEF OpeningSuccessor, Successor
  <2>2. Mine(t) = 0 /\ Theirs(t) = MaxWager
    BY <1>3, <1>5, <2>1, Fields DEF Mine, Theirs, Other
  <2> QED BY <1>4, <1>5, <2>1, <2>2, Kinds, AmountsAssumption DEF Ready
<1>6. CASE bet # MaxWager
  <2>1. t.phase = Betting(1, PreFlop)
    BY <1>1, <1>6 DEF OpeningSuccessor, Successor
  <2>2. Mine(t) = 0 /\ Theirs(t) = bet
    BY <1>3, <2>1, Fields DEF Mine, Theirs, Other
  <2>3. t.phase.kind = "Betting" /\ t.phase.actor = 1 /\ t.last # "Start"
    BY <1>4, <2>1, Kinds, Fields
  <2>4. IF t.last = "Raise" THEN Theirs(t) - Mine(t) >= MinBet ELSE EqualWagers(t)
    BY <1>2, <1>3, <1>4, <2>2, AmountsAssumption DEF EqualWagers
  <2>5. BettingHistory(t)
    BY <1>2, <1>6, <2>2, <2>3, <2>4, AmountsAssumption DEF BettingHistory
  <2> QED BY <2>3, <2>5 DEF Ready
<1> QED BY <1>5, <1>6

LEMMA MatchedReady ==
    ASSUME NEW s \in States, BettingHistory(s)
    PROVE  Ready(Matched(s))
<1> DEFINE p == s.phase.actor
           street == s.phase.street
           wagers == [s.wagers EXCEPT ![p] = Theirs(s)]
           t == Matched(s)
<1>1. p \in Players /\ Other(p) \in Players /\ Other(p) # p /\ Theirs(s) \in Nat
  BY BettingShape DEF BettingHistory
<1>2. t.wagers = wagers
  BY DEF Matched, Successor
<1>3. wagers[p] = Theirs(s) /\ wagers[Other(p)] = Theirs(s) /\ Theirs(s) < MaxWager
  BY <1>1 DEF States, Theirs, BettingHistory
<1>4. t.wagers[1] = Theirs(s) /\ t.wagers[2] = Theirs(s) /\ EqualWagers(t)
  BY <1>1, <1>2, <1>3 DEF Players, EqualWagers
<1>5. CASE s.last = "Start"
  <2>1. t.phase = Betting(Other(p), street) /\ t.last = "Check"
    BY <1>5 DEF Matched, Successor
  <2>2. t.phase.kind = "Betting" /\ t.phase.street # PreFlop
    BY <1>5, <2>1, Kinds, Fields DEF BettingHistory
  <2>3. Mine(t) = Theirs(s) /\ Theirs(t) = Theirs(s)
    BY <1>1, <1>4, <2>1, Fields, OtherPlayer DEF Mine, Theirs, Players
  <2>4. BettingHistory(t)
    BY <1>3, <1>4, <2>1, <2>2, <2>3 DEF BettingHistory
  <2> QED BY <2>2, <2>4 DEF Ready
<1>6. CASE s.last # "Start"
  <2>1. t.phase = Closed(s) /\ t.last = "Start"
    BY <1>6 DEF Matched, Successor
  <2>2. t.phase.kind = "BoardReveal" \/ t.phase.kind = "ShowdownReveal"
    BY <2>1, Kinds DEF Closed
  <2> QED BY <1>3, <1>4, <2>1, <2>2 DEF Ready, StartEqual
<1> QED BY <1>5, <1>6

LEMMA RaisedReady ==
    ASSUME NEW s \in States, BettingHistory(s), NEW target \in RaiseTargets(s)
    PROVE  Ready(Raised(s, target))
<1> DEFINE p == s.phase.actor
           street == s.phase.street
           wagers == [s.wagers EXCEPT ![p] = target]
           t == Raised(s, target)
<1>1. /\ p \in Players /\ Other(p) \in Players /\ Other(p) # p /\ Other(Other(p)) = p
      /\ Mine(s) \in Nat /\ Theirs(s) \in Nat
  BY BettingShape, OtherPlayer DEF BettingHistory
<1>2. t.wagers = wagers /\ t.last = "Raise"
  BY DEF Raised, Successor
<1>3. wagers[p] = target /\ wagers[Other(p)] = Theirs(s)
  BY <1>1 DEF States, Theirs
<1>4. /\ target \in Nat /\ target <= MaxWager /\ target > Theirs(s)
      /\ target = MaxWager \/ target - Theirs(s) >= MinimumRaise(s)
  BY AmountsAssumption DEF RaiseTargets
<1>5. Theirs(s) < MaxWager /\ MinimumRaise(s) >= MinBet
  BY AmountsAssumption DEF BettingHistory, MinimumRaise
<1>6. CASE target = MaxWager
  <2>1. t.phase = AllIn(Other(p), street)
    BY <1>6 DEF Raised, Successor
  <2>2. Mine(t) = Theirs(s) /\ Theirs(t) = MaxWager
    BY <1>1, <1>2, <1>3, <1>6, <2>1, Fields DEF Mine, Theirs
  <2> QED BY <1>2, <1>5, <2>1, <2>2, Kinds DEF Ready
<1>7. CASE target # MaxWager
  <2>1. t.phase = Betting(Other(p), street)
    BY <1>7 DEF Raised, Successor
  <2>2. Mine(t) = Theirs(s) /\ Theirs(t) = target
    BY <1>1, <1>2, <1>3, <2>1, Fields DEF Mine, Theirs
  <2>3. target < MaxWager /\ target - Theirs(s) >= MinBet
    <3>1. MinimumRaise(s) \in Int
      BY <1>1, AmountsAssumption DEF MinimumRaise
    <3> QED BY <1>1, <1>4, <1>5, <1>7, <3>1, AmountsAssumption
  <2>4. BettingHistory(t)
    BY <1>2, <1>5, <2>1, <2>2, <2>3, Kinds DEF BettingHistory
  <2> QED BY <2>1, <2>4, Kinds DEF Ready
<1> QED BY <1>6, <1>7

LEMMA BoardRevealReady ==
    ASSUME NEW s \in States, NEW t, Ready(s), BuildBoardReveal(s, t)
    PROVE  Ready(t)
<1> DEFINE p == s.phase.actor
           street == s.phase.street
<1>1. p \in Players /\ Other(p) \in Players /\ street \in Flop..River /\ s.phase.pass \in 1..2
  BY PhaseShape, OtherPlayer DEF States, BuildBoardReveal, ActingKinds
<1>2. /\ t.wagers = s.wagers /\ t.last = "Start" /\ StartEqual(t)
      /\ t.wagers[1] < MaxWager /\ t.wagers[1] = t.wagers[2]
  BY DEF BuildBoardReveal, Successor, StartEqual, EqualWagers
<1>3. CASE s.phase.pass = 1
  <2>1. t.phase = BoardReveal(Other(p), street, 2)
    BY <1>3 DEF BuildBoardReveal, Successor
  <2> QED BY <1>2, <2>1, Kinds DEF Ready
<1>4. CASE s.phase.pass = 2
  <2>1. t.phase = Betting(Other(p), street)
    BY <1>4 DEF BuildBoardReveal, Successor
  <2>2. t.phase.kind = "Betting" /\ t.phase.street # PreFlop
    BY <1>1, <2>1, Kinds, Fields DEF PreFlop, Flop, River
  <2>3. Mine(t) = t.wagers[1] /\ Theirs(t) = t.wagers[1]
    BY <1>1, <1>2, <2>1, Fields, OtherPlayer DEF Mine, Theirs, Players
  <2>4. BettingHistory(t)
    BY <1>2, <2>2, <2>3 DEF BettingHistory, StartEqual
  <2> QED BY <2>2, <2>4 DEF Ready
<1> QED BY <1>1, <1>3, <1>4

LEMMA LateRevealReady ==
    ASSUME NEW s \in States, NEW t, Ready(s), BuildShowdownReveal(s, t) \/ BuildAllInReveal(s, t)
    PROVE  Ready(t)
<1>1. StartEqual(t)
  BY DEF BuildShowdownReveal, BuildAllInReveal, Successor, StartEqual, EqualWagers
<1>2. t.phase = ShowdownEvaluation \/ t.phase = ShowdownReveal(Other(s.phase.actor), 2)
  BY DEF BuildShowdownReveal, BuildAllInReveal, Successor
<1> QED BY <1>1, <1>2, Kinds, Fields DEF Ready

LEMMA AllInCallReady ==
    ASSUME NEW s \in States, NEW t, BuildAllInCall(s, t)
    PROVE  Ready(t)
<1> DEFINE q == Other(s.phase.actor)
<1>1. t.last = "Start" /\ t.wagers = [r \in Players |-> MaxWager]
  BY DEF BuildAllInCall, Successor
<1>2. StartEqual(t) /\ t.wagers[1] = MaxWager
  BY <1>1 DEF StartEqual, EqualWagers, Players
<1>3. t.phase = ShowdownReveal(q, 2) \/ t.phase = AllInReveal(q, s.phase.street + 1)
  BY DEF BuildAllInCall, Successor
<1> QED BY <1>2, <1>3, Kinds, Fields DEF Ready

LEMMA LiveReady ==
    ASSUME NEW s \in States, NEW t, Ready(s), BuildLive(s, t)
    PROVE  Ready(t)
<1>1. CASE BuildCheck(s, t) \/ BuildCall(s, t)
  BY <1>1, MatchedReady DEF BuildCheck, BuildCall
<1>2. CASE BuildRaiseTo(s, t)
  BY <1>2, RaisedReady DEF BuildRaiseTo
<1> QED BY <1>1, <1>2, FundingReady, OpeningReady, BoardRevealReady, LateRevealReady,
           AllInCallReady DEF BuildLive

LEMMA ReadyInvariant == Spec => []Ready(state)
<1>1. Init => Ready(state)
  BY InitialReady DEF Init
<1>2. TypeOK /\ Ready(state) /\ [Next]_vars => Ready(state)'
  <2> SUFFICES ASSUME TypeOK, Ready(state), [Next]_vars PROVE Ready(state')
    OBVIOUS
  <2>1. CASE LiveStep
    BY <2>1, LiveStepBuilds, LiveReady DEF TypeOK
  <2>2. CASE UNCHANGED state
    BY <2>2
  <2> QED BY <2>1, <2>2, StateChanges
<1> QED BY <1>1, <1>2, TypeCorrect, PTL DEF Spec

\* What every covenant output satisfies: its state s and its value v.
Output(s, v) ==
    /\ s \in States /\ WithinCap(s) /\ Ready(s)
    /\ s.reveals = PublishedAt(s.phase)
    /\ v = IF s.phase = AwaitPlayer1FundingAndReveal THEN DepositValue ELSE LiveValue(s)

LEMMA Outputs == Spec => [](InPlay => Output(state, value))
<1>1. IInv /\ Ready(state) /\ RevealsMatchPhase => (InPlay => Output(state, value))
  BY DEF IInv, TypeOK, Books, DepositOnly, Joint, RevealsMatchPhase, InPlay, Output
<1> QED BY <1>1, BooksBalance, ReadyInvariant, RevealsFollowPhases, PTL

(***************************************************************************)
(* Packet bytes.  A phase is read back from its byte, so a program that    *)
(* compares bytes compares phases.                                         *)
(***************************************************************************)
LEMMA Bytes ==
    /\ PhaseByte(AwaitPlayer1FundingAndReveal) = 0
    /\ PhaseByte(AwaitPlayer2RevealAndOpening) = 1
    /\ PhaseByte(ShowdownEvaluation) = 26
    /\ \A p, st : PhaseByte(Betting(p, st)) = 2 + 2 * (st - PreFlop) + (p - 1)
    /\ \A p, st : PhaseByte(AllIn(p, st)) = 28 + 2 * (st - PreFlop) + (p - 1)
    /\ \A p, st, pass : PhaseByte(BoardReveal(p, st, pass))
                           = 10 + 4 * (st - Flop) + 2 * (pass - 1) + (p - 1)
    /\ \A p, pass : PhaseByte(ShowdownReveal(p, pass)) = 22 + 2 * (pass - 1) + (p - 1)
    /\ \A p, st : PhaseByte(AllInReveal(p, st)) = 36 + 2 * (st - Flop) + (p - 1)
  BY DEF PhaseByte, Ph, AwaitPlayer1FundingAndReveal, AwaitPlayer2RevealAndOpening,
         ShowdownEvaluation, Betting, AllIn, BoardReveal, ShowdownReveal, AllInReveal

\* The phases are the forms that bytes are given for.
LEMMA PhaseCases ==
    ASSUME NEW ph \in Phases
    PROVE  \/ ph = AwaitPlayer1FundingAndReveal
           \/ ph = AwaitPlayer2RevealAndOpening
           \/ ph = ShowdownEvaluation
           \/ \E p \in Players, st \in PreFlop..River : ph = Betting(p, st) \/ ph = AllIn(p, st)
           \/ \E p \in Players, st \in Flop..River, pass \in 1..2 : ph = BoardReveal(p, st, pass)
           \/ \E p \in Players, pass \in 1..2 : ph = ShowdownReveal(p, pass)
           \/ \E p \in Players, st \in Flop..River : ph = AllInReveal(p, st)
  BY DEF Phases

LEMMA PhaseIsItsByte ==
    ASSUME NEW ph \in Phases
    PROVE  PhaseByte(ph) \in 0..41 /\ DecodePhase(PhaseByte(ph)) = ph
<1> USE DEF Players, PreFlop, Flop, River
<1>1. CASE ph \in {AwaitPlayer1FundingAndReveal, AwaitPlayer2RevealAndOpening, ShowdownEvaluation}
  BY <1>1, Bytes DEF DecodePhase
<1>2. ASSUME NEW p \in Players, NEW st \in PreFlop..River, ph = Betting(p, st)
      PROVE  PhaseByte(ph) \in 0..41 /\ DecodePhase(PhaseByte(ph)) = ph
  <2> DEFINE b == 2 + 2 * (st - PreFlop) + (p - 1)
  <2>1. b \in 2..9 /\ 1 + (b % 2) = p /\ PreFlop + (b - 2) \div 2 = st
    OBVIOUS
  <2>2. PhaseByte(ph) = b
    BY <1>2, Bytes
  <2>3. b \notin {0, 1, 26} \cup 10..25
    BY <2>1
  <2> HIDE DEF b
  <2> QED BY <1>2, <2>1, <2>2, <2>3 DEF DecodePhase
<1>3. ASSUME NEW p \in Players, NEW st \in PreFlop..River, ph = AllIn(p, st)
      PROVE  PhaseByte(ph) \in 0..41 /\ DecodePhase(PhaseByte(ph)) = ph
  <2> DEFINE b == 28 + 2 * (st - PreFlop) + (p - 1)
  <2>1. b \in 28..35 /\ 1 + (b % 2) = p /\ PreFlop + (b - 28) \div 2 = st
    OBVIOUS
  <2>2. PhaseByte(ph) = b
    BY <1>3, Bytes
  <2> HIDE DEF b
  <2> QED BY <1>3, <2>1, <2>2 DEF DecodePhase
<1>4. ASSUME NEW p \in Players, NEW st \in Flop..River, NEW pass \in 1..2,
             ph = BoardReveal(p, st, pass)
      PROVE  PhaseByte(ph) \in 0..41 /\ DecodePhase(PhaseByte(ph)) = ph
  <2> DEFINE b == 10 + 4 * (st - Flop) + 2 * (pass - 1) + (p - 1)
  <2>1. /\ b \in 10..21 /\ 1 + (b % 2) = p
        /\ Flop + (b - 10) \div 4 = st /\ 1 + ((b - 10) % 4) \div 2 = pass
    OBVIOUS
  <2>2. PhaseByte(ph) = b
    BY <1>4, Bytes
  <2> HIDE DEF b
  <2> QED BY <1>4, <2>1, <2>2 DEF DecodePhase
<1>5. ASSUME NEW p \in Players, NEW pass \in 1..2, ph = ShowdownReveal(p, pass)
      PROVE  PhaseByte(ph) \in 0..41 /\ DecodePhase(PhaseByte(ph)) = ph
  <2> DEFINE b == 22 + 2 * (pass - 1) + (p - 1)
  <2>1. b \in 22..25 /\ 1 + (b % 2) = p /\ 1 + (b - 22) \div 2 = pass
    OBVIOUS
  <2>2. PhaseByte(ph) = b
    BY <1>5, Bytes
  <2> HIDE DEF b
  <2> QED BY <1>5, <2>1, <2>2 DEF DecodePhase
<1>6. ASSUME NEW p \in Players, NEW st \in Flop..River, ph = AllInReveal(p, st)
      PROVE  PhaseByte(ph) \in 0..41 /\ DecodePhase(PhaseByte(ph)) = ph
  <2> DEFINE b == 36 + 2 * (st - Flop) + (p - 1)
  <2>1. b \in 36..41 /\ 1 + (b % 2) = p /\ Flop + (b - 36) \div 2 = st
    OBVIOUS
  <2>2. PhaseByte(ph) = b
    BY <1>6, Bytes
  <2> HIDE DEF b
  <2> QED BY <1>6, <2>1, <2>2 DEF DecodePhase
<1> QED BY <1>1, <1>2, <1>3, <1>4, <1>5, <1>6, PhaseCases

LEMMA SameByte ==
    ASSUME NEW a \in Phases, NEW b \in Phases, PhaseByte(a) = PhaseByte(b)
    PROVE  a = b
  BY PhaseIsItsByte

LEMMA ActionBytes ==
    \A last \in LastActions :
        /\ ActionByte(last) = 0 <=> last = "Start"
        /\ ActionByte(last) = 1 <=> last = "Check"
        /\ ActionByte(last) = 2 <=> last = "Raise"
        /\ ActionByte(last) \in 0..2
  BY DEF LastActions, ActionByte

(***************************************************************************)
(* Which output a program serves.                                          *)
(***************************************************************************)
LEMMA ServedByFunding ==
    ASSUME NEW s, NEW v, NEW tx, ScriptPlayer1Funding(s, v, tx)
    PROVE  s.phase = AwaitPlayer1FundingAndReveal
  BY DEF ScriptPlayer1Funding, InitialState

LEMMA ServedByOpening ==
    ASSUME NEW s \in States, NEW v, NEW tx, ScriptPlayer2Opening(s, v, tx)
    PROVE  s.phase = AwaitPlayer2RevealAndOpening
  BY Bytes, SameByte, PhaseRange DEF States, ScriptPlayer2Opening

LEMMA ServedByBetting ==
    ASSUME NEW s \in States, NEW v, NEW tx, NEW p \in Players, NEW street \in PreFlop..River,
           ScriptBetting(street, p, s, v, tx)
    PROVE  s.phase = Betting(p, street)
<1>1. PhaseByte(s.phase) = 2 + 2 * (street - PreFlop) + (p - 1)
  BY DEF ScriptBetting
<1> QED BY <1>1, Bytes, SameByte, PhaseRange DEF States

LEMMA ServedByAllInCall ==
    ASSUME NEW s \in States, NEW v, NEW tx, NEW p \in Players, NEW street \in PreFlop..River,
           ScriptAllInCall(street, p, s, v, tx)
    PROVE  s.phase = AllIn(p, street)
<1>1. PhaseByte(s.phase) = 28 + 2 * (street - PreFlop) + (p - 1)
  BY DEF ScriptAllInCall
<1> QED BY <1>1, Bytes, SameByte, PhaseRange DEF States

LEMMA ServedByAllInReveal ==
    ASSUME NEW s \in States, NEW v, NEW tx, NEW p \in Players, NEW street \in Flop..River,
           ScriptAllInReveal(street, p, s, v, tx)
    PROVE  s.phase = AllInReveal(p, street)
<1>1. PhaseByte(s.phase) = 36 + 2 * (street - Flop) + (p - 1)
  BY DEF ScriptAllInReveal
<1> QED BY <1>1, Bytes, SameByte, PhaseRange DEF States

LEMMA ServedByBoardReveal ==
    ASSUME NEW s \in States, NEW v, NEW tx, NEW p \in Players, NEW street \in Flop..River,
           ScriptBoardReveal(street, p, s, v, tx)
    PROVE  \E pass \in 1..2 : s.phase = BoardReveal(p, street, pass)
<1> DEFINE delta == PhaseByte(s.phase) - ((10 + 4 * (street - Flop)) + (p - 1))
<1>1. PhaseByte(s.phase) \in Int /\ s.phase \in Phases
  BY PhaseIsItsByte DEF States
<1>2. delta = 0 \/ delta = 2
  BY DEF ScriptBoardReveal
<1>3. PICK pass \in 1..2 : PhaseByte(s.phase) = 10 + 4 * (street - Flop) + 2 * (pass - 1) + (p - 1)
  <2>1. CASE delta = 0
    BY <1>1, <2>1 DEF Players, Flop, River
  <2>2. CASE delta = 2
    BY <1>1, <2>2 DEF Players, Flop, River
  <2> QED BY <1>2, <2>1, <2>2
<1>4. PhaseByte(s.phase) = PhaseByte(BoardReveal(p, street, pass))
  BY <1>3, Bytes
<1> QED BY <1>1, <1>4, SameByte, PhaseRange

LEMMA ServedByShowdownReveal ==
    ASSUME NEW s \in States, NEW v, NEW tx, NEW p \in Players, ScriptShowdownReveal(p, s, v, tx)
    PROVE  \E pass \in 1..2 : s.phase = ShowdownReveal(p, pass)
<1> DEFINE delta == PhaseByte(s.phase) - (22 + (p - 1))
<1>1. PhaseByte(s.phase) \in Int /\ s.phase \in Phases
  BY PhaseIsItsByte DEF States
<1>2. delta = 0 \/ delta = 2
  BY DEF ScriptShowdownReveal
<1>3. PICK pass \in 1..2 : PhaseByte(s.phase) = 22 + 2 * (pass - 1) + (p - 1)
  <2>1. CASE delta = 0
    BY <1>1, <2>1 DEF Players
  <2>2. CASE delta = 2
    BY <1>1, <2>2 DEF Players
  <2> QED BY <1>2, <2>1, <2>2
<1>4. PhaseByte(s.phase) = PhaseByte(ShowdownReveal(p, pass))
  BY <1>3, Bytes
<1> QED BY <1>1, <1>4, SameByte, PhaseRange

\* A program that accepts is the one of the phase, the street and the obliged player.
Program(s, v, tx) ==
    LET p == s.phase.actor
        street == s.phase.street
    IN CASE s.phase.kind = "AwaitPlayer1FundingAndReveal" -> ScriptPlayer1Funding(s, v, tx)
         [] s.phase.kind = "AwaitPlayer2RevealAndOpening" -> ScriptPlayer2Opening(s, v, tx)
         [] s.phase.kind = "Betting" -> ScriptBetting(street, p, s, v, tx)
         [] s.phase.kind = "BoardReveal" -> ScriptBoardReveal(street, p, s, v, tx)
         [] s.phase.kind = "ShowdownReveal" -> ScriptShowdownReveal(p, s, v, tx)
         [] s.phase.kind = "AllIn" -> ScriptAllInCall(street, p, s, v, tx)
         [] s.phase.kind = "AllInReveal" -> ScriptAllInReveal(street, p, s, v, tx)
         [] OTHER -> FALSE

LEMMA OneProgram ==
    ASSUME NEW s \in States, NEW v, NEW tx, NEW p \in Players
    PROVE  ScriptAdmits(p, s, v, tx) <=> p = RequiredActor(s.phase) /\ Program(s, v, tx)
<1>1. ASSUME ScriptAdmits(p, s, v, tx)
      PROVE  p = RequiredActor(s.phase) /\ Program(s, v, tx)
  <2>1. CASE p = 1 /\ ScriptPlayer1Funding(s, v, tx)
    BY <2>1, ServedByFunding, Actors, Kinds DEF Program
  <2>2. CASE p = 2 /\ ScriptPlayer2Opening(s, v, tx)
    BY <2>2, ServedByOpening, Actors, Kinds DEF Program
  <2>3. CASE ScriptShowdownReveal(p, s, v, tx)
    BY <2>3, ServedByShowdownReveal, Actors, Kinds, Fields DEF Program
  <2>4. ASSUME NEW street \in PreFlop..River,
               ScriptBetting(street, p, s, v, tx) \/ ScriptAllInCall(street, p, s, v, tx)
        PROVE  p = RequiredActor(s.phase) /\ Program(s, v, tx)
    BY <2>4, ServedByBetting, ServedByAllInCall, Actors, Kinds, Fields DEF Program
  <2>5. ASSUME NEW street \in Flop..River,
               ScriptBoardReveal(street, p, s, v, tx) \/ ScriptAllInReveal(street, p, s, v, tx)
        PROVE  p = RequiredActor(s.phase) /\ Program(s, v, tx)
    BY <2>5, ServedByBoardReveal, ServedByAllInReveal, Actors, Kinds, Fields DEF Program
  <2> QED BY <1>1, <2>1, <2>2, <2>3, <2>4, <2>5 DEF ScriptAdmits
<1>2. ASSUME p = RequiredActor(s.phase), Program(s, v, tx)
      PROVE  ScriptAdmits(p, s, v, tx)
  <2>1. s.phase \in Phases
    BY DEF States
  <2>2. s.phase.kind \in ActingKinds => p = s.phase.actor
    BY <1>2, ActingActor
  <2> QED BY <1>2, <2>1, <2>2, PhaseShape, Actors, Kinds
          DEF Program, ScriptAdmits, ActingKinds, RequiredActor
<1> QED BY <1>1, <1>2

(***************************************************************************)
(* A proposed successor, field by field.                                   *)
(***************************************************************************)
Transactions == [post : States, out : Int, funded : BOOLEAN]

LEMMA SuccessorIs ==
    ASSUME NEW s \in States, NEW t \in States, NEW phase, NEW last, NEW wagers, NEW slots
    PROVE  t = Successor(s, phase, last, wagers, slots) <=>
              /\ t.phase = phase /\ t.last = last /\ t.wagers = wagers
              /\ t.deadline = s.deadline + Interval /\ t.reveals = s.reveals \cup slots
  BY DEF Successor, States

LEMMA RevealsAre ==
    ASSUME NEW s, NEW tx, NEW slots
    PROVE  Reveals(s, tx, slots) <=> tx.post.reveals = s.reveals \cup slots
  BY DEF Reveals

(***************************************************************************)
(* Programs and builders, phase by phase.                                  *)
(***************************************************************************)
\* tx is what a builder makes of the output with state s and value v.
Builds(s, v, tx) ==
    /\ BuildLive(s, tx.post)
    /\ tx.out = LiveValue(tx.post)
    /\ tx.funded = (tx.out > v)

\* Each phase has its own builder.
LEMMA OneBuilder ==
    ASSUME NEW s, NEW t, BuildLive(s, t)
    PROVE  CASE s.phase.kind = "AwaitPlayer1FundingAndReveal" -> BuildPlayer1Funding(s, t)
             [] s.phase.kind = "AwaitPlayer2RevealAndOpening" -> BuildPlayer2Opening(s, t)
             [] s.phase.kind = "Betting" ->
                   BuildCheck(s, t) \/ BuildCall(s, t) \/ BuildRaiseTo(s, t)
             [] s.phase.kind = "BoardReveal" -> BuildBoardReveal(s, t)
             [] s.phase.kind = "ShowdownReveal" -> BuildShowdownReveal(s, t)
             [] s.phase.kind = "AllIn" -> BuildAllInCall(s, t)
             [] s.phase.kind = "AllInReveal" -> BuildAllInReveal(s, t)
             [] OTHER -> FALSE
<1>1. BuildPlayer1Funding(s, t) => s.phase.kind = "AwaitPlayer1FundingAndReveal"
  BY Kinds DEF BuildPlayer1Funding, InitialState
<1>2. BuildPlayer2Opening(s, t) => s.phase.kind = "AwaitPlayer2RevealAndOpening"
  BY Kinds DEF BuildPlayer2Opening
<1>3. BuildCheck(s, t) \/ BuildCall(s, t) \/ BuildRaiseTo(s, t) => s.phase.kind = "Betting"
  BY DEF BuildCheck, BuildCall, BuildRaiseTo, BettingHistory
<1>4. /\ BuildBoardReveal(s, t) => s.phase.kind = "BoardReveal"
      /\ BuildShowdownReveal(s, t) => s.phase.kind = "ShowdownReveal"
      /\ BuildAllInCall(s, t) => s.phase.kind = "AllIn"
      /\ BuildAllInReveal(s, t) => s.phase.kind = "AllInReveal"
  BY DEF BuildBoardReveal, BuildShowdownReveal, BuildAllInCall, BuildAllInReveal
<1> QED BY <1>1, <1>2, <1>3, <1>4 DEF BuildLive

\* The facts about an output and a proposal that every phase needs.
LEMMA OutputFacts ==
    ASSUME NEW s, NEW v, Output(s, v), NEW tx \in Transactions
    PROVE  /\ s \in States /\ s.phase \in Phases /\ s.last \in LastActions
           /\ s.wagers \in [Players -> Nat] /\ s.wagers[1] \in Nat /\ s.wagers[2] \in Nat
           /\ s.wagers[1] <= MaxWager /\ s.wagers[2] <= MaxWager
           /\ tx.post \in States /\ tx.post.phase \in Phases /\ tx.post.last \in LastActions
           /\ tx.post.wagers \in [Players -> Nat]
           /\ tx.post.wagers[1] \in Nat /\ tx.post.wagers[2] \in Nat
           /\ tx.out \in Int /\ tx.funded \in BOOLEAN
           /\ s.phase.kind # "AwaitPlayer1FundingAndReveal" =>
                 v = 2 * (Stake + Bond) + s.wagers[1] + s.wagers[2] /\ v \in Nat
<1>1. 1 \in Players /\ 2 \in Players
  BY DEF Players
<1>2. /\ s \in States /\ s.phase \in Phases /\ s.last \in LastActions
      /\ s.wagers \in [Players -> Nat] /\ WithinCap(s)
  BY DEF Output, States
<1>3. tx.post \in States /\ tx.out \in Int /\ tx.funded \in BOOLEAN
  BY DEF Transactions
<1>4. /\ tx.post.phase \in Phases /\ tx.post.last \in LastActions
      /\ tx.post.wagers \in [Players -> Nat]
  BY <1>3 DEF States
<1>5. s.phase.kind # "AwaitPlayer1FundingAndReveal" => v = LiveValue(s)
  BY Kinds DEF Output
<1> QED BY <1>1, <1>2, <1>3, <1>4, <1>5, AmountsAssumption DEF WithinCap, LiveValue

LEMMA FundingAgrees ==
    ASSUME NEW s, NEW v, Output(s, v), NEW tx \in Transactions,
           s.phase = AwaitPlayer1FundingAndReveal
    PROVE  ScriptPlayer1Funding(s, v, tx) <=> Builds(s, v, tx)
<1> DEFINE t == tx.post
<1>1. s = InitialState /\ v = Half /\ s \in States
  BY Kinds DEF Output, Ready, DepositValue, Half
<1>2. /\ t \in States /\ t.phase \in Phases /\ tx.out \in Int /\ tx.funded \in BOOLEAN
      /\ s.wagers = NoWagers
  BY <1>1, OutputFacts DEF InitialState
<1>3. OpponentHoleSlots(1) = {2, 3}
  BY DEF OpponentHoleSlots
<1>4. PhaseByte(t.phase) = 1 <=> t.phase = AwaitPlayer2RevealAndOpening
  BY <1>2, Bytes, SameByte, PhaseRange
<1> DEFINE Follows == t = Successor(s, AwaitPlayer2RevealAndOpening, s.last, s.wagers, {2, 3})
<1>5. Follows <=> /\ t.phase = AwaitPlayer2RevealAndOpening /\ t.last = s.last
                  /\ t.wagers = s.wagers /\ t.deadline = s.deadline + Interval
                  /\ Reveals(s, tx, {2, 3})
  BY <1>1, <1>2, SuccessorIs, RevealsAre
<1>6. BuildLive(s, t) <=> Follows
  BY <1>1, <1>3, OneBuilder, Kinds DEF BuildLive, BuildPlayer1Funding
<1>7. Follows => LiveValue(t) = Total /\ Total > v
  <2>1. SUFFICES ASSUME Follows PROVE LiveValue(t) = Total /\ Total > v
    OBVIOUS
  <2>2. t.wagers[1] = 0 /\ t.wagers[2] = 0
    BY <1>2, <1>5, <2>1 DEF NoWagers, Players
  <2> QED BY <1>1, <2>2, AmountsAssumption DEF LiveValue, Total, Half
<1> HIDE DEF Follows, t
<1>8. Builds(s, v, tx) <=> Follows /\ tx.out = Total /\ tx.funded
  BY <1>2, <1>6, <1>7 DEF Builds, t
<1>9. ScriptPlayer1Funding(s, v, tx) <=> Follows /\ tx.out = Total /\ tx.funded
  BY <1>1, <1>4, <1>5 DEF ScriptPlayer1Funding, SamePrefixWagers, DeadlineAdvances, t
<1> QED BY <1>8, <1>9

LEMMA OpeningAgrees ==
    ASSUME NEW s, NEW v, Output(s, v), NEW tx \in Transactions,
           s.phase = AwaitPlayer2RevealAndOpening
    PROVE  ScriptPlayer2Opening(s, v, tx) <=> Builds(s, v, tx)
<1> DEFINE t == tx.post
           b == t.wagers[2]
           phase(n) == IF n = MaxWager THEN AllIn(1, PreFlop) ELSE Betting(1, PreFlop)
           last(n) == IF n = 0 THEN "Check" ELSE "Raise"
<1>1. s.last = "Start" /\ s.wagers = NoWagers /\ s.wagers[1] = 0 /\ s.wagers[2] = 0
  BY Kinds DEF Output, Ready, NoWagers, Players
<1>2. /\ s \in States /\ t \in States /\ t.phase \in Phases /\ t.last \in LastActions
      /\ t.wagers \in [Players -> Nat] /\ b \in Nat /\ t.wagers[1] \in Nat
      /\ tx.out \in Int /\ tx.funded \in BOOLEAN /\ v = Total
  BY <1>1, OutputFacts, Kinds, AmountsAssumption DEF Total, Half
<1>3. OpponentHoleSlots(2) = {0, 1} /\ 1 \in Players /\ 2 \in Players /\ Other(2) = 1
  BY DEF OpponentHoleSlots, Players, Other
<1>4. \A n : phase(n) \in Phases /\ PhaseByte(phase(n)) = (IF n = MaxWager THEN 26 ELSE 0) + 2
  <2>1. PreFlop \in PreFlop..River
    BY DEF PreFlop, River
  <2> QED BY <1>3, <2>1, Bytes, PhaseRange DEF PreFlop
<1>5. PhaseByte(t.phase) = (IF b = MaxWager THEN 26 ELSE 0) + 2 <=> t.phase = phase(b)
  BY <1>2, <1>4, SameByte
<1>6. ActionByte(t.last) = (IF b > 0 THEN 1 ELSE 0) + 1 <=> t.last = last(b)
  BY <1>2, ActionBytes
<1> DEFINE Follows(n) == t = Successor(s, phase(n), last(n), [s.wagers EXCEPT ![2] = n], {0, 1})
<1>7. ASSUME NEW n \in Nat
      PROVE  Follows(n) <=> /\ t.phase = phase(n) /\ t.last = last(n)
                            /\ b = n /\ t.wagers[1] = 0
                            /\ DeadlineAdvances(s, tx) /\ Reveals(s, tx, {0, 1})
  <2>1. t.wagers = [s.wagers EXCEPT ![2] = n] <=> b = n /\ t.wagers[1] = 0
    <3>1. s.wagers \in [Players -> Nat]
      BY <1>2 DEF States
    <3>2. t.wagers = [s.wagers EXCEPT ![2] = n] <=>
             t.wagers[2] = n /\ t.wagers[Other(2)] = s.wagers[Other(2)]
      BY <1>2, <1>3, <3>1, SMT DEF Players
    <3> QED BY <1>1, <1>3, <3>2
  <2> HIDE DEF phase, last
  <2> QED BY <1>2, <2>1, SuccessorIs, RevealsAre DEF DeadlineAdvances
<1>8. BuildLive(s, t) <=> \E n \in OpeningBets : Follows(n)
  <2>1. \A n : Follows(n) <=> t = OpeningSuccessor(s, n)
    BY <1>3 DEF OpeningSuccessor
  <2>2. BuildLive(s, t) <=> BuildPlayer2Opening(s, t)
    BY OneBuilder, Kinds DEF BuildLive
  <2> HIDE DEF Follows
  <2> QED BY <1>1, <2>1, <2>2 DEF BuildPlayer2Opening
<1>9. OpeningBets \subseteq Nat /\ (b \in OpeningBets <=> b <= MaxWager /\ (b = 0 \/ b >= MinBet))
  BY <1>2, AmountsAssumption DEF OpeningBets
<1>10. (\E n \in OpeningBets : Follows(n)) <=> b \in OpeningBets /\ Follows(b)
  <2>1. ASSUME NEW n \in OpeningBets, Follows(n) PROVE n = b
    BY <1>7, <1>9, <2>1
  <2> HIDE DEF Follows
  <2> QED BY <2>1
<1>11. Follows(b) => LiveValue(t) = Total + b
  <2>1. Follows(b) => t.wagers[1] = 0
    BY <1>2, <1>7
  <2> HIDE DEF Follows
  <2> QED BY <1>2, <2>1, AmountsAssumption DEF LiveValue, Total, Half
<1>12. Total \in Nat
  BY AmountsAssumption DEF Total, Half
<1>13. (Total + b > v) <=> b > 0
  BY <1>2, <1>12
<1>14. Builds(s, v, tx) <=>
          b \in OpeningBets /\ Follows(b) /\ tx.out = Total + b /\ tx.funded = (b > 0)
  <2> HIDE DEF Follows, b
  <2>1. Builds(s, v, tx) <=>
           b \in OpeningBets /\ Follows(b) /\ tx.out = LiveValue(t) /\ tx.funded = (tx.out > v)
    BY <1>8, <1>10 DEF Builds
  <2> QED BY <1>11, <1>13, <2>1
<1>15. Follows(b) <=> /\ t.phase = phase(b) /\ t.last = last(b) /\ t.wagers[1] = 0
                      /\ DeadlineAdvances(s, tx) /\ Reveals(s, tx, {0, 1})
  BY <1>2, <1>7
<1>16. PhaseByte(s.phase) = 1
  BY Bytes
<1> HIDE DEF Follows, phase, last
<1> QED BY <1>1, <1>2, <1>5, <1>6, <1>9, <1>14, <1>15, <1>16 DEF ScriptPlayer2Opening

(***************************************************************************)
(* Betting.                                                                *)
(***************************************************************************)
\* Where a player's move to the wager n leads.
Answer(s, n) ==
    IF n = Theirs(s)
    THEN IF s.last = "Start" THEN Betting(Other(s.phase.actor), s.phase.street) ELSE Closed(s)
    ELSE IF n = MaxWager THEN AllIn(Other(s.phase.actor), s.phase.street)
                         ELSE Betting(Other(s.phase.actor), s.phase.street)
AnswerLast(s, n) ==
    IF n = Theirs(s) THEN IF s.last = "Start" THEN "Check" ELSE "Start" ELSE "Raise"

\* A legal wager matches the opponent's or raises it by enough.
MayMove(s, n) == n = Theirs(s) \/ n \in RaiseTargets(s)

\* What betting builds, by the wager it leads to.
LEMMA BettingBuilds ==
    ASSUME NEW s \in States, NEW t, BettingHistory(s)
    PROVE  BuildLive(s, t) <=>
              \E n \in Nat :
                  /\ MayMove(s, n)
                  /\ t = Successor(s, Answer(s, n), AnswerLast(s, n),
                                   [s.wagers EXCEPT ![s.phase.actor] = n], {})
<1> DEFINE Follows(n) == t = Successor(s, Answer(s, n), AnswerLast(s, n),
                                       [s.wagers EXCEPT ![s.phase.actor] = n], {})
<1>1. Theirs(s) \in Nat /\ RaiseTargets(s) \subseteq Nat /\ Theirs(s) \notin RaiseTargets(s)
  BY BettingShape, AmountsAssumption DEF BettingHistory, RaiseTargets
<1>2. BuildLive(s, t) <=> BuildCheck(s, t) \/ BuildCall(s, t) \/ BuildRaiseTo(s, t)
  BY OneBuilder DEF BuildLive, BettingHistory
<1>3. Follows(Theirs(s)) <=> t = Matched(s)
  BY DEF Matched, Answer, AnswerLast
<1>4. ASSUME NEW n \in RaiseTargets(s) PROVE Follows(n) <=> t = Raised(s, n)
  BY <1>1 DEF Raised, Answer, AnswerLast
<1>5. BuildCheck(s, t) \/ BuildCall(s, t) <=> Follows(Theirs(s))
  BY <1>3 DEF BuildCheck, BuildCall
<1>6. BuildRaiseTo(s, t) <=> \E n \in RaiseTargets(s) : Follows(n)
  <2> HIDE DEF Follows
  <2> QED BY <1>4 DEF BuildRaiseTo
<1> HIDE DEF Follows
<1>7. BuildLive(s, t) <=> \E n \in Nat : MayMove(s, n) /\ Follows(n)
  BY <1>1, <1>2, <1>5, <1>6 DEF MayMove
<1> QED BY <1>7 DEF Follows

LEMMA AnswerBytes ==
    ASSUME NEW s \in States, s.phase.kind = "Betting", NEW n \in Nat
    PROVE  LET player == s.phase.actor - 1
               betting == 2 + 2 * (s.phase.street - PreFlop)
               closing == 10 + 4 * (s.phase.street - PreFlop)
           IN /\ Answer(s, n) \in Phases
              /\ PhaseByte(Answer(s, n)) =
                    IF n = Theirs(s)
                    THEN IF s.last = "Start" THEN betting + 1 - player ELSE closing + 1 - player
                    ELSE betting + 1 - player + (IF n = MaxWager THEN 26 ELSE 0)
<1> DEFINE p == s.phase.actor
           q == Other(p)
           street == s.phase.street
           betting == 2 + 2 * (street - PreFlop)
           closing == 10 + 4 * (street - PreFlop)
<1>1. p \in Players /\ q \in Players /\ q - 1 = 1 - (p - 1) /\ street \in PreFlop..River
      /\ p \in Int /\ street \in Int
  BY BettingShape DEF Players, Other, PreFlop, River
<1>2. /\ Betting(q, street) \in Phases /\ PhaseByte(Betting(q, street)) = betting + 1 - (p - 1)
      /\ AllIn(q, street) \in Phases
      /\ PhaseByte(AllIn(q, street)) = betting + 1 - (p - 1) + 26
  <2>1. /\ PhaseByte(Betting(q, street)) = 2 + 2 * (street - PreFlop) + (q - 1)
        /\ PhaseByte(AllIn(q, street)) = 28 + 2 * (street - PreFlop) + (q - 1)
    BY Bytes
  <2> QED BY <1>1, <2>1, PhaseRange DEF PreFlop
<1>3. Closed(s) \in Phases /\ PhaseByte(Closed(s)) = closing + 1 - (p - 1)
  <2>1. CASE street = River
    <3>1. PhaseByte(ShowdownReveal(q, 1)) = 22 + 2 * (1 - 1) + (q - 1)
      BY Bytes
    <3> QED BY <1>1, <2>1, <3>1, PhaseRange DEF Closed, PreFlop, River
  <2>2. CASE street # River
    <3>1. PhaseByte(BoardReveal(q, street + 1, 1))
             = 10 + 4 * ((street + 1) - Flop) + 2 * (1 - 1) + (q - 1)
      BY Bytes
    <3>2. street + 1 \in Flop..River
      BY <1>1, <2>2 DEF PreFlop, Flop, River
    <3>3. BoardReveal(q, street + 1, 1) \in Phases
      BY <1>1, <3>2, PhaseRange
    <3> QED BY <1>1, <2>2, <3>1, <3>3 DEF Closed, PreFlop, Flop, River
  <2> QED BY <2>1, <2>2
<1>4. betting \in Int /\ p \in Int
  BY <1>1 DEF PreFlop
<1>5. /\ Answer(s, n) \in Phases
      /\ PhaseByte(Answer(s, n)) =
            IF n = Theirs(s)
            THEN IF s.last = "Start" THEN betting + 1 - (p - 1) ELSE closing + 1 - (p - 1)
            ELSE betting + 1 - (p - 1) + (IF n = MaxWager THEN 26 ELSE 0)
  <2> HIDE DEF betting, closing
  <2>1. CASE n = Theirs(s)
    BY <1>2, <1>3, <2>1 DEF Answer
  <2>2. CASE n # Theirs(s) /\ n = MaxWager
    BY <1>2, <2>2 DEF Answer
  <2>3. CASE n # Theirs(s) /\ n # MaxWager
    BY <1>2, <1>4, <2>3 DEF Answer
  <2> QED BY <2>1, <2>2, <2>3
<1> QED BY <1>5

LEMMA BettingAgrees ==
    ASSUME NEW s, NEW v, Output(s, v), NEW tx \in Transactions, s.phase.kind = "Betting"
    PROVE  ScriptBetting(s.phase.street, s.phase.actor, s, v, tx) <=> Builds(s, v, tx)
<1> DEFINE t == tx.post
           p == s.phase.actor
           street == s.phase.street
           a == Mine(s)
           o == Theirs(s)
           n == t.wagers[p]
           player == p - 1
           betting == 2 + 2 * (street - PreFlop)
           closing == 10 + 4 * (street - PreFlop)
           leastAction == IF street = PreFlop THEN 1 + player ELSE 0
           l == ActionByte(s.last)
           increment == IF l = 2 THEN o - a ELSE MinBet
           next == IF n = o
                   THEN IF l = 0 THEN <<betting + 1 - player, 1>>
                                 ELSE <<closing + 1 - player, 0>>
                   ELSE <<betting + 1 - player + (IF n = MaxWager THEN 26 ELSE 0), 2>>
<1>1. BettingHistory(s) /\ s \in States /\ t \in States
  BY OutputFacts DEF Output, Ready
<1>2. /\ p \in Players /\ Other(p) \in Players /\ Other(p) # p
      /\ street \in PreFlop..River /\ a \in Nat /\ o \in Nat
  BY <1>1, BettingShape
<1>3. /\ t.wagers \in [Players -> Nat] /\ s.wagers \in [Players -> Nat]
      /\ t.phase \in Phases /\ t.last \in LastActions /\ s.last \in LastActions
      /\ tx.out \in Int /\ tx.funded \in BOOLEAN
  BY OutputFacts
<1>4. n \in Nat /\ a = s.wagers[p] /\ o = s.wagers[Other(p)]
  BY <1>2, <1>3 DEF Mine, Theirs
<1>5. /\ a < MaxWager /\ o < MaxWager /\ a <= o
      /\ IF s.last = "Raise" THEN o - a >= MinBet ELSE a = o
  <2>1. EqualWagers(s) => a = o
    BY <1>2, <1>4 DEF EqualWagers, Players
  <2> QED BY <1>1, <1>2, <2>1, AmountsAssumption DEF BettingHistory
<1>6. l >= leastAction /\ (IF l = 2 THEN o - a >= MinBet ELSE a = o)
  <2>1. street = PreFlop => s.last # "Start" /\ ~(p = 2 /\ s.last = "Check")
    BY <1>1 DEF BettingHistory
  <2> QED BY <1>2, <1>3, <1>5, <2>1, ActionBytes DEF Players
<1>7. v = a + o + Total /\ Total \in Nat
  <2>1. v = 2 * (Stake + Bond) + s.wagers[1] + s.wagers[2]
    BY OutputFacts
  <2> QED BY <1>2, <1>3, <1>4, <2>1, AmountsAssumption DEF Total, Half, Players
<1> DEFINE Follows(m) == t = Successor(s, Answer(s, m), AnswerLast(s, m),
                                       [s.wagers EXCEPT ![p] = m], {})
<1>8. ASSUME NEW m \in Nat
      PROVE  Follows(m) <=> /\ t.phase = Answer(s, m) /\ t.last = AnswerLast(s, m)
                            /\ n = m /\ t.wagers[Other(p)] = o
                            /\ DeadlineAdvances(s, tx) /\ Reveals(s, tx, {})
  <2>1. t.wagers = [s.wagers EXCEPT ![p] = m] <=>
           t.wagers[p] = m /\ t.wagers[Other(p)] = s.wagers[Other(p)]
    BY <1>2, <1>3, SMT DEF Players
  <2> QED BY <1>1, <1>4, <2>1, SuccessorIs, RevealsAre DEF DeadlineAdvances
<1> HIDE DEF Follows
<1>9. BuildLive(s, t) <=> MayMove(s, n) /\ Follows(n)
  <2>1. BuildLive(s, t) <=> \E m \in Nat : MayMove(s, m) /\ Follows(m)
    BY <1>1, BettingBuilds DEF Follows
  <2> QED BY <1>4, <1>8, <2>1
<1>10. Follows(n) => LiveValue(t) = n + o + Total
  <2>1. SUFFICES ASSUME Follows(n) PROVE LiveValue(t) = n + o + Total
    OBVIOUS
  <2>2. t.wagers[p] = n /\ t.wagers[Other(p)] = o
    BY <1>4, <1>8, <2>1
  <2>3. t.wagers[1] + t.wagers[2] = n + o /\ t.wagers[1] \in Nat /\ t.wagers[2] \in Nat
    BY <1>2, <1>3, <2>2 DEF Players
  <2> QED BY <1>2, <1>4, <2>3, AmountsAssumption DEF LiveValue, Total, Half
<1>11. (n + o + Total > v) <=> n > a
  BY <1>2, <1>4, <1>7
<1>12. Builds(s, v, tx) <=> /\ MayMove(s, n) /\ Follows(n)
                            /\ tx.out = n + o + Total /\ tx.funded = (n > a)
  BY <1>9, <1>10, <1>11 DEF Builds
<1>13. MayMove(s, n) <=> /\ n >= a /\ n <= MaxWager
                         /\ n # o => n > o /\ (n - o >= increment \/ n = MaxWager)
  <2>1. increment = MinimumRaise(s)
    BY <1>3, ActionBytes DEF MinimumRaise
  <2>2. n \in RaiseTargets(s) <=> /\ n <= MaxWager /\ n > a /\ n > o
                                  /\ n = MaxWager \/ n - o >= MinimumRaise(s)
    BY <1>4, AmountsAssumption DEF RaiseTargets
  <2>3. MaxWager \in Nat
    BY AmountsAssumption
  <2> HIDE DEF a, o, n, increment
  <2> QED BY <1>2, <1>4, <1>5, <2>1, <2>2, <2>3 DEF MayMove, o
<1>14. ActionByte(t.last) = next[2] <=> t.last = AnswerLast(s, n)
  <2>1. next[2] = IF n = o THEN IF s.last = "Start" THEN 1 ELSE 0 ELSE 2
    BY <1>3, ActionBytes
  <2> HIDE DEF next
  <2> QED BY <1>3, <2>1, ActionBytes DEF AnswerLast
<1>15. PhaseByte(t.phase) = next[1] <=> t.phase = Answer(s, n)
  <2>1. next[1] = IF n = o
                  THEN IF s.last = "Start" THEN betting + 1 - player ELSE closing + 1 - player
                  ELSE betting + 1 - player + (IF n = MaxWager THEN 26 ELSE 0)
    BY <1>3, ActionBytes
  <2>2. Answer(s, n) \in Phases /\ PhaseByte(Answer(s, n)) = next[1]
    BY <1>1, <1>4, <2>1, AnswerBytes
  <2> HIDE DEF next
  <2> QED BY <1>3, <2>2, SameByte
<1>16. PhaseByte(s.phase) = betting + player
  <2>1. s.phase = Betting(p, street)
    BY <1>1, PhaseForms DEF States
  <2> QED BY <2>1, Bytes
<1>17. ScriptBetting(street, p, s, v, tx) <=>
          /\ PhaseByte(s.phase) = betting + player
          /\ t.wagers[Other(p)] = o
          /\ DeadlineAdvances(s, tx)
          /\ l >= leastAction
          /\ a < MaxWager /\ o < MaxWager
          /\ IF l = 2 THEN o - a >= MinBet ELSE a = o
          /\ n >= a /\ n <= MaxWager
          /\ (n > a) = tx.funded
          /\ v = a + o + Total /\ tx.out = n + o + Total
          /\ n # o => n > o /\ (n - o >= increment \/ n = MaxWager)
          /\ ActionByte(t.last) = next[2] /\ PhaseByte(t.phase) = next[1]
          /\ Reveals(s, tx, {})
  BY <1>4 DEF ScriptBetting
<1> HIDE DEF next, increment, leastAction, l, betting, closing, player, n, a, o, street, p, t
<1>18. Follows(n) <=> /\ t.phase = Answer(s, n) /\ t.last = AnswerLast(s, n)
                      /\ t.wagers[Other(p)] = o
                      /\ DeadlineAdvances(s, tx) /\ Reveals(s, tx, {})
  BY <1>4, <1>8
<1>19. (n > a) \in BOOLEAN
  BY <1>4
<1>20. ScriptBetting(street, p, s, v, tx) <=> Builds(s, v, tx)
  BY <1>3, <1>5, <1>6, <1>7, <1>12, <1>13, <1>14, <1>15, <1>16, <1>17, <1>18, <1>19
<1> QED BY <1>20 DEF street, p

(***************************************************************************)
(* Reveals.                                                                *)
(***************************************************************************)
\* A move that pays nothing.
LEMMA QuietMove ==
    ASSUME NEW s, NEW v, Output(s, v), NEW tx \in Transactions, NEW ph, NEW slots,
           s.phase.kind # "AwaitPlayer1FundingAndReveal", s.last = "Start",
           BuildLive(s, tx.post) <=> tx.post = Successor(s, ph, s.last, s.wagers, slots)
    PROVE  Builds(s, v, tx) <=>
              /\ ~tx.funded /\ tx.out = v
              /\ tx.post.phase = ph /\ tx.post.last = "Start" /\ SamePrefixWagers(s, tx)
              /\ DeadlineAdvances(s, tx) /\ Reveals(s, tx, slots)
<1> DEFINE t == tx.post
           Follows == t = Successor(s, ph, s.last, s.wagers, slots)
<1>1. s \in States /\ t \in States /\ tx.out \in Int /\ tx.funded \in BOOLEAN
  BY OutputFacts
<1>2. Follows <=> /\ t.phase = ph /\ t.last = "Start" /\ SamePrefixWagers(s, tx)
                  /\ DeadlineAdvances(s, tx) /\ Reveals(s, tx, slots)
  BY <1>1, SuccessorIs, RevealsAre DEF SamePrefixWagers, DeadlineAdvances
<1>3. v = LiveValue(s) /\ v \in Nat
  BY OutputFacts, Kinds DEF Output
<1>4. Follows => LiveValue(t) = v
  BY <1>2, <1>3 DEF LiveValue, SamePrefixWagers
<1> HIDE DEF Follows, t
<1>5. BuildLive(s, t) <=> Follows
  BY DEF Follows, t
<1>6. Builds(s, v, tx) <=> Follows /\ tx.out = v /\ tx.funded = (tx.out > v)
  BY <1>4, <1>5 DEF Builds, t
<1>7. tx.out = v => ~(tx.out > v)
  BY <1>3
<1> QED BY <1>1, <1>2, <1>6, <1>7 DEF t

\* Level wagers are named by either of them, and make an even value.
LEMMA LevelValue ==
    ASSUME NEW s, NEW v, Output(s, v), EqualWagers(s),
           s.phase.kind # "AwaitPlayer1FundingAndReveal"
    PROVE  s.wagers[2] = s.wagers[1] /\ v = 2 * (s.wagers[1] + Half)
<1>1. v = LiveValue(s) /\ s.wagers[1] = s.wagers[2] /\ s.wagers[1] \in Nat
  BY Kinds DEF Output, EqualWagers, States, Players
<1> QED BY <1>1, AmountsAssumption DEF LiveValue, Half

LEMMA StreetCards ==
    ASSUME NEW p \in Players, NEW street \in Flop..River
    PROVE  LET count == IF street = Flop THEN 3 ELSE 1
               firstSlot == (IF street = Flop THEN 4 ELSE IF street = Turn THEN 10 ELSE 12)
                            + (p - 1) * count
           IN firstSlot..(firstSlot + count - 1) = BoardSlots(p, street)
<1>1. /\ 4..6 = {4, 5, 6} /\ 7..9 = {7, 8, 9}
      /\ 10..10 = {10} /\ 11..11 = {11} /\ 12..12 = {12} /\ 13..13 = {13}
  OBVIOUS
<1>2. street \in {Flop, Turn, River} /\ p \in {1, 2}
  BY DEF Players, Flop, Turn, River
<1>3. CASE p = 1 /\ street = Flop
  BY <1>1, <1>3, BoardSlotsOf
<1>4. CASE p = 2 /\ street = Flop
  BY <1>1, <1>4, BoardSlotsOf
<1>5. CASE p = 1 /\ street = Turn
  BY <1>1, <1>5, BoardSlotsOf DEF Flop, Turn
<1>6. CASE p = 2 /\ street = Turn
  BY <1>1, <1>6, BoardSlotsOf DEF Flop, Turn
<1>7. CASE p = 1 /\ street = River
  BY <1>1, <1>7, BoardSlotsOf DEF Flop, Turn, River
<1>8. CASE p = 2 /\ street = River
  BY <1>1, <1>8, BoardSlotsOf DEF Flop, Turn, River
<1> QED BY <1>2, <1>3, <1>4, <1>5, <1>6, <1>7, <1>8

LEMMA RemainingOf ==
    ASSUME NEW p \in Players
    PROVE  /\ RemainingSlots(p, River + 1) = OwnHoleSlots(p)
           /\ RemainingSlots(p, River) = OwnHoleSlots(p) \cup BoardSlots(p, River)
           /\ RemainingSlots(p, Turn)
                 = OwnHoleSlots(p) \cup BoardSlots(p, Turn) \cup BoardSlots(p, River)
           /\ RemainingSlots(p, Flop)
                 = OwnHoleSlots(p) \cup BoardSlots(p, Flop) \cup BoardSlots(p, Turn)
                   \cup BoardSlots(p, River)
<1>1. /\ River..River = {River} /\ Turn..River = {Turn, River}
      /\ Flop..River = {Flop, Turn, River}
  BY DEF Flop, Turn, River
<1> QED BY <1>1, RemainingStarts DEF RemainingSlots

LEMMA CardsOwed ==
    ASSUME NEW p \in Players, NEW street \in PreFlop..River
    PROVE  RemainingCards(street, p) = RemainingSlots(p, street + 1)
<1>1. street \in {PreFlop, Flop, Turn, River} /\ p \in {1, 2}
  BY DEF Players, PreFlop, Flop, Turn, River
<1>2. 4..6 = {4, 5, 6} /\ 7..9 = {7, 8, 9}
  OBVIOUS
<1>3. /\ OwnHoleSlots(p) = {14 + 2 * (p - 1), 15 + 2 * (p - 1)}
      /\ BoardSlots(p, Turn) = {10 + (p - 1)} /\ BoardSlots(p, River) = {12 + (p - 1)}
      /\ BoardSlots(p, Flop) = (4 + 3 * (p - 1))..(6 + 3 * (p - 1))
  <2>1. CASE p = 1
    BY <1>2, <2>1, BoardSlotsOf, AllSlots
  <2>2. CASE p = 2
    BY <1>2, <2>2, BoardSlotsOf, AllSlots
  <2> QED BY <1>1, <2>1, <2>2
<1>4. CASE street = PreFlop
  <2>1. RemainingCards(street, p) = (4 + 3 * (p - 1))..(6 + 3 * (p - 1)) \cup {10 + (p - 1)}
           \cup {12 + (p - 1)} \cup {14 + 2 * (p - 1), 15 + 2 * (p - 1)}
    BY <1>4 DEF RemainingCards, PreFlop, Flop, River
  <2>2. street + 1 = Flop
    BY <1>4 DEF PreFlop, Flop
  <2> QED BY <1>3, <2>1, <2>2, RemainingOf
<1>5. CASE street = Flop
  <2>1. RemainingCards(street, p) = {10 + (p - 1)} \cup {12 + (p - 1)}
                                       \cup {14 + 2 * (p - 1), 15 + 2 * (p - 1)}
    BY <1>5 DEF RemainingCards, PreFlop, Flop, River
  <2>2. street + 1 = Turn
    BY <1>5 DEF Turn, Flop
  <2> QED BY <1>3, <2>1, <2>2, RemainingOf
<1>6. CASE street = Turn
  <2>1. RemainingCards(street, p) = {12 + (p - 1)} \cup {14 + 2 * (p - 1), 15 + 2 * (p - 1)}
    BY <1>6 DEF RemainingCards, PreFlop, Flop, Turn, River
  <2>2. street + 1 = River
    BY <1>6 DEF Turn, River
  <2> QED BY <1>3, <2>1, <2>2, RemainingOf
<1>7. CASE street = River
  <2>1. RemainingCards(street, p) = {14 + 2 * (p - 1), 15 + 2 * (p - 1)}
    BY <1>7 DEF RemainingCards, PreFlop, Flop, Turn, River
  <2> QED BY <1>3, <1>7, <2>1, RemainingOf
<1> QED BY <1>1, <1>4, <1>5, <1>6, <1>7

LEMMA BoardRevealAgrees ==
    ASSUME NEW s, NEW v, Output(s, v), NEW tx \in Transactions, s.phase.kind = "BoardReveal"
    PROVE  ScriptBoardReveal(s.phase.street, s.phase.actor, s, v, tx) <=> Builds(s, v, tx)
<1> DEFINE t == tx.post
           p == s.phase.actor
           street == s.phase.street
           pass == s.phase.pass
           ph == IF pass = 1 THEN BoardReveal(Other(p), street, 2) ELSE Betting(Other(p), street)
           w == s.wagers[1]
           player == p - 1
           firstPhase == 10 + 4 * (street - Flop)
           delta == PhaseByte(s.phase) - (firstPhase + player)
           nextFirst == firstPhase + 2 + 1 - player
           nextSecond == 4 + 2 * (street - Flop) + 1 - player
           count == IF street = Flop THEN 3 ELSE 1
           firstSlot == (IF street = Flop THEN 4 ELSE IF street = Turn THEN 10 ELSE 12)
                        + player * count
<1>1. /\ p \in Players /\ Other(p) \in Players /\ Other(p) - 1 = 1 - player /\ pass \in 1..2
      /\ street \in Flop..River /\ street \in PreFlop..River
      /\ s.phase = BoardReveal(p, street, pass)
  BY OutputFacts, PhaseShape, PhaseForms, OtherPlayer
     DEF ActingKinds, Players, Other, PreFlop, Flop, River
<1>2. s.last = "Start" /\ EqualWagers(s) /\ w < MaxWager
  BY DEF Output, Ready, StartEqual
<1>3. s.wagers[2] = w /\ v = 2 * (w + Half)
  BY <1>2, LevelValue
<1>4. BuildLive(s, t) <=> t = Successor(s, ph, s.last, s.wagers, BoardSlots(p, street))
  <2>1. BuildLive(s, t) <=> BuildBoardReveal(s, t)
    BY OneBuilder DEF BuildLive
  <2> QED BY <1>2, <2>1 DEF BuildBoardReveal, StartEqual
<1>5. delta = 2 * (pass - 1)
  <2>1. PhaseByte(s.phase) = 10 + 4 * (street - Flop) + 2 * (pass - 1) + (p - 1)
    BY <1>1, Bytes
  <2> QED BY <1>1, <2>1 DEF Players, Flop, River
<1>6. ph \in Phases /\ PhaseByte(ph) = nextFirst + (delta \div 2) * (nextSecond - nextFirst)
  <2>1. CASE pass = 1
    <3>1. delta = 0 /\ delta \div 2 = 0
      BY <1>5, <2>1
    <3>2. PhaseByte(ph) = 10 + 4 * (street - Flop) + 2 * (2 - 1) + (Other(p) - 1)
      BY <2>1, Bytes
    <3>3. PhaseByte(ph) = nextFirst
      BY <1>1, <3>2 DEF Players, Flop, River
    <3>4. nextFirst \in Int /\ nextSecond \in Int
      BY <1>1 DEF Players, Flop, River
    <3> HIDE DEF delta, nextFirst, nextSecond
    <3> QED BY <1>1, <2>1, <3>1, <3>3, <3>4, PhaseRange
  <2>2. CASE pass = 2
    <3>1. delta = 2 /\ delta \div 2 = 1
      BY <1>5, <2>2
    <3>2. PhaseByte(ph) = 2 + 2 * (street - PreFlop) + (Other(p) - 1)
      BY <2>2, Bytes
    <3>3. PhaseByte(ph) = nextSecond
      BY <1>1, <3>2 DEF Players, PreFlop, Flop, River
    <3>4. nextFirst \in Int /\ nextSecond \in Int
      BY <1>1 DEF Players, Flop, River
    <3> HIDE DEF delta, nextFirst, nextSecond
    <3> QED BY <1>1, <2>2, <3>1, <3>3, <3>4, PhaseRange
  <2> QED BY <1>1, <2>1, <2>2
<1>7. firstSlot..(firstSlot + count - 1) = BoardSlots(p, street)
  BY <1>1, StreetCards
<1>8. PhaseByte(t.phase) = PhaseByte(ph) <=> t.phase = ph
  BY <1>6, OutputFacts, SameByte
<1>9. Builds(s, v, tx) <=>
          /\ ~tx.funded /\ tx.out = v
          /\ t.phase = ph /\ t.last = "Start" /\ SamePrefixWagers(s, tx)
          /\ DeadlineAdvances(s, tx) /\ Reveals(s, tx, BoardSlots(p, street))
  <2> HIDE DEF ph
  <2> QED BY <1>2, <1>4, QuietMove
<1>10. ScriptBoardReveal(street, p, s, v, tx) <=>
          /\ ~tx.funded
          /\ s.last = "Start"
          /\ delta = 0 \/ delta = 2
          /\ w < MaxWager /\ s.wagers[2] = w
          /\ v = 2 * (w + Half) /\ tx.out = 2 * (w + Half)
          /\ t.last = "Start" /\ SamePrefixWagers(s, tx) /\ DeadlineAdvances(s, tx)
          /\ PhaseByte(t.phase) = nextFirst + (delta \div 2) * (nextSecond - nextFirst)
          /\ Reveals(s, tx, firstSlot..(firstSlot + count - 1))
  BY DEF ScriptBoardReveal
<1>11. delta = 0 \/ delta = 2
  BY <1>1, <1>5
<1> HIDE DEF t, ph, w, delta, nextFirst, nextSecond, count, firstSlot
<1> QED BY <1>2, <1>3, <1>6, <1>7, <1>8, <1>9, <1>10, <1>11

LEMMA ShowdownRevealAgrees ==
    ASSUME NEW s, NEW v, Output(s, v), NEW tx \in Transactions, s.phase.kind = "ShowdownReveal"
    PROVE  ScriptShowdownReveal(s.phase.actor, s, v, tx) <=> Builds(s, v, tx)
<1> DEFINE t == tx.post
           p == s.phase.actor
           pass == s.phase.pass
           ph == IF pass = 1 THEN ShowdownReveal(Other(p), 2) ELSE ShowdownEvaluation
           w == s.wagers[1]
           player == p - 1
           delta == PhaseByte(s.phase) - (22 + player)
           nextFirst == 24 + 1 - player
<1>1. /\ p \in Players /\ Other(p) \in Players /\ Other(p) - 1 = 1 - player /\ pass \in 1..2
      /\ s.phase = ShowdownReveal(p, pass)
  BY OutputFacts, PhaseShape, PhaseForms, OtherPlayer DEF ActingKinds, Players, Other
<1>2. /\ s.last = "Start" /\ EqualWagers(s) /\ (pass = 1 => w < MaxWager)
      /\ w \in Nat /\ w <= MaxWager /\ MaxWager \in Nat
  BY OutputFacts, AmountsAssumption DEF Output, Ready, StartEqual
<1>3. s.wagers[2] = w /\ v = 2 * (w + Half)
  BY <1>2, LevelValue
<1>4. BuildLive(s, t) <=> t = Successor(s, ph, s.last, s.wagers, OwnHoleSlots(p))
  <2>1. BuildLive(s, t) <=> BuildShowdownReveal(s, t)
    BY OneBuilder DEF BuildLive
  <2>2. pass = 1 => w # MaxWager
    BY <1>2
  <2> QED BY <1>2, <2>1, <2>2 DEF BuildShowdownReveal, StartEqual
<1>5. delta = 2 * (pass - 1)
  <2>1. PhaseByte(s.phase) = 22 + 2 * (pass - 1) + (p - 1)
    BY <1>1, Bytes
  <2> QED BY <1>1, <2>1 DEF Players
<1>6. ph \in Phases /\ PhaseByte(ph) = nextFirst + (delta \div 2) * (26 - nextFirst)
  <2>1. CASE pass = 1
    <3>1. delta = 0 /\ delta \div 2 = 0
      BY <1>5, <2>1
    <3>2. PhaseByte(ph) = 22 + 2 * (2 - 1) + (Other(p) - 1)
      BY <2>1, Bytes
    <3>3. PhaseByte(ph) = nextFirst /\ nextFirst \in Int
      BY <1>1, <3>2 DEF Players
    <3> HIDE DEF delta, nextFirst
    <3> QED BY <1>1, <2>1, <3>1, <3>3, PhaseRange
  <2>2. CASE pass = 2
    <3>1. delta = 2 /\ delta \div 2 = 1
      BY <1>5, <2>2
    <3>2. PhaseByte(ph) = 26 /\ nextFirst \in Int
      BY <1>1, <2>2, Bytes DEF Players
    <3> HIDE DEF delta, nextFirst
    <3> QED BY <2>2, <3>1, <3>2, PhaseRange
  <2> QED BY <1>1, <2>1, <2>2
<1>7. RemainingCards(River, p) = OwnHoleSlots(p)
  <2>1. River \in PreFlop..River
    BY DEF PreFlop, River
  <2> QED BY <1>1, <2>1, CardsOwed, RemainingStarts
<1>8. PhaseByte(t.phase) = PhaseByte(ph) <=> t.phase = ph
  BY <1>6, OutputFacts, SameByte
<1>9. Builds(s, v, tx) <=>
          /\ ~tx.funded /\ tx.out = v
          /\ t.phase = ph /\ t.last = "Start" /\ SamePrefixWagers(s, tx)
          /\ DeadlineAdvances(s, tx) /\ Reveals(s, tx, OwnHoleSlots(p))
  <2> HIDE DEF ph
  <2> QED BY <1>2, <1>4, QuietMove
<1>10. ScriptShowdownReveal(p, s, v, tx) <=>
          /\ ~tx.funded
          /\ s.last = "Start"
          /\ delta = 0 \/ delta = 2
          /\ w <= MaxWager /\ (w < MaxWager \/ delta = 2) /\ s.wagers[2] = w
          /\ v = 2 * (w + Half) /\ tx.out = 2 * (w + Half)
          /\ t.last = "Start" /\ SamePrefixWagers(s, tx) /\ DeadlineAdvances(s, tx)
          /\ PhaseByte(t.phase) = nextFirst + (delta \div 2) * (26 - nextFirst)
          /\ Reveals(s, tx, RemainingCards(River, p))
  BY DEF ScriptShowdownReveal
<1>11. (delta = 0 \/ delta = 2) /\ (w < MaxWager \/ delta = 2)
  BY <1>1, <1>2, <1>5
<1> HIDE DEF t, ph, w, delta, nextFirst
<1> QED BY <1>2, <1>3, <1>6, <1>7, <1>8, <1>9, <1>10, <1>11

LEMMA AllInRevealAgrees ==
    ASSUME NEW s, NEW v, Output(s, v), NEW tx \in Transactions, s.phase.kind = "AllInReveal"
    PROVE  ScriptAllInReveal(s.phase.street, s.phase.actor, s, v, tx) <=> Builds(s, v, tx)
<1> DEFINE t == tx.post
           p == s.phase.actor
           first == s.phase.street
           w == s.wagers[1]
<1>1. p \in Players /\ first \in Flop..River /\ s.phase = AllInReveal(p, first)
  BY OutputFacts, PhaseShape, PhaseForms DEF ActingKinds
<1>2. s.last = "Start" /\ EqualWagers(s) /\ w = MaxWager
  BY DEF Output, Ready, StartEqual
<1>3. s.wagers[2] = w /\ v = 2 * (w + Half)
  BY <1>2, LevelValue
<1>4. BuildLive(s, t) <=>
          t = Successor(s, ShowdownEvaluation, s.last, s.wagers, RemainingSlots(p, first))
  <2>1. BuildLive(s, t) <=> BuildAllInReveal(s, t)
    BY OneBuilder DEF BuildLive
  <2> QED BY <1>2, <2>1 DEF BuildAllInReveal, StartEqual
<1>5. RemainingCards(first - 1, p) = RemainingSlots(p, first)
  <2>1. first - 1 \in PreFlop..River /\ (first - 1) + 1 = first
    BY <1>1 DEF PreFlop, Flop, River
  <2> QED BY <1>1, <2>1, CardsOwed
<1>6. PhaseByte(s.phase) = 36 + 2 * (first - Flop) + (p - 1)
  BY <1>1, Bytes
<1>7. PhaseByte(t.phase) = 26 <=> t.phase = ShowdownEvaluation
  BY OutputFacts, Bytes, SameByte, PhaseRange
<1>8. Builds(s, v, tx) <=>
          /\ ~tx.funded /\ tx.out = v
          /\ t.phase = ShowdownEvaluation /\ t.last = "Start" /\ SamePrefixWagers(s, tx)
          /\ DeadlineAdvances(s, tx) /\ Reveals(s, tx, RemainingSlots(p, first))
  BY <1>2, <1>4, QuietMove
<1>9. v = 2 * (Half + MaxWager)
  BY <1>2, <1>3, AmountsAssumption DEF Half
<1> QED BY <1>2, <1>3, <1>5, <1>6, <1>7, <1>8, <1>9 DEF ScriptAllInReveal

LEMMA AllInCallAgrees ==
    ASSUME NEW s, NEW v, Output(s, v), NEW tx \in Transactions, s.phase.kind = "AllIn"
    PROVE  ScriptAllInCall(s.phase.street, s.phase.actor, s, v, tx) <=> Builds(s, v, tx)
<1> DEFINE t == tx.post
           p == s.phase.actor
           street == s.phase.street
           ph == IF street = River THEN ShowdownReveal(Other(p), 2)
                                   ELSE AllInReveal(Other(p), street + 1)
           cap == [q \in Players |-> MaxWager]
           owed == RemainingSlots(p, street + 1)
           next == IF street = River THEN 24 ELSE 36 + 2 * (street - PreFlop)
           Follows == t = Successor(s, ph, "Start", cap, owed)
<1>1. /\ p \in Players /\ Other(p) \in Players /\ Other(p) # p
      /\ Other(p) - 1 = 1 - (p - 1) /\ street \in PreFlop..River /\ s.phase = AllIn(p, street)
  BY OutputFacts, PhaseShape, PhaseForms, OtherPlayer DEF ActingKinds, Players, Other
<1>2. /\ s.last = "Raise" /\ Theirs(s) = MaxWager /\ Mine(s) < MaxWager
      /\ s.wagers[Other(p)] = MaxWager /\ s.wagers[p] < MaxWager
  BY DEF Output, Ready, Mine, Theirs
<1>3. /\ s \in States /\ t \in States /\ t.phase \in Phases /\ t.wagers \in [Players -> Nat]
      /\ s.wagers[p] \in Nat /\ MaxWager \in Nat
      /\ tx.out \in Int /\ tx.funded \in BOOLEAN
  BY <1>1, OutputFacts, AmountsAssumption
<1>4. v = 2 * Half + MaxWager + s.wagers[p] /\ Half \in Nat
  <2>1. v = 2 * (Stake + Bond) + s.wagers[1] + s.wagers[2]
    BY OutputFacts
  <2>2. s.wagers[1] + s.wagers[2] = MaxWager + s.wagers[p]
    BY <1>1, <1>2, <1>3 DEF Players
  <2> QED BY <1>1, <1>2, <1>3, <2>1, <2>2, OutputFacts, AmountsAssumption DEF Half
<1>5. BuildLive(s, t) <=> Follows
  <2>1. BuildLive(s, t) <=> BuildAllInCall(s, t)
    BY OneBuilder DEF BuildLive
  <2> QED BY <1>2, <2>1 DEF BuildAllInCall
<1>6. ph \in Phases /\ PhaseByte(ph) = next + 1 - (p - 1)
  <2>1. CASE street = River
    <3>1. PhaseByte(ShowdownReveal(Other(p), 2)) = 22 + 2 * (2 - 1) + (Other(p) - 1)
      BY Bytes
    <3>2. ph = ShowdownReveal(Other(p), 2) /\ next = 24
      BY <2>1
    <3> QED BY <1>1, <3>1, <3>2, PhaseRange DEF Players
  <2>2. CASE street # River
    <3>1. PhaseByte(AllInReveal(Other(p), street + 1))
             = 36 + 2 * ((street + 1) - Flop) + (Other(p) - 1)
      BY Bytes
    <3>2. street + 1 \in Flop..River
      BY <1>1, <2>2 DEF PreFlop, Flop, River
    <3>3. ph = AllInReveal(Other(p), street + 1) /\ ph \in Phases
      BY <1>1, <2>2, <3>2, PhaseRange
    <3>4. next = 36 + 2 * (street - PreFlop)
      BY <2>2
    <3> QED BY <1>1, <3>1, <3>3, <3>4 DEF Players, PreFlop, Flop, River
  <2> QED BY <2>1, <2>2
<1>7. PhaseByte(t.phase) = next + 1 - (p - 1) <=> t.phase = ph
  BY <1>3, <1>6, SameByte
<1>8. RemainingCards(street, p) = owed
  BY <1>1, CardsOwed
<1>9. t.wagers = cap <=> t.wagers[1] = MaxWager /\ t.wagers[2] = MaxWager
  BY <1>3, SMT DEF Players
<1>10. Follows <=> /\ t.phase = ph /\ t.last = "Start"
                   /\ t.wagers[1] = MaxWager /\ t.wagers[2] = MaxWager
                   /\ DeadlineAdvances(s, tx) /\ Reveals(s, tx, owed)
  <2> HIDE DEF ph, cap, owed
  <2> QED BY <1>3, <1>9, SuccessorIs, RevealsAre DEF DeadlineAdvances
<1>11. Follows => LiveValue(t) = 2 * (Half + MaxWager)
  <2> HIDE DEF Follows
  <2> QED BY <1>3, <1>10, AmountsAssumption DEF LiveValue, Half
<1>12. 2 * (Half + MaxWager) > v
  BY <1>2, <1>3, <1>4
<1>13. PhaseByte(s.phase) = 28 + 2 * (street - PreFlop) + (p - 1)
  BY <1>1, Bytes
<1>14. Builds(s, v, tx) <=> Follows /\ tx.out = 2 * (Half + MaxWager) /\ tx.funded
  <2> HIDE DEF Follows
  <2> QED BY <1>3, <1>5, <1>11, <1>12 DEF Builds
<1>15. ScriptAllInCall(street, p, s, v, tx) <=>
          /\ tx.funded
          /\ PhaseByte(s.phase) = 28 + 2 * (street - PreFlop) + (p - 1) /\ s.last = "Raise"
          /\ s.wagers[Other(p)] = MaxWager /\ s.wagers[p] < MaxWager
          /\ v = 2 * Half + MaxWager + s.wagers[p]
          /\ tx.out = 2 * (Half + MaxWager)
          /\ PhaseByte(t.phase) = next + 1 - (p - 1) /\ t.last = "Start"
          /\ t.wagers[1] = MaxWager /\ t.wagers[2] = MaxWager
          /\ DeadlineAdvances(s, tx)
          /\ Reveals(s, tx, RemainingCards(street, p))
  BY DEF ScriptAllInCall
<1> HIDE DEF t, ph, cap, owed, next, Follows
<1> QED BY <1>2, <1>4, <1>7, <1>8, <1>10, <1>13, <1>14, <1>15

\* For every output and every transaction at all.
LEMMA ScriptsAgree ==
    ASSUME NEW s, NEW v, Output(s, v), NEW tx \in Transactions, NEW p \in Players
    PROVE  ScriptAdmits(p, s, v, tx) <=> p = RequiredActor(s.phase) /\ Builds(s, v, tx)
<1>1. s \in States /\ s.phase \in Phases
  BY OutputFacts
<1>2. Program(s, v, tx) <=> Builds(s, v, tx)
  <2>1. CASE s.phase = AwaitPlayer1FundingAndReveal
    BY <2>1, Kinds, FundingAgrees DEF Program
  <2>2. CASE s.phase = AwaitPlayer2RevealAndOpening
    BY <2>2, Kinds, OpeningAgrees DEF Program
  <2>3. CASE s.phase = ShowdownEvaluation
    <3>1. ~BuildLive(s, tx.post) /\ ~Program(s, v, tx)
      BY <2>3, Kinds, OneBuilder DEF Program
    <3> QED BY <3>1 DEF Builds
  <2>4. CASE s.phase.kind \in ActingKinds
    BY <2>4, BettingAgrees, BoardRevealAgrees, ShowdownRevealAgrees, AllInCallAgrees,
       AllInRevealAgrees DEF Program, ActingKinds
  <2> QED BY <1>1, <2>1, <2>2, <2>3, <2>4, PhaseShape
<1> QED BY <1>1, <1>2, OneProgram

(***************************************************************************)
(* The proposals of the runs are transactions.                             *)
(***************************************************************************)
LEMMA DueOf ==
    ASSUME NEW ph \in Phases
    PROVE  /\ ph = AwaitPlayer1FundingAndReveal => DueSlots(ph) = {2, 3}
           /\ ph = AwaitPlayer2RevealAndOpening => DueSlots(ph) = {0, 1}
           /\ ph = ShowdownEvaluation => DueSlots(ph) = {}
           /\ ph.kind = "Betting" => DueSlots(ph) = {}
           /\ ph.kind = "BoardReveal" => DueSlots(ph) = BoardSlots(ph.actor, ph.street)
           /\ ph.kind = "ShowdownReveal" => DueSlots(ph) = OwnHoleSlots(ph.actor)
           /\ ph.kind = "AllIn" => DueSlots(ph) = RemainingSlots(ph.actor, ph.street + 1)
           /\ ph.kind = "AllInReveal" => DueSlots(ph) = RemainingSlots(ph.actor, ph.street)
<1>1. ph.kind \in ActingKinds => RequiredActor(ph) = ph.actor
  BY ActingActor
<1>2. /\ ph = AwaitPlayer1FundingAndReveal => DueSlots(ph) = {2, 3}
      /\ ph = AwaitPlayer2RevealAndOpening => DueSlots(ph) = {0, 1}
      /\ ph = ShowdownEvaluation => DueSlots(ph) = {}
  BY Kinds DEF DueSlots
<1>3. ph.kind = "AllIn" => DueSlots(ph) = RemainingSlots(ph.actor, ph.street + 1)
  <2>1. SUFFICES ASSUME ph.kind = "AllIn"
                 PROVE  DueSlots(ph) = RemainingSlots(ph.actor, ph.street + 1)
    OBVIOUS
  <2>2. RequiredActor(ph) = ph.actor /\ ph.actor \in Players
    BY <1>1, <2>1, PhaseShape DEF ActingKinds
  <2>3. CASE ph.street = River
    BY <2>1, <2>2, <2>3, RemainingStarts DEF DueSlots
  <2>4. CASE ph.street # River
    BY <2>1, <2>2, <2>4 DEF DueSlots
  <2> QED BY <2>3, <2>4
<1> QED BY <1>1, <1>2, <1>3 DEF DueSlots, ActingKinds

LEMMA DueRange ==
    ASSUME NEW ph \in Phases
    PROVE  DueSlots(ph) \subseteq Slots
<1>1. {0, 1} \subseteq Slots /\ {2, 3} \subseteq Slots
  BY DEF Slots
<1>2. CASE ph.kind \in ActingKinds
  <2>1. ph.actor \in Players
    BY <1>2, PhaseShape
  <2> QED BY <1>2, <2>1, DueOf, SlotRange DEF ActingKinds
<1> QED BY <1>1, <1>2, DueOf, PhaseShape

LEMMA ProposalsAreTransactions ==
    ASSUME state \in States
    PROVE  /\ PlausibleSuccessors \subseteq States
           /\ Proposals \subseteq Transactions
<1>1. PlausibleWagers \subseteq [Players -> Nat]
  BY AmountsAssumption DEF PlausibleWagers, States
<1>2. ASSUME NEW t \in PlausibleSuccessors PROVE t \in States
  <2>1. PICK ph \in Phases, last \in LastActions, w \in PlausibleWagers :
               t = Successor(state, ph, last, w, DueSlots(state.phase))
    BY <1>2 DEF PlausibleSuccessors
  <2>2. DueSlots(state.phase) \in SUBSET Slots
    BY DueRange DEF States
  <2> QED BY <1>1, <2>1, <2>2, SuccessorType
<1>3. MovesBuilt \subseteq States
  BY <1>2 DEF MovesBuilt
<1>4. NearMisses(MovesBuilt) \subseteq States
  <2>1. ASSUME NEW g \in SlotGroups PROVE g \subseteq Slots
    BY SlotRange DEF SlotGroups
  <2>2. ASSUME NEW t \in States, NEW g \in SlotGroups
        PROVE  [t EXCEPT !.reveals = @ \cup g] \in States /\ [t EXCEPT !.reveals = @ \ g] \in States
    BY <2>1 DEF States
  <2>3. ASSUME NEW t \in States, NEW k \in {0, 2}
        PROVE  [t EXCEPT !.deadline = state.deadline + k * Interval] \in States
    <3>1. state.deadline + k * Interval \in Nat
      BY TimeAssumption DEF States
    <3> QED BY <3>1 DEF States
  <2>4. ASSUME NEW x \in NearMisses(MovesBuilt) PROVE x \in States
    <3>1. \/ \E t \in MovesBuilt, k \in {0, 2} :
                x = [t EXCEPT !.deadline = state.deadline + k * Interval]
          \/ \E t \in MovesBuilt, g \in SlotGroups : x = [t EXCEPT !.reveals = @ \cup g]
          \/ \E t \in MovesBuilt, g \in SlotGroups : x = [t EXCEPT !.reveals = @ \ g]
      BY <2>4 DEF NearMisses
    <3> QED BY <1>3, <2>2, <2>3, <3>1
  <2> QED BY <2>4
<1>5. ASSUME NEW t \in States PROVE LiveValue(t) \in Int
  BY LiveValueType
<1>6. ASSUME NEW t \in States, NEW f \in BOOLEAN, NEW d \in {-1, 0, 1}
      PROVE  /\ Proposal(t, LiveValue(t), f) \in Transactions
             /\ Proposal(t, LiveValue(t) + d, f) \in Transactions
  BY <1>5 DEF Proposal, Transactions
<1>7. Proposals \subseteq Transactions
  BY <1>2, <1>3, <1>4, <1>6 DEF Proposals
<1> QED BY <1>2, <1>7

\* The emulator's programs accept from the obliged player exactly what the builders
\* make, and nothing from the other: rules written as opcodes over packet bytes
\* (program_live.go) are the rules of the builders (action_*.go), on every output a
\* covenant reaches.
THEOREM ProgramsAreTheRules == Spec => []ScriptsMatchBuilders
<1>1. (InPlay => Output(state, value)) => ScriptsMatchBuilders
  <2> SUFFICES ASSUME InPlay, Output(state, value), NEW tx \in Proposals, NEW p \in Players
               PROVE  ScriptAdmits(p, state, value, tx) <=>
                         p = RequiredActor(state.phase) /\ Built(tx)
    BY DEF ScriptsMatchBuilders
  <2>1. tx \in Transactions
    BY ProposalsAreTransactions DEF Output
  <2>2. Built(tx) <=> Builds(state, value, tx)
    BY DEF Built, Builds
  <2> QED BY <2>1, <2>2, ScriptsAgree
<1> QED BY <1>1, Outputs, PTL

(***************************************************************************)
(* Admission.  A share that is due was never published before: the groups  *)
(* of slots are apart.                                                     *)
(***************************************************************************)
LEMMA GroupsApart ==
    ASSUME NEW p \in Players, NEW street \in Flop..River
    PROVE  /\ BoardSlots(p, street) \cap Holes = {}
           /\ \A q \in Players : BoardSlots(p, street) \cap OwnHoleSlots(q) = {}
           /\ \A q \in Players, st \in Flop..River :
                 q # p \/ st # street => BoardSlots(p, street) \cap BoardSlots(q, st) = {}
<1>1. \A st \in Flop..River : st \in {Flop, Turn, River}
  BY DEF Flop, Turn, River
<1>2. Flop # Turn /\ Flop # River /\ Turn # River
  BY DEF Flop, Turn, River
<1>3. Holes = {0, 1, 2, 3}
  BY AllSlots
<1>4. \A q \in Players : q = 1 \/ q = 2
  BY DEF Players
<1>5. BoardSlots(p, street) \cap Holes = {}
  BY <1>1, <1>3, <1>4, BoardSlotsOf
<1>6. \A q \in Players : BoardSlots(p, street) \cap OwnHoleSlots(q) = {}
  BY <1>1, <1>4, BoardSlotsOf, AllSlots
<1>7. ASSUME NEW q \in Players, NEW st \in Flop..River, q # p \/ st # street
      PROVE  BoardSlots(p, street) \cap BoardSlots(q, st) = {}
  <2>1. CASE street = Flop
    BY <1>1, <1>2, <1>4, <1>7, <2>1, BoardSlotsOf
  <2>2. CASE street = Turn
    BY <1>1, <1>2, <1>4, <1>7, <2>2, BoardSlotsOf
  <2>3. CASE street = River
    BY <1>1, <1>2, <1>4, <1>7, <2>3, BoardSlotsOf
  <2> QED BY <1>1, <2>1, <2>2, <2>3
<1> QED BY <1>5, <1>6, <1>7

LEMMA EarlierStreetsApart ==
    ASSUME NEW p \in Players, NEW street \in Flop..River, NEW last \in PreFlop..River, last < street
    PROVE  BoardSlots(p, street) \cap Board(last) = {}
<1> SUFFICES ASSUME NEW slot \in BoardSlots(p, street), slot \in Board(last) PROVE FALSE
  OBVIOUS
<1>1. PICK st \in Flop..last : slot \in StreetSlots(st)
  BY DEF Board
<1>2. st \in Flop..River /\ st # street
  BY <1>1 DEF PreFlop, Flop, River
<1>3. PICK q \in Players : slot \in BoardSlots(q, st)
  BY <1>1 DEF StreetSlots, Players
<1> QED BY <1>2, <1>3, GroupsApart

LEMMA RemainingApart ==
    ASSUME NEW p \in Players, NEW first \in Flop..(River + 1), NEW last \in PreFlop..River,
           last < first
    PROVE  /\ RemainingSlots(p, first) \cap (Holes \cup Board(last)) = {}
           /\ RemainingSlots(p, first) \cap RemainingSlots(Other(p), first) = {}
<1>1. \A st \in first..River : st \in Flop..River /\ last < st
  BY DEF PreFlop, Flop, River
<1>2. OwnHoleSlots(p) \cap (Holes \cup Board(last)) = {}
  BY OwnHolesApart
<1>3. \A st \in first..River : BoardSlots(p, st) \cap (Holes \cup Board(last)) = {}
  BY <1>1, GroupsApart, EarlierStreetsApart
<1>4. Other(p) \in Players /\ Other(p) # p
  BY OtherPlayer
<1>5. OwnHoleSlots(p) \cap OwnHoleSlots(Other(p)) = {}
  BY <1>4, AllSlots DEF Players
<1>6. \A st \in first..River :
         /\ BoardSlots(p, st) \cap OwnHoleSlots(Other(p)) = {}
         /\ BoardSlots(Other(p), st) \cap OwnHoleSlots(p) = {}
         /\ \A su \in first..River : BoardSlots(p, st) \cap BoardSlots(Other(p), su) = {}
  BY <1>1, <1>4, GroupsApart
<1>7. RemainingSlots(p, first) \cap (Holes \cup Board(last)) = {}
  BY <1>2, <1>3 DEF RemainingSlots
<1>8. RemainingSlots(p, first) \cap RemainingSlots(Other(p), first) = {}
  BY <1>5, <1>6 DEF RemainingSlots
<1> QED BY <1>7, <1>8

LEMMA NeverPublishedTwice ==
    ASSUME NEW s, NEW v, Output(s, v)
    PROVE  DueSlots(s.phase) \cap s.reveals = {}
<1> DEFINE ph == s.phase
           p == ph.actor
           street == ph.street
           pass == ph.pass
<1>1. s \in States /\ ph \in Phases /\ s.reveals = PublishedAt(ph)
  BY DEF Output, States
<1>2. CASE ph = AwaitPlayer1FundingAndReveal
  BY <1>1, <1>2, Published
<1>3. CASE ph = AwaitPlayer2RevealAndOpening
  <2>1. s.reveals = {2, 3}
    BY <1>1, <1>3, Published DEF OpponentHoleSlots
  <2>2. DueSlots(ph) = {0, 1}
    BY <1>1, <1>3, DueOf
  <2> QED BY <2>1, <2>2
<1>4. CASE ph = ShowdownEvaluation \/ ph.kind = "Betting"
  <2>1. DueSlots(ph) = {}
    BY <1>1, <1>4, DueOf
  <2> QED BY <2>1
<1>5. CASE ph.kind = "BoardReveal"
  <2>1. /\ p \in Players /\ Other(p) \in Players /\ Other(p) # p /\ street \in Flop..River
        /\ pass \in 1..2 /\ ph = BoardReveal(p, street, pass)
    BY <1>1, <1>5, PhaseShape, PhaseForms, OtherPlayer DEF ActingKinds
  <2>2. street - 1 \in PreFlop..River /\ street - 1 < street
    BY <2>1 DEF PreFlop, Flop, River
  <2>3. s.reveals \subseteq Holes \cup Board(street - 1) \cup BoardSlots(Other(p), street)
    <3>1. CASE pass = 1
      BY <1>1, <2>1, <3>1, Published
    <3>2. CASE pass = 2
      BY <1>1, <2>1, <3>2, Published
    <3> QED BY <2>1, <3>1, <3>2
  <2>4. DueSlots(ph) = BoardSlots(p, street)
    BY <1>1, <1>5, DueOf
  <2>5. /\ BoardSlots(p, street) \cap Holes = {}
        /\ BoardSlots(p, street) \cap BoardSlots(Other(p), street) = {}
        /\ BoardSlots(p, street) \cap Board(street - 1) = {}
    BY <2>1, <2>2, GroupsApart, EarlierStreetsApart
  <2> QED BY <2>3, <2>4, <2>5
<1>6. CASE ph.kind = "ShowdownReveal"
  <2>1. /\ p \in Players /\ Other(p) \in Players /\ Other(p) # p
        /\ pass \in 1..2 /\ ph = ShowdownReveal(p, pass)
    BY <1>1, <1>6, PhaseShape, PhaseForms, OtherPlayer DEF ActingKinds
  <2>2. s.reveals \subseteq Holes \cup Board(River) \cup OwnHoleSlots(Other(p))
    <3>1. CASE pass = 1
      BY <1>1, <2>1, <3>1, Published
    <3>2. CASE pass = 2
      BY <1>1, <2>1, <3>2, Published
    <3> QED BY <2>1, <3>1, <3>2
  <2>3. DueSlots(ph) = OwnHoleSlots(p)
    BY <1>1, <1>6, DueOf
  <2>4. OwnHoleSlots(p) \cap OwnHoleSlots(Other(p)) = {}
    BY <2>1, AllSlots DEF Players
  <2>5. River \in PreFlop..River
    BY DEF PreFlop, River
  <2> QED BY <2>1, <2>2, <2>3, <2>4, <2>5, OwnHolesApart
<1>7. CASE ph.kind = "AllIn"
  <2>1. p \in Players /\ street \in PreFlop..River /\ ph = AllIn(p, street)
    BY <1>1, <1>7, PhaseShape, PhaseForms DEF ActingKinds
  <2>2. street + 1 \in Flop..(River + 1) /\ street < street + 1
    BY <2>1 DEF PreFlop, Flop, River
  <2>3. DueSlots(ph) = RemainingSlots(p, street + 1) /\ s.reveals = Holes \cup Board(street)
    BY <1>1, <1>7, <2>1, DueOf, Published
  <2> QED BY <2>1, <2>2, <2>3, RemainingApart
<1>8. CASE ph.kind = "AllInReveal"
  <2>1. p \in Players /\ street \in Flop..River /\ ph = AllInReveal(p, street)
    BY <1>1, <1>8, PhaseShape, PhaseForms DEF ActingKinds
  <2>2. /\ street \in Flop..(River + 1)
        /\ street - 1 \in PreFlop..River /\ street - 1 < street
    BY <2>1 DEF PreFlop, Flop, River
  <2>3. /\ DueSlots(ph) = RemainingSlots(p, street)
        /\ s.reveals = Holes \cup Board(street - 1) \cup RemainingSlots(Other(p), street)
    BY <1>1, <1>8, <2>1, DueOf, Published
  <2> QED BY <2>1, <2>2, <2>3, RemainingApart
<1> QED BY <1>1, <1>2, <1>3, <1>4, <1>5, <1>6, <1>7, <1>8, PhaseShape DEF ActingKinds

(***************************************************************************)
(* What a client expects is what is built, phase by phase.                 *)
(***************************************************************************)
Expected(s, tx) == Expectation(s, tx.post.wagers[RequiredActor(s.phase)])

\* One successor is expected, and it is the only one built with that wager.
LEMMA ExpectedIsBuilt ==
    ASSUME NEW s, NEW v, Output(s, v), NEW tx \in Transactions, NEW x, NEW c \in Int,
           RequiredActor(s.phase) # 0, v \in Int,
           Expected(s, tx) = {[state |-> x, paid |-> c]},
           DueSlots(s.phase) \subseteq x.reveals, LiveValue(x) = v + c,
           BuildLive(s, tx.post) <=> tx.post = x
    PROVE  AdmitSpend(s, v, tx) <=> Builds(s, v, tx)
<1>1. DueSlots(s.phase) \cap s.reveals = {}
  BY NeverPublishedTwice
<1>2. AdmitSpend(s, v, tx) <=> tx.post = x /\ tx.out = v + c /\ tx.funded = (c > 0)
  BY <1>1 DEF AdmitSpend, Expected
<1>3. Builds(s, v, tx) <=> tx.post = x /\ tx.out = v + c /\ tx.funded = (tx.out > v)
  BY DEF Builds
<1>4. (v + c > v) <=> c > 0
  OBVIOUS
<1> QED BY <1>2, <1>3, <1>4

LEMMA NothingExpected ==
    ASSUME NEW s, NEW v, NEW tx, Expected(s, tx) = {}, ~BuildLive(s, tx.post)
    PROVE  AdmitSpend(s, v, tx) <=> Builds(s, v, tx)
  BY DEF AdmitSpend, Builds, Expected

LEMMA FundingAdmitted ==
    ASSUME NEW s, NEW v, Output(s, v), NEW tx \in Transactions,
           s.phase = AwaitPlayer1FundingAndReveal
    PROVE  AdmitSpend(s, v, tx) <=> Builds(s, v, tx)
<1> DEFINE t == tx.post
           x == Successor(s, AwaitPlayer2RevealAndOpening, s.last, s.wagers, DueSlots(s.phase))
<1>1. s = InitialState /\ v = Stake + Bond /\ v \in Int /\ Stake + Bond \in Int
  BY Kinds, AmountsAssumption DEF Output, Ready, DepositValue
<1>2. DueSlots(s.phase) = OpponentHoleSlots(1) /\ RequiredActor(s.phase) # 0
  BY DueOf, PhaseRange, Actors DEF OpponentHoleSlots
<1>3. BuildLive(s, t) <=> t = x
  BY <1>1, <1>2, OneBuilder, Kinds DEF BuildLive, BuildPlayer1Funding
<1>4. Expected(s, tx) = {[state |-> x, paid |-> Stake + Bond]}
  BY Kinds DEF Expected, Expectation
<1>5. DueSlots(s.phase) \subseteq x.reveals
  BY DEF Successor
<1>6. LiveValue(x) = v + (Stake + Bond)
  <2>1. x.wagers[1] = 0 /\ x.wagers[2] = 0
    BY <1>1 DEF Successor, InitialState, NoWagers, Players
  <2> HIDE DEF x
  <2> QED BY <1>1, <2>1, AmountsAssumption DEF LiveValue
<1> HIDE DEF x
<1> QED BY <1>1, <1>2, <1>3, <1>4, <1>5, <1>6, ExpectedIsBuilt

\* The opening that is built is the one with the wager the successor shows.
LEMMA OpeningBuilds ==
    ASSUME NEW s, NEW v, Output(s, v), s.phase = AwaitPlayer2RevealAndOpening, NEW t
    PROVE  BuildLive(s, t) <=> t.wagers[2] \in OpeningBets /\ t = OpeningSuccessor(s, t.wagers[2])
<1>1. s.last = "Start" /\ s.wagers = NoWagers
  BY Kinds DEF Output, Ready
<1>2. \A n : OpeningSuccessor(s, n).wagers[2] = n
  BY <1>1 DEF OpeningSuccessor, Successor, NoWagers, Players
<1>3. BuildLive(s, t) <=> \E n \in OpeningBets : t = OpeningSuccessor(s, n)
  BY <1>1, OneBuilder, Kinds DEF BuildLive, BuildPlayer2Opening
<1> QED BY <1>2, <1>3

LEMMA OpeningAdmitted ==
    ASSUME NEW s, NEW v, Output(s, v), NEW tx \in Transactions,
           s.phase = AwaitPlayer2RevealAndOpening
    PROVE  AdmitSpend(s, v, tx) <=> Builds(s, v, tx)
<1> DEFINE t == tx.post
           b == t.wagers[2]
           x == OpeningSuccessor(s, b)
<1>1. s.last = "Start" /\ s.wagers = NoWagers
  BY Kinds DEF Output, Ready
<1>2. b \in Nat /\ v \in Int /\ MaxWager \in Nat /\ MinBet \in Nat
      /\ v = 2 * (Stake + Bond) /\ 2 * (Stake + Bond) \in Int
  <2>1. s.wagers[1] = 0 /\ s.wagers[2] = 0
    BY <1>1 DEF NoWagers, Players
  <2> QED BY <2>1, OutputFacts, Kinds, AmountsAssumption
<1>3. /\ DueSlots(s.phase) = OpponentHoleSlots(2) /\ RequiredActor(s.phase) = 2
      /\ Other(2) = 1 /\ s.phase.kind = "AwaitPlayer2RevealAndOpening"
  BY DueOf, PhaseRange, Actors, Kinds DEF OpponentHoleSlots, Other
<1>4. BuildLive(s, t) <=> b \in OpeningBets /\ t = x
  BY OpeningBuilds
<1>5. b \in OpeningBets <=> ~(b > MaxWager \/ (b # 0 /\ b < MinBet))
  BY <1>2, AmountsAssumption DEF OpeningBets
<1>6. Expected(s, tx) = IF b \in OpeningBets THEN {[state |-> x, paid |-> b]} ELSE {}
  BY <1>3, <1>5 DEF Expected, Expectation, OpeningSuccessor
<1>7. CASE b \in OpeningBets
  <2>1. DueSlots(s.phase) \subseteq x.reveals
    BY <1>3 DEF OpeningSuccessor, Successor
  <2>2. LiveValue(x) = v + b
    <3>1. x.wagers[1] = 0 /\ x.wagers[2] = b
      BY <1>1 DEF OpeningSuccessor, Successor, NoWagers, Players
    <3> HIDE DEF x, b
    <3> QED BY <1>2, <3>1 DEF LiveValue
  <2> HIDE DEF x
  <2> QED BY <1>2, <1>3, <1>4, <1>6, <1>7, <2>1, <2>2, ExpectedIsBuilt
<1>8. CASE b \notin OpeningBets
  BY <1>4, <1>6, <1>8, NothingExpected
<1> QED BY <1>7, <1>8

\* The move that is built in betting is the one with the wager the successor shows.
LEMMA BettingBuildsShown ==
    ASSUME NEW s, NEW v, Output(s, v), NEW t, s.phase.kind = "Betting"
    PROVE  LET n == t.wagers[s.phase.actor]
           IN BuildLive(s, t) <=>
                 /\ MayMove(s, n)
                 /\ t = Successor(s, Answer(s, n), AnswerLast(s, n),
                                  [s.wagers EXCEPT ![s.phase.actor] = n], {})
<1> DEFINE p == s.phase.actor
           x(n) == Successor(s, Answer(s, n), AnswerLast(s, n), [s.wagers EXCEPT ![p] = n], {})
<1>1. BettingHistory(s) /\ s \in States /\ s.wagers \in [Players -> Nat]
  BY DEF Output, Ready, States
<1>2. p \in Players /\ Theirs(s) \in Nat
  BY <1>1, BettingShape
<1>3. \A n : x(n).wagers[p] = n
  BY <1>1, <1>2 DEF Successor
<1>4. BuildLive(s, t) <=> \E n \in Nat : MayMove(s, n) /\ t = x(n)
  BY <1>1, BettingBuilds
<1>5. \A n : MayMove(s, n) => n \in Nat
  BY <1>2, AmountsAssumption DEF MayMove, RaiseTargets
<1> HIDE DEF x
<1>6. BuildLive(s, t) <=> MayMove(s, t.wagers[p]) /\ t = x(t.wagers[p])
  BY <1>3, <1>4, <1>5
<1> QED BY <1>6 DEF x

LEMMA BettingAdmitted ==
    ASSUME NEW s, NEW v, Output(s, v), NEW tx \in Transactions, s.phase.kind = "Betting"
    PROVE  AdmitSpend(s, v, tx) <=> Builds(s, v, tx)
<1> DEFINE t == tx.post
           p == s.phase.actor
           a == Mine(s)
           o == Theirs(s)
           n == t.wagers[p]
           minimum == IF s.last = "Raise" THEN o - a ELSE MinBet
           x == Successor(s, Answer(s, n), AnswerLast(s, n), [s.wagers EXCEPT ![p] = n], {})
<1>1. BettingHistory(s) /\ s \in States /\ s.wagers \in [Players -> Nat]
      /\ t.wagers \in [Players -> Nat]
  BY OutputFacts DEF Output, Ready
<1>2. /\ p \in Players /\ Other(p) \in Players /\ Other(p) # p
      /\ a \in Nat /\ o \in Nat /\ MaxWager \in Nat /\ MinBet \in Nat
  BY <1>1, BettingShape, AmountsAssumption
<1>3. n \in Nat /\ a = s.wagers[p] /\ o = s.wagers[Other(p)]
  BY <1>1, <1>2 DEF Mine, Theirs
<1>4. a <= o /\ o < MaxWager
  <2>1. EqualWagers(s) => a = o
    BY <1>2, <1>3 DEF EqualWagers, Players
  <2> QED BY <1>1, <1>2, <2>1 DEF BettingHistory
<1>5. RequiredActor(s.phase) = p /\ DueSlots(s.phase) = {} /\ p # 0
  BY <1>1, <1>2, ActingActor, DueOf DEF ActingKinds, States, Players
<1>6. BuildLive(s, t) <=> MayMove(s, n) /\ t = x
  BY BettingBuildsShown
<1>7. MayMove(s, n) <=>
          /\ ~(n < a \/ n > MaxWager)
          /\ n # o => ~(\/ s.last = "Raise" /\ o < a
                        \/ n <= o \/ n <= a
                        \/ n # MaxWager /\ n - o < minimum)
  <2>1. minimum = MinimumRaise(s) /\ minimum \in Int
    BY <1>2 DEF MinimumRaise
  <2>2. n \in RaiseTargets(s) <=> /\ n <= MaxWager /\ n > a /\ n > o
                                  /\ n = MaxWager \/ n - o >= minimum
    BY <1>3, <1>2, <2>1 DEF RaiseTargets
  <2>3. MayMove(s, n) <=> n = o \/ n \in RaiseTargets(s)
    BY DEF MayMove
  <2> HIDE DEF a, o, n, minimum
  <2> QED BY <1>2, <1>3, <1>4, <2>1, <2>2, <2>3
<1>8. Expected(s, tx) = IF MayMove(s, n) THEN {[state |-> x, paid |-> n - a]} ELSE {}
  <2>1. Expected(s, tx) =
           IF n < a \/ n > MaxWager THEN {}
           ELSE IF n = o THEN {[state |-> x, paid |-> n - a]}
           ELSE IF \/ s.last = "Raise" /\ o < a
                   \/ n <= o \/ n <= a
                   \/ n # MaxWager /\ n - o < minimum
           THEN {} ELSE {[state |-> x, paid |-> n - a]}
    BY <1>3, <1>5 DEF Expected, Expectation, Answer, AnswerLast, Closed
  <2> HIDE DEF a, o, n, minimum, x
  <2> QED BY <1>7, <2>1
<1>9. CASE MayMove(s, n)
  <2>1. v = 2 * (Stake + Bond) + s.wagers[1] + s.wagers[2] /\ v \in Int
    BY OutputFacts
  <2>2. x.wagers = [s.wagers EXCEPT ![p] = n]
    BY DEF Successor
  <2>3. LiveValue(x) = v + (n - a)
    <3>1. x.wagers[p] = n /\ x.wagers[Other(p)] = o
      BY <1>1, <1>2, <1>3, <2>2
    <3>2. x.wagers[1] + x.wagers[2] = n + o /\ s.wagers[1] + s.wagers[2] = a + o
          /\ x.wagers[1] \in Nat /\ x.wagers[2] \in Nat
          /\ s.wagers[1] \in Nat /\ s.wagers[2] \in Nat
      <4> HIDE DEF x, n, a, o
      <4> QED BY <1>2, <1>3, <3>1 DEF Players
    <3> HIDE DEF x, n, a, o
    <3> QED BY <1>2, <1>3, <2>1, <3>2, AmountsAssumption DEF LiveValue
  <2>4. n - a \in Int
    BY <1>2, <1>3
  <2> HIDE DEF x, n, a
  <2> QED BY <1>5, <1>6, <1>8, <1>9, <2>1, <2>3, <2>4, ExpectedIsBuilt
<1>10. CASE ~MayMove(s, n)
  BY <1>6, <1>8, <1>10, NothingExpected
<1> QED BY <1>9, <1>10

LEMMA QuietAdmitted ==
    ASSUME NEW s, NEW v, Output(s, v), NEW tx \in Transactions, NEW ph,
           s.phase.kind # "AwaitPlayer1FundingAndReveal", RequiredActor(s.phase) # 0,
           Expected(s, tx) =
               {[state |-> Successor(s, ph, s.last, s.wagers, DueSlots(s.phase)), paid |-> 0]},
           BuildLive(s, tx.post) <=>
               tx.post = Successor(s, ph, s.last, s.wagers, DueSlots(s.phase))
    PROVE  AdmitSpend(s, v, tx) <=> Builds(s, v, tx)
<1> DEFINE x == Successor(s, ph, s.last, s.wagers, DueSlots(s.phase))
<1>1. v = LiveValue(s) /\ v \in Int
  BY OutputFacts, Kinds DEF Output
<1>2. DueSlots(s.phase) \subseteq x.reveals /\ x.wagers = s.wagers
  BY DEF Successor
<1>3. LiveValue(x) = v + 0
  BY <1>1, <1>2 DEF LiveValue
<1> HIDE DEF x
<1> QED BY <1>1, <1>2, <1>3, ExpectedIsBuilt DEF x

LEMMA RevealsAdmitted ==
    ASSUME NEW s, NEW v, Output(s, v), NEW tx \in Transactions,
           s.phase.kind \in {"BoardReveal", "ShowdownReveal", "AllInReveal"}
    PROVE  AdmitSpend(s, v, tx) <=> Builds(s, v, tx)
<1> DEFINE t == tx.post
           p == s.phase.actor
           street == s.phase.street
           pass == s.phase.pass
<1>1. /\ s \in States /\ s.phase \in Phases /\ p \in Players
      /\ RequiredActor(s.phase) = p /\ p # 0
  BY OutputFacts, PhaseShape, ActingActor DEF ActingKinds, Players
<1>2. CASE s.phase.kind = "BoardReveal"
  <2> DEFINE ph == IF pass = 1 THEN BoardReveal(Other(p), street, 2) ELSE Betting(Other(p), street)
  <2>1. StartEqual(s) /\ s.wagers[1] < MaxWager
    BY <1>2 DEF Output, Ready
  <2>2. BuildLive(s, t) <=> t = Successor(s, ph, s.last, s.wagers, DueSlots(s.phase))
    <3>1. BuildLive(s, t) <=> BuildBoardReveal(s, t)
      BY <1>2, OneBuilder DEF BuildLive
    <3>2. DueSlots(s.phase) = BoardSlots(p, street)
      BY <1>1, <1>2, DueOf
    <3> QED BY <1>2, <2>1, <3>1, <3>2 DEF BuildBoardReveal
  <2>3. Expected(s, tx) =
           {[state |-> Successor(s, ph, s.last, s.wagers, DueSlots(s.phase)), paid |-> 0]}
    BY <1>1, <1>2 DEF Expected, Expectation
  <2> HIDE DEF ph
  <2> QED BY <1>1, <1>2, <2>2, <2>3, QuietAdmitted
<1>3. CASE s.phase.kind = "ShowdownReveal"
  <2> DEFINE ph == IF pass = 1 THEN ShowdownReveal(Other(p), 2) ELSE ShowdownEvaluation
  <2>1. StartEqual(s) /\ (pass = 1 => s.wagers[1] # MaxWager)
    <3>1. StartEqual(s) /\ (pass = 1 => s.wagers[1] < MaxWager)
      BY <1>3 DEF Output, Ready
    <3> QED BY <3>1, AmountsAssumption
  <2>2. BuildLive(s, t) <=> t = Successor(s, ph, s.last, s.wagers, DueSlots(s.phase))
    <3>1. BuildLive(s, t) <=> BuildShowdownReveal(s, t)
      BY <1>3, OneBuilder DEF BuildLive
    <3>2. DueSlots(s.phase) = OwnHoleSlots(p)
      BY <1>1, <1>3, DueOf
    <3> QED BY <1>3, <2>1, <3>1, <3>2 DEF BuildShowdownReveal
  <2>3. Expected(s, tx) =
           {[state |-> Successor(s, ph, s.last, s.wagers, DueSlots(s.phase)), paid |-> 0]}
    BY <1>1, <1>3 DEF Expected, Expectation
  <2> HIDE DEF ph
  <2> QED BY <1>1, <1>3, <2>2, <2>3, QuietAdmitted
<1>4. CASE s.phase.kind = "AllInReveal"
  <2>1. StartEqual(s) /\ s.wagers[1] = MaxWager
    BY <1>4 DEF Output, Ready
  <2>2. BuildLive(s, t) <=>
           t = Successor(s, ShowdownEvaluation, s.last, s.wagers, DueSlots(s.phase))
    <3>1. BuildLive(s, t) <=> BuildAllInReveal(s, t)
      BY <1>4, OneBuilder DEF BuildLive
    <3>2. DueSlots(s.phase) = RemainingSlots(p, street)
      BY <1>1, <1>4, DueOf
    <3> QED BY <1>4, <2>1, <3>1, <3>2 DEF BuildAllInReveal
  <2>3. Expected(s, tx) =
           {[state |-> Successor(s, ShowdownEvaluation, s.last, s.wagers, DueSlots(s.phase)),
             paid |-> 0]}
    BY <1>1, <1>4 DEF Expected, Expectation
  <2> QED BY <1>1, <1>4, <2>2, <2>3, QuietAdmitted
<1> QED BY <1>2, <1>3, <1>4

\* The caller of an all-in brings its wager to the cap.
LEMMA AllInCallBuilds ==
    ASSUME NEW s, NEW v, Output(s, v), s.phase.kind = "AllIn"
    PROVE  LET q == Other(s.phase.actor)
               x == Successor(s, IF s.phase.street = River THEN ShowdownReveal(q, 2)
                                 ELSE AllInReveal(q, s.phase.street + 1),
                              "Start", [r \in Players |-> MaxWager], DueSlots(s.phase))
           IN /\ \A t : BuildLive(s, t) <=> t = x
              /\ LiveValue(x) = v + (MaxWager - Mine(s)) /\ v \in Int
              /\ Mine(s) \in Nat /\ Mine(s) < MaxWager /\ RequiredActor(s.phase) = s.phase.actor
              /\ s.phase.actor \in Players
<1> DEFINE p == s.phase.actor
           q == Other(p)
           ph == IF s.phase.street = River THEN ShowdownReveal(q, 2)
                 ELSE AllInReveal(q, s.phase.street + 1)
           x == Successor(s, ph, "Start", [r \in Players |-> MaxWager], DueSlots(s.phase))
<1>1. /\ s \in States /\ s.phase \in Phases /\ s.wagers \in [Players -> Nat]
      /\ s.last = "Raise" /\ Theirs(s) = MaxWager /\ Mine(s) < MaxWager
  BY DEF Output, Ready, States
<1>2. p \in Players /\ q \in Players /\ q # p /\ Mine(s) \in Nat /\ RequiredActor(s.phase) = p
  BY <1>1, BettingShape, ActingActor DEF ActingKinds
<1>3. DueSlots(s.phase) = RemainingSlots(p, s.phase.street + 1)
  BY <1>1, DueOf
<1>4. \A t : BuildLive(s, t) <=> t = x
  <2>1. \A t : BuildLive(s, t) <=> BuildAllInCall(s, t)
    BY OneBuilder DEF BuildLive
  <2> QED BY <1>1, <1>3, <2>1 DEF BuildAllInCall
<1>5. LiveValue(x) = v + (MaxWager - Mine(s)) /\ v \in Int
  <2>1. x.wagers[1] = MaxWager /\ x.wagers[2] = MaxWager
    BY DEF Successor, Players
  <2>2. v = LiveValue(s)
    BY Kinds DEF Output
  <2>3. s.wagers[1] + s.wagers[2] = Mine(s) + MaxWager /\ s.wagers[1] \in Nat /\ s.wagers[2] \in Nat
    BY <1>1, <1>2 DEF Mine, Theirs, Players
  <2> HIDE DEF x
  <2> QED BY <1>2, <2>1, <2>2, <2>3, AmountsAssumption DEF LiveValue
<1> QED BY <1>1, <1>2, <1>4, <1>5

LEMMA AllInCallAdmitted ==
    ASSUME NEW s, NEW v, Output(s, v), NEW tx \in Transactions, s.phase.kind = "AllIn"
    PROVE  AdmitSpend(s, v, tx) <=> Builds(s, v, tx)
<1> DEFINE p == s.phase.actor
           ph == IF s.phase.street = River THEN ShowdownReveal(Other(p), 2)
                 ELSE AllInReveal(Other(p), s.phase.street + 1)
           x == Successor(s, ph, "Start", [r \in Players |-> MaxWager], DueSlots(s.phase))
           c == MaxWager - Mine(s)
<1>1. /\ BuildLive(s, tx.post) <=> tx.post = x
      /\ LiveValue(x) = v + c /\ v \in Int
      /\ Mine(s) \in Nat /\ Mine(s) < MaxWager /\ RequiredActor(s.phase) = p /\ p # 0
  BY AllInCallBuilds DEF Players
<1>2. c \in Int /\ ~(Mine(s) > MaxWager)
  BY <1>1, AmountsAssumption
<1>3. Expected(s, tx) = {[state |-> x, paid |-> c]}
  <2>1. s.wagers[p] = Mine(s)
    BY DEF Mine
  <2> QED BY <1>1, <1>2, <2>1 DEF Expected, Expectation
<1>4. DueSlots(s.phase) \subseteq x.reveals
  BY DEF Successor
<1> HIDE DEF x, c
<1> QED BY <1>1, <1>2, <1>3, <1>4, ExpectedIsBuilt

\* For every output and every transaction at all.
LEMMA AdmissionAgrees ==
    ASSUME NEW s, NEW v, Output(s, v), NEW tx \in Transactions
    PROVE  AdmitSpend(s, v, tx) <=> Builds(s, v, tx)
<1>1. s \in States /\ s.phase \in Phases
  BY OutputFacts
<1>2. CASE s.phase = ShowdownEvaluation
  <2>1. ~BuildLive(s, tx.post)
    BY <1>2, Kinds, OneBuilder
  <2>2. RequiredActor(s.phase) = 0
    BY <1>2 DEF RequiredActor, ShowdownEvaluation, Ph
  <2> QED BY <2>1, <2>2 DEF Builds, AdmitSpend
<1> QED BY <1>1, <1>2, PhaseShape, FundingAdmitted, OpeningAdmitted, BettingAdmitted,
           RevealsAdmitted, AllInCallAdmitted DEF ActingKinds

(***************************************************************************)
(* The moves a client offers are the moves that can be built, each with    *)
(* the funding its transaction needs.  f[n] is the move to the wager n.    *)
(***************************************************************************)
OffersTo(N, mine) == {Offer(n, n - mine) : n \in N}

OffersBuilt ==
    {Offer(t.wagers[RequiredActor(state.phase)], LiveValue(t) - value) : t \in MovesBuilt}

LEMMA OffersFrom ==
    ASSUME NEW N, NEW f, NEW m,
           \A t : BuildLive(state, t) <=> \E n \in N : t = f[n],
           \A n \in N : /\ f[n] \in PlausibleSuccessors
                        /\ f[n].wagers[RequiredActor(state.phase)] = n
                        /\ LiveValue(f[n]) - value = n - m
    PROVE  OffersTo(N, m) = OffersBuilt
<1> DEFINE mine(t) == Offer(t.wagers[RequiredActor(state.phase)], LiveValue(t) - value)
<1>1. MovesBuilt = {f[n] : n \in N}
  BY DEF MovesBuilt
<1>2. \A n \in N : mine(f[n]) = Offer(n, n - m)
  OBVIOUS
<1> HIDE DEF mine
<1>3. {Offer(n, n - m) : n \in N} = {mine(t) : t \in MovesBuilt}
  BY <1>1, <1>2
<1> QED BY <1>3 DEF mine, OffersTo, OffersBuilt

LEMMA PlausibleMove ==
    ASSUME NEW ph \in Phases, NEW last \in LastActions, NEW w \in PlausibleWagers
    PROVE  Successor(state, ph, last, w, DueSlots(state.phase)) \in PlausibleSuccessors
  BY DEF PlausibleSuccessors

LEMMA OpeningOffered ==
    ASSUME Output(state, value), state.phase = AwaitPlayer2RevealAndOpening
    PROVE  OfferedMoves(state) = OffersBuilt
<1> DEFINE f == [n \in OpeningBets |-> OpeningSuccessor(state, n)]
<1>1. state.wagers = NoWagers /\ state \in States
  BY Kinds DEF Output, Ready
<1>2. RequiredActor(state.phase) = 2 /\ DueSlots(state.phase) = OpponentHoleSlots(2)
  BY DueOf, PhaseRange, Actors DEF OpponentHoleSlots
<1>3. \A t : BuildLive(state, t) <=> \E n \in OpeningBets : t = f[n]
  <2>1. \A n : OpeningSuccessor(state, n).wagers[2] = n
    BY <1>1 DEF OpeningSuccessor, Successor, NoWagers, Players
  <2> QED BY <2>1, OpeningBuilds
<1>4. ASSUME NEW n \in OpeningBets
      PROVE  f[n] \in PlausibleSuccessors /\ f[n].wagers[2] = n /\ LiveValue(f[n]) - value = n - 0
  <2>1. n \in 0..MaxWager /\ n \in Nat
    BY AmountsAssumption DEF OpeningBets
  <2>2. [state.wagers EXCEPT ![2] = n] \in PlausibleWagers
    BY <2>1 DEF PlausibleWagers, Players
  <2>3. AllIn(1, PreFlop) \in Phases /\ Betting(1, PreFlop) \in Phases
        /\ {"Check", "Raise"} \subseteq LastActions
    BY PhaseRange DEF Players, PreFlop, River, LastActions
  <2>4. f[n] \in PlausibleSuccessors
    BY <1>2, <2>2, <2>3, PlausibleMove DEF OpeningSuccessor
  <2>5. f[n].wagers[1] = 0 /\ f[n].wagers[2] = n /\ state.wagers[1] = 0 /\ state.wagers[2] = 0
    BY <1>1 DEF OpeningSuccessor, Successor, NoWagers, Players
  <2>6. value = 2 * (Stake + Bond) + state.wagers[1] + state.wagers[2]
    BY Kinds DEF Output, LiveValue
  <2> HIDE DEF f
  <2> QED BY <2>1, <2>4, <2>5, <2>6, AmountsAssumption DEF LiveValue
<1>5. OfferedMoves(state) = {Offer(0, 0)} \cup {Offer(n, n) : n \in MinBet..MaxWager}
  BY Kinds DEF OfferedMoves
<1>6. OfferedMoves(state) = OffersTo(OpeningBets, 0)
  <2>1. \A n \in OpeningBets : n - 0 = n
    BY AmountsAssumption DEF OpeningBets
  <2>2. {Offer(n, n - 0) : n \in OpeningBets} = {Offer(n, n) : n \in OpeningBets}
    BY <2>1
  <2> QED BY <1>5, <2>2 DEF OpeningBets, OffersTo
<1>7. \A n \in OpeningBets : /\ f[n] \in PlausibleSuccessors
                             /\ f[n].wagers[RequiredActor(state.phase)] = n
                             /\ LiveValue(f[n]) - value = n - 0
  BY <1>2, <1>4
<1> HIDE DEF f
<1>8. OffersTo(OpeningBets, 0) = OffersBuilt
  BY <1>3, <1>7, OffersFrom
<1> QED BY <1>6, <1>8

LEMMA AllInOffered ==
    ASSUME Output(state, value), state.phase.kind = "AllIn"
    PROVE  OfferedMoves(state) = OffersBuilt
<1> DEFINE p == state.phase.actor
           ph == IF state.phase.street = River THEN ShowdownReveal(Other(p), 2)
                 ELSE AllInReveal(Other(p), state.phase.street + 1)
           x == Successor(state, ph, "Start", [r \in Players |-> MaxWager], DueSlots(state.phase))
           f == [n \in {MaxWager} |-> x]
<1>1. /\ \A t : BuildLive(state, t) <=> t = x
      /\ LiveValue(x) = value + (MaxWager - Mine(state)) /\ value \in Int
      /\ Mine(state) \in Nat /\ RequiredActor(state.phase) = p /\ p \in Players
  BY AllInCallBuilds
<1>2. x \in PlausibleSuccessors
  <2>1. state.phase.street \in PreFlop..River /\ Other(p) \in Players
    BY <1>1, PhaseShape, OtherPlayer DEF Output, States
  <2>2. ph \in Phases /\ "Start" \in LastActions
    BY <2>1, PhaseRange DEF LastActions, PreFlop, Flop, River
  <2>3. [r \in Players |-> MaxWager] \in PlausibleWagers
    BY DEF PlausibleWagers
  <2> HIDE DEF ph
  <2> QED BY <2>2, <2>3, PlausibleMove
<1>3. x.wagers[p] = MaxWager
  BY <1>1 DEF Successor
<1>4. LiveValue(x) - value = MaxWager - Mine(state)
  BY <1>1, AmountsAssumption
<1>5. OfferedMoves(state) = {Offer(MaxWager, MaxWager - Mine(state))}
  <2>1. Mine(state) = state.wagers[RequiredActor(state.phase)]
    BY <1>1 DEF Mine
  <2> QED BY <2>1 DEF OfferedMoves
<1> HIDE DEF x
<1>6. OfferedMoves(state) = OffersTo({MaxWager}, Mine(state))
  BY <1>5 DEF OffersTo
<1>7. \A t : BuildLive(state, t) <=> \E n \in {MaxWager} : t = f[n]
  BY <1>1
<1>8. \A n \in {MaxWager} : /\ f[n] \in PlausibleSuccessors
                            /\ f[n].wagers[RequiredActor(state.phase)] = n
                            /\ LiveValue(f[n]) - value = n - Mine(state)
  BY <1>1, <1>2, <1>3, <1>4
<1> HIDE DEF f
<1>9. OffersTo({MaxWager}, Mine(state)) = OffersBuilt
  BY <1>7, <1>8, OffersFrom
<1> QED BY <1>6, <1>9

LEMMA BettingOffered ==
    ASSUME Output(state, value), state.phase.kind = "Betting"
    PROVE  OfferedMoves(state) = OffersBuilt
<1> DEFINE p == state.phase.actor
           a == Mine(state)
           o == Theirs(state)
           least == IF state.last = "Raise" THEN o - a ELSE MinBet
           from == SmallerOf(o + least, MaxWager)
           N == {n \in Nat : MayMove(state, n)}
           x(n) == Successor(state, Answer(state, n), AnswerLast(state, n),
                             [state.wagers EXCEPT ![p] = n], {})
           f == [n \in N |-> x(n)]
<1>1. BettingHistory(state) /\ state \in States /\ state.wagers \in [Players -> Nat]
  BY DEF Output, Ready, States
<1>2. /\ p \in Players /\ Other(p) \in Players /\ Other(p) # p
      /\ a \in Nat /\ o \in Nat /\ MaxWager \in Nat /\ MinBet \in Nat \ {0}
  BY <1>1, BettingShape, AmountsAssumption
<1>3. a = state.wagers[p] /\ o = state.wagers[Other(p)]
  BY DEF Mine, Theirs
<1>4. a <= o /\ o < MaxWager /\ least >= MinBet /\ least \in Nat
  <2>1. EqualWagers(state) => a = o
    BY <1>2, <1>3 DEF EqualWagers, Players
  <2> QED BY <1>1, <1>2, <2>1 DEF BettingHistory
<1>5. RequiredActor(state.phase) = p /\ DueSlots(state.phase) = {}
  BY <1>1, <1>2, ActingActor, DueOf DEF ActingKinds, States
<1>6. N = {o} \cup from..MaxWager
  <2>1. from \in Nat /\ from > o /\ (from = MaxWager \/ from = o + least)
        /\ from <= MaxWager /\ from <= o + least
    <3> HIDE DEF a, o, least
    <3> QED BY <1>2, <1>4 DEF SmallerOf
  <2>2. \A n : n \in RaiseTargets(state) <=> n \in from..MaxWager
    <3>1. least = MinimumRaise(state)
      BY DEF MinimumRaise
    <3>2. \A n : n \in RaiseTargets(state) <=>
                    /\ n \in Nat /\ n <= MaxWager /\ n > a /\ n > o
                    /\ n = MaxWager \/ n - o >= least
      BY <1>2, <3>1 DEF RaiseTargets
    <3> HIDE DEF a, o, least, from
    <3> QED BY <1>2, <1>4, <2>1, <3>2
  <2>3. \A n \in Nat : MayMove(state, n) <=> n = o \/ n \in from..MaxWager
    BY <2>2 DEF MayMove
  <2> HIDE DEF a, o, least, from
  <2> QED BY <1>2, <2>1, <2>3
<1>7. \A t : BuildLive(state, t) <=> \E n \in N : t = f[n]
  <2>1. \A t : BuildLive(state, t) <=> \E n \in Nat : MayMove(state, n) /\ t = x(n)
    BY <1>1, BettingBuilds
  <2> HIDE DEF x
  <2> QED BY <2>1
<1>8. ASSUME NEW n \in N
      PROVE  f[n] \in PlausibleSuccessors /\ f[n].wagers[p] = n /\ LiveValue(f[n]) - value = n - a
  <2>1. n \in 0..MaxWager
    <3> HIDE DEF a, o, least, N
    <3> QED BY <1>2, <1>4, <1>6 DEF SmallerOf
  <2>2. f[n] = x(n) /\ x(n).wagers = [state.wagers EXCEPT ![p] = n]
    BY DEF Successor
  <2>3. x(n) \in PlausibleSuccessors
    <3>1. [state.wagers EXCEPT ![p] = n] \in PlausibleWagers
      BY <1>2, <2>1 DEF PlausibleWagers
    <3>2. Answer(state, n) \in Phases /\ AnswerLast(state, n) \in LastActions
      BY <1>1, <2>1, AnswerBytes DEF AnswerLast, LastActions
    <3> QED BY <1>5, <3>1, <3>2, PlausibleMove
  <2>4. x(n).wagers[p] = n /\ x(n).wagers[Other(p)] = o
    BY <1>1, <1>2, <1>3, <2>2
  <2>5. x(n).wagers[1] + x(n).wagers[2] = n + o /\ state.wagers[1] + state.wagers[2] = a + o
        /\ x(n).wagers[1] \in Nat /\ x(n).wagers[2] \in Nat
        /\ state.wagers[1] \in Nat /\ state.wagers[2] \in Nat
    <3> HIDE DEF x, a, o, N
    <3> QED BY <1>2, <1>3, <2>1, <2>4 DEF Players
  <2>6. value = LiveValue(state)
    BY Kinds DEF Output
  <2>7. LiveValue(x(n)) - value = n - a
    <3> HIDE DEF x, a, o, N
    <3> QED BY <1>2, <2>1, <2>5, <2>6, AmountsAssumption DEF LiveValue
  <2> HIDE DEF x, f, a, o
  <2> QED BY <2>2, <2>3, <2>4, <2>7
<1>9. OfferedMoves(state) = OffersTo(N, a)
  <2>1. OfferedMoves(state) = {Offer(o, o - a)} \cup {Offer(n, n - a) : n \in from..MaxWager}
    <3>1. o - a >= 0
      BY <1>2, <1>4
    <3> QED BY <1>3, <1>4, <1>5, <3>1 DEF OfferedMoves
  <2> HIDE DEF N, a, o, from
  <2> QED BY <1>6, <2>1 DEF OffersTo
<1>10. \A n \in N : /\ f[n] \in PlausibleSuccessors
                    /\ f[n].wagers[RequiredActor(state.phase)] = n
                    /\ LiveValue(f[n]) - value = n - a
  BY <1>5, <1>8
<1> HIDE DEF f, N, a
<1>11. OffersTo(N, a) = OffersBuilt
  BY <1>7, <1>10, OffersFrom
<1> QED BY <1>9, <1>11

\* A client admits what the builders make and nothing else, and offers its user what
\* can be built: admission (admission.go, which recomputes the successor) and the
\* choices (hand_decide.go) are the rules of the builders on every output a covenant
\* reaches.
THEOREM AdmissionIsTheRules == Spec => []AdmissionMatchesBuilders
<1>1. (InPlay => Output(state, value)) => AdmissionMatchesBuilders
  <2> SUFFICES ASSUME InPlay, Output(state, value)
               PROVE  /\ \A tx \in Proposals : AdmitSpend(state, value, tx) <=> Built(tx)
                      /\ state.phase.kind \in {"AwaitPlayer2RevealAndOpening", "Betting", "AllIn"}
                            => OfferedMoves(state) = OffersBuilt
    BY DEF AdmissionMatchesBuilders, OffersBuilt
  <2>1. ASSUME NEW tx \in Proposals PROVE AdmitSpend(state, value, tx) <=> Built(tx)
    <3>1. tx \in Transactions
      BY ProposalsAreTransactions DEF Output
    <3>2. Built(tx) <=> Builds(state, value, tx)
      BY DEF Built, Builds
    <3> QED BY <3>1, <3>2, AdmissionAgrees
  <2>2. ASSUME state.phase.kind = "AwaitPlayer2RevealAndOpening"
        PROVE  state.phase = AwaitPlayer2RevealAndOpening
    BY <2>2, PhaseShape, Kinds DEF Output, States, ActingKinds
  <2> QED BY <2>1, <2>2, OpeningOffered, BettingOffered, AllInOffered
<1> QED BY <1>1, Outputs, PTL

\* The three forms of the rules are one predicate on the outputs of a covenant: not
\* only on the proposals of the runs but on every transaction with any successor
\* state, any value and any funding.
THEOREM OneRule ==
    Spec => [](InPlay =>
        \A tx \in Transactions :
            /\ \A p \in Players : ScriptAdmits(p, state, value, tx) <=>
                                       p = RequiredActor(state.phase) /\ Built(tx)
            /\ AdmitSpend(state, value, tx) <=> Built(tx))
<1>1. \A tx : Built(tx) <=> Builds(state, value, tx)
  BY DEF Built, Builds
<1>2. (InPlay => Output(state, value)) =>
         (InPlay =>
            \A tx \in Transactions :
                /\ \A p \in Players : ScriptAdmits(p, state, value, tx) <=>
                                           p = RequiredActor(state.phase) /\ Built(tx)
                /\ AdmitSpend(state, value, tx) <=> Built(tx))
  BY <1>1, ScriptsAgree, AdmissionAgrees
<1> QED BY <1>2, Outputs, PTL

(***************************************************************************)
(* Settlements.  The programs know a phase by its byte: a mask of bytes is *)
(* a set of kinds with a player.                                           *)
(***************************************************************************)
LEMMA ConcessionMask ==
    ASSUME NEW ph \in Phases, NEW p \in Players
    PROVE  PhaseByte(ph) \in ConcessionPhases(p) <=> ph.kind \in ConcessionKinds /\ ph.actor = p
<1> USE DEF Players, PreFlop, Flop, River
<1>1. ConcessionPhases(p) =
         {p + 1, p + 3, p + 5, p + 7, p + 21, p + 23, p + 27, p + 29, p + 31, p + 33,
          p + 35, p + 37, p + 39}
  BY DEF ConcessionPhases
<1> DEFINE Right == PhaseByte(ph) \in ConcessionPhases(p) <=>
                       ph.kind \in ConcessionKinds /\ ph.actor = p
<1>2. CASE ph \in {AwaitPlayer1FundingAndReveal, AwaitPlayer2RevealAndOpening, ShowdownEvaluation}
  <2>1. ph.kind \notin ConcessionKinds
    BY <1>2, Kinds DEF ConcessionKinds
  <2>2. PhaseByte(ph) \in {0, 1, 26}
    BY <1>2, Bytes
  <2> QED BY <1>1, <2>1, <2>2
<1>3. ASSUME NEW q \in Players, NEW st \in PreFlop..River, ph = Betting(q, st) \/ ph = AllIn(q, st)
      PROVE  Right
  <2>1. ph.kind \in ConcessionKinds /\ ph.actor = q
    BY <1>3, Kinds, Fields DEF ConcessionKinds
  <2>2. \/ PhaseByte(ph) = 2 + 2 * (st - PreFlop) + (q - 1)
        \/ PhaseByte(ph) = 28 + 2 * (st - PreFlop) + (q - 1)
    BY <1>3, Bytes
  <2>3. PhaseByte(ph) \in ConcessionPhases(p) <=> q = p
    BY <1>1, <2>2
  <2> QED BY <2>1, <2>3
<1>4. ASSUME NEW q \in Players, NEW st \in Flop..River, NEW pass \in 1..2,
             ph = BoardReveal(q, st, pass)
      PROVE  Right
  <2>1. ph.kind \notin ConcessionKinds
    BY <1>4, Kinds DEF ConcessionKinds
  <2>2. PhaseByte(ph) = 10 + 4 * (st - Flop) + 2 * (pass - 1) + (q - 1)
    BY <1>4, Bytes
  <2>3. PhaseByte(ph) \in 10..21
    BY <2>2
  <2> QED BY <1>1, <2>1, <2>3
<1>5. ASSUME NEW q \in Players, NEW pass \in 1..2, ph = ShowdownReveal(q, pass)
      PROVE  Right
  <2>1. ph.kind \in ConcessionKinds /\ ph.actor = q
    BY <1>5, Kinds, Fields DEF ConcessionKinds
  <2>2. PhaseByte(ph) = 22 + 2 * (pass - 1) + (q - 1)
    BY <1>5, Bytes
  <2>3. PhaseByte(ph) \in ConcessionPhases(p) <=> q = p
    BY <1>1, <2>2
  <2> QED BY <2>1, <2>3
<1>6. ASSUME NEW q \in Players, NEW st \in Flop..River, ph = AllInReveal(q, st)
      PROVE  Right
  <2>1. ph.kind \in ConcessionKinds /\ ph.actor = q
    BY <1>6, Kinds, Fields DEF ConcessionKinds
  <2>2. PhaseByte(ph) = 36 + 2 * (st - Flop) + (q - 1)
    BY <1>6, Bytes
  <2>3. PhaseByte(ph) \in ConcessionPhases(p) <=> q = p
    BY <1>1, <2>2
  <2> QED BY <2>1, <2>3
<1> QED BY <1>2, <1>3, <1>4, <1>5, <1>6, PhaseCases

\* The parity of a byte names the late player; nobody is late once all is revealed.
LEMMA TimeoutMask ==
    ASSUME NEW ph \in Phases, NEW p \in Players
    PROVE  PhaseByte(ph) \in TimeoutPhases(p) <=>
              RequiredActor(ph) # 0 /\ p = Other(RequiredActor(ph))
<1> USE DEF Players, PreFlop, Flop, River
<1> DEFINE Right == PhaseByte(ph) \in TimeoutPhases(p) <=>
                       RequiredActor(ph) # 0 /\ p = Other(RequiredActor(ph))
<1>1. ASSUME NEW b \in 0..41, NEW q \in Players, b # 26, b # 27, b % 2 = q - 1,
             PhaseByte(ph) = b, RequiredActor(ph) = q
      PROVE  Right
  BY <1>1 DEF TimeoutPhases, Other
<1>2. CASE ph = AwaitPlayer1FundingAndReveal \/ ph = AwaitPlayer2RevealAndOpening
  BY <1>1, <1>2, Bytes, Actors
<1>3. CASE ph = ShowdownEvaluation
  <2>1. RequiredActor(ph) = 0 /\ PhaseByte(ph) = 26
    BY <1>3, Bytes DEF RequiredActor, ShowdownEvaluation, Ph
  <2> QED BY <2>1 DEF TimeoutPhases
<1>4. ASSUME NEW q \in Players, NEW st \in PreFlop..River, ph = Betting(q, st) \/ ph = AllIn(q, st)
      PROVE  Right
  <2>1. RequiredActor(ph) = q
    BY <1>4, Actors, Fields
  <2>2. PICK b : PhaseByte(ph) = b /\ (\/ b = 2 + 2 * (st - PreFlop) + (q - 1)
                                       \/ b = 28 + 2 * (st - PreFlop) + (q - 1))
    BY <1>4, Bytes
  <2>3. b \in 0..41 /\ b # 26 /\ b # 27 /\ b % 2 = q - 1
    BY <2>2
  <2> QED BY <1>1, <2>1, <2>2, <2>3
<1>5. ASSUME NEW q \in Players, NEW st \in Flop..River, NEW pass \in 1..2,
             ph = BoardReveal(q, st, pass)
      PROVE  Right
  <2>1. RequiredActor(ph) = q
    BY <1>5, Actors, Fields
  <2>2. PICK b : PhaseByte(ph) = b /\ b = 10 + 4 * (st - Flop) + 2 * (pass - 1) + (q - 1)
    BY <1>5, Bytes
  <2>3. b \in 0..41 /\ b # 26 /\ b # 27 /\ b % 2 = q - 1
    BY <2>2
  <2> QED BY <1>1, <2>1, <2>2, <2>3
<1>6. ASSUME NEW q \in Players, NEW pass \in 1..2, ph = ShowdownReveal(q, pass)
      PROVE  Right
  <2>1. RequiredActor(ph) = q
    BY <1>6, Actors, Fields
  <2>2. PICK b : PhaseByte(ph) = b /\ b = 22 + 2 * (pass - 1) + (q - 1)
    BY <1>6, Bytes
  <2>3. b \in 0..41 /\ b # 26 /\ b # 27 /\ b % 2 = q - 1
    BY <2>2
  <2> QED BY <1>1, <2>1, <2>2, <2>3
<1>7. ASSUME NEW q \in Players, NEW st \in Flop..River, ph = AllInReveal(q, st)
      PROVE  Right
  <2>1. RequiredActor(ph) = q
    BY <1>7, Actors, Fields
  <2>2. PICK b : PhaseByte(ph) = b /\ b = 36 + 2 * (st - Flop) + (q - 1)
    BY <1>7, Bytes
  <2>3. b \in 0..41 /\ b # 26 /\ b # 27 /\ b % 2 = q - 1
    BY <2>2
  <2> QED BY <1>1, <2>1, <2>2, <2>3
<1> QED BY <1>2, <1>3, <1>4, <1>5, <1>6, <1>7, PhaseCases

\* A settlement pays one player, or two: of two, what they get.
LEMMA PayoutShape ==
    ASSUME value \in Nat, NEW outs \in Payouts
    PROVE  \/ /\ Len(outs) = 1 /\ outs = <<outs[1]>>
              /\ outs[1].amount = value
              /\ \A p \in Players : outs = <<[to |-> p, amount |-> value]>> <=> outs[1].to = p
           \/ /\ Len(outs) = 2 /\ outs[1].amount # value
              /\ \A p \in Players : \A n : outs # <<[to |-> p, amount |-> n]>>
              /\ \A x, y : outs = Pays(x, y) <=>
                    /\ outs[1].to = 1 /\ outs[1].amount = x
                    /\ outs[2].to = 2 /\ outs[2].amount = y
              /\ \A x, y : outs = Pays(x, y) <=>
                    outs[1] = [to |-> 1, amount |-> x] /\ outs[2] = [to |-> 2, amount |-> y]
<1>1. ASSUME NEW p \in Players, outs = <<[to |-> p, amount |-> value]>>
      PROVE  /\ Len(outs) = 1 /\ outs = <<outs[1]>> /\ outs[1].amount = value
             /\ \A q \in Players : outs = <<[to |-> q, amount |-> value]>> <=> outs[1].to = q
  BY <1>1
<1>2. ASSUME NEW p \in Players, NEW q \in Players, NEW n \in 1..(value - 1),
             outs = <<[to |-> p, amount |-> n], [to |-> q, amount |-> value - n]>>
      PROVE  /\ Len(outs) = 2 /\ outs[1].amount # value
             /\ \A r \in Players : \A m : outs # <<[to |-> r, amount |-> m]>>
             /\ \A x, y : outs = Pays(x, y) <=>
                   /\ outs[1].to = 1 /\ outs[1].amount = x
                   /\ outs[2].to = 2 /\ outs[2].amount = y
             /\ \A x, y : outs = Pays(x, y) <=>
                   outs[1] = [to |-> 1, amount |-> x] /\ outs[2] = [to |-> 2, amount |-> y]
  <2>1. Len(outs) = 2 /\ \A r \in Players : \A m : outs # <<[to |-> r, amount |-> m]>>
    BY <1>2
  <2>2. outs[1] = [to |-> p, amount |-> n] /\ outs[2] = [to |-> q, amount |-> value - n]
    BY <1>2
  <2>3. \A x, y : outs = Pays(x, y) <=>
           outs[1] = [to |-> 1, amount |-> x] /\ outs[2] = [to |-> 2, amount |-> y]
    BY <1>2 DEF Pays
  <2>4. ASSUME NEW x, NEW y
        PROVE  outs = Pays(x, y) <=> /\ outs[1].to = 1 /\ outs[1].amount = x
                                     /\ outs[2].to = 2 /\ outs[2].amount = y
    <3>1. outs[1] = [to |-> 1, amount |-> x] <=> outs[1].to = 1 /\ outs[1].amount = x
      BY <2>2
    <3>2. outs[2] = [to |-> 2, amount |-> y] <=> outs[2].to = 2 /\ outs[2].amount = y
      BY <2>2
    <3> QED BY <2>3, <3>1, <3>2
  <2>5. outs[1].amount # value
    BY <1>2, <2>2
  <2> QED BY <2>1, <2>3, <2>4, <2>5
<1> QED BY <1>1, <1>2 DEF Payouts

LEMMA LockedIsNat == Output(state, value) => value \in Nat
<1> SUFFICES ASSUME Output(state, value)
             PROVE  value \in Nat
  OBVIOUS
<1>1. state.wagers[1] \in Nat /\ state.wagers[2] \in Nat
  BY DEF Output, States, Players
<1>2. LiveValue(state) \in Nat
  BY <1>1, AmountsAssumption DEF LiveValue
<1>3. DepositValue \in Nat
  BY AmountsAssumption DEF DepositValue
<1> QED BY <1>2, <1>3 DEF Output

LEMMA ConcessionAgrees ==
    ASSUME Output(state, value), NEW outs \in Payouts, NEW p \in Players
    PROVE  LET paid == ConcessionPayout(state, value)
           IN ScriptConcession(p, state, value, outs) <=>
                 /\ CanConcede(state, value) /\ outs = Pays(paid[1], paid[2])
                 /\ p = RequiredActor(state.phase)
<1> DEFINE paid == ConcessionPayout(state, value)
<1>1. state.phase \in Phases
  BY DEF Output, States
<1>2. PhaseByte(state.phase) \in ConcessionPhases(p) <=>
         state.phase.kind \in ConcessionKinds /\ state.phase.actor = p
  BY <1>1, ConcessionMask
<1>3. state.phase.kind \in ConcessionKinds => RequiredActor(state.phase) = state.phase.actor
  BY ActingActor DEF ConcessionKinds, ActingKinds
<1>4. CASE Len(outs) = 1
  <2>1. \A x, y : Len(Pays(x, y)) = 2
    BY DEF Pays
  <2> QED BY <1>4, <2>1 DEF ScriptConcession
<1>5. CASE Len(outs) # 1
  <2>1. /\ Len(outs) = 2
        /\ \A x, y : outs = Pays(x, y) <=>
              /\ outs[1].to = 1 /\ outs[1].amount = x
              /\ outs[2].to = 2 /\ outs[2].amount = y
    BY <1>5, LockedIsNat, PayoutShape
  <2>2. ASSUME state.phase.actor = p
        PROVE  /\ outs[p].amount = Bond /\ outs[Other(p)].amount = value - Bond
               <=> outs[1].amount = paid[1] /\ outs[2].amount = paid[2]
    BY <2>2 DEF ConcessionPayout, Players, Other
  <2> HIDE DEF paid
  <2>3. outs = Pays(paid[1], paid[2]) <=>
           /\ outs[1].to = 1 /\ outs[1].amount = paid[1]
           /\ outs[2].to = 2 /\ outs[2].amount = paid[2]
    BY <2>1
  <2>4. ScriptConcession(p, state, value, outs) <=>
           /\ CanConcede(state, value) /\ outs = Pays(paid[1], paid[2])
           /\ p = RequiredActor(state.phase)
    BY <1>2, <1>3, <2>1, <2>2, <2>3 DEF ScriptConcession, CanConcede
  <2> QED BY <2>4 DEF paid
<1> QED BY <1>4, <1>5

LEMMA TimeoutAgrees ==
    ASSUME Output(state, value), NEW outs \in Payouts, NEW p \in Players
    PROVE  ScriptTimeout(p, state, value, outs, state.deadline) <=>
              /\ CanTimeout(state) /\ p = Other(RequiredActor(state.phase))
              /\ outs = <<[to |-> p, amount |-> value]>>
<1>1. state.phase \in Phases /\ state.deadline \in Nat
  BY DEF Output, States
<1>2. PhaseByte(state.phase) \in TimeoutPhases(p) <=>
         CanTimeout(state) /\ p = Other(RequiredActor(state.phase))
  BY <1>1, TimeoutMask DEF CanTimeout
<1> QED BY <1>1, <1>2, LockedIsNat, PayoutShape DEF ScriptTimeout

LEMMA ShowdownAgrees ==
    ASSUME Output(state, value), NEW outs \in Payouts, NEW w \in 0..2
    PROVE  LET paid == ShowdownPayout(state, w)
           IN ScriptShowdown(state, value, outs, w) <=>
                 /\ state.phase.kind = "ShowdownEvaluation" /\ state.reveals = Slots
                 /\ CanShowdown(state) /\ value = LiveValue(state)
                 /\ outs = Pays(paid[1], paid[2])
<1> DEFINE paid == ShowdownPayout(state, w)
           wager == state.wagers[1]
           g == CASE w = 1 -> 2 [] w = 0 -> 1 [] w = 2 -> 0
           first == g * (Stake + wager) + Bond
<1>1. state \in States /\ state.phase \in Phases /\ WithinCap(state)
      /\ state.wagers[1] \in Nat /\ state.wagers[2] \in Nat
  BY DEF Output, States, Players
<1>2. state.phase = ShowdownEvaluation <=> PhaseByte(state.phase) = 26
  BY <1>1, Bytes, SameByte, PhaseRange
<1>3. state.phase.kind = "ShowdownEvaluation" /\ CanShowdown(state) <=>
         state.phase = ShowdownEvaluation /\ StartEqual(state)
  BY Kinds DEF CanShowdown
<1>4. CASE state.phase # ShowdownEvaluation
  BY <1>2, <1>3, <1>4 DEF ScriptShowdown
<1>5. CASE state.phase = ShowdownEvaluation
  <2>1. /\ StartEqual(state) /\ state.reveals = Slots /\ value = LiveValue(state)
        /\ state.wagers[2] = wager /\ wager <= MaxWager /\ wager \in Nat
    BY <1>1, <1>5, Kinds, Published DEF Output, Ready, StartEqual, EqualWagers, WithinCap, Players
  <2>2. value = 2 * (wager + Half) /\ value = 2 * (Stake + Bond) + 2 * wager
    <3> HIDE DEF wager
    <3>1. value = 2 * (Stake + Bond) + wager + wager
      BY <2>1 DEF LiveValue, wager
    <3> QED BY <2>1, <3>1, AmountsAssumption DEF Half
  <2>3. first = paid[1] /\ value - first = paid[2]
    <3>1. LiveValue(state) = 2 * (Stake + Bond) + 2 * wager
      BY <2>1, <2>2
    <3>2. /\ w = 0 => paid[1] = LiveValue(state) \div 2 /\ paid[2] = LiveValue(state) \div 2
          /\ w = 1 => paid[1] = LiveValue(state) - Bond /\ paid[2] = Bond
          /\ w = 2 => paid[1] = Bond /\ paid[2] = LiveValue(state) - Bond
      BY DEF ShowdownPayout, Players
    <3>3. /\ w = 0 => first = Stake + wager + Bond
          /\ w = 1 => first = 2 * (Stake + wager) + Bond
          /\ w = 2 => first = Bond
      <4> HIDE DEF wager
      <4> QED BY <2>1, AmountsAssumption
    <3> HIDE DEF paid, wager, first
    <3>4. CASE w = 0
      <4>1. LiveValue(state) \div 2 = Stake + Bond + wager
        BY <2>1, <3>1, AmountsAssumption
      <4> QED BY <2>1, <2>2, <3>2, <3>3, <3>4, <4>1, AmountsAssumption
    <3>5. CASE w = 1
      BY <2>1, <2>2, <3>1, <3>2, <3>3, <3>5, AmountsAssumption
    <3>6. CASE w = 2
      BY <2>1, <2>2, <3>1, <3>2, <3>3, <3>6, AmountsAssumption
    <3> QED BY <3>4, <3>5, <3>6
  <2>4. Len(outs) >= 2 /\ outs[1] = [to |-> 1, amount |-> first]
          /\ outs[2] = [to |-> 2, amount |-> value - first]
        <=> outs = Pays(first, value - first)
    <3>1. \A x, y : Len(Pays(x, y)) = 2
      BY DEF Pays
    <3> HIDE DEF first
    <3> QED BY <3>1, LockedIsNat, PayoutShape
  <2>5. ScriptShowdown(state, value, outs, w) <=>
           Len(outs) >= 2 /\ outs[1] = [to |-> 1, amount |-> first]
             /\ outs[2] = [to |-> 2, amount |-> value - first]
    BY <1>2, <1>5, <2>1, <2>2 DEF ScriptShowdown, StartEqual
  <2> HIDE DEF first, paid
  <2>6. ScriptShowdown(state, value, outs, w) <=>
           /\ state.phase.kind = "ShowdownEvaluation" /\ state.reveals = Slots
           /\ CanShowdown(state) /\ value = LiveValue(state)
           /\ outs = Pays(paid[1], paid[2])
    BY <1>3, <1>5, <2>1, <2>3, <2>4, <2>5
  <2> QED BY <2>6 DEF paid
<1> QED BY <1>4, <1>5

\* Both clients read a settlement the way the emulator meant it: of the kinds that
\* pay the locked value to one player or to two, the one a client reads from the
\* payouts alone (admitTerminal) is the one whose program accepts them
\* (program_terminal.go), and no payouts are accepted by two.
THEOREM SettlementsReadOneWay == Spec => []TerminalReadingIsUnambiguous
<1>1. (InPlay => Output(state, value)) /\ TypeOK => TerminalReadingIsUnambiguous
  <2> SUFFICES ASSUME InPlay, Output(state, value), winner \in 0..2, NEW outs \in Payouts
               PROVE  AdmitTerminal(state, value, outs, winner) = ScriptSettlements(outs)
    BY DEF TerminalReadingIsUnambiguous, TypeOK
  <2> DEFINE actor == RequiredActor(state.phase)
             conceded == ConcessionPayout(state, value)
             shown == ShowdownPayout(state, winner)
             Concedes == CanConcede(state, value) /\ outs = Pays(conceded[1], conceded[2])
             Expires == CanTimeout(state) /\ outs = <<[to |-> Other(actor), amount |-> value]>>
             Shows == /\ state.phase.kind = "ShowdownEvaluation" /\ state.reveals = Slots
                      /\ CanShowdown(state) /\ value = LiveValue(state)
                      /\ outs = Pays(shown[1], shown[2])
             concessions == {q \in Players : ScriptConcession(q, state, value, outs)}
             timeouts == {q \in Players : ScriptTimeout(q, state, value, outs, state.deadline)}
  <2>1. state.phase \in Phases
    BY DEF Output, States
  <2>2. actor # 0 => actor \in Players /\ Other(actor) \in Players
    BY <2>1, PhaseShape, Actors, ActingActor, OtherPlayer
       DEF Players, RequiredActor, ShowdownEvaluation, Ph
  <2>3. concessions = IF Concedes THEN {actor} ELSE {}
    <3>1. \A q \in Players : q \in concessions <=> Concedes /\ q = actor
      BY ConcessionAgrees
    <3>2. Concedes => actor # 0
      BY <2>1, PhaseShape, Kinds, ActingActor DEF CanConcede, ConcessionKinds, ActingKinds, Players
    <3>3. concessions \subseteq Players
      OBVIOUS
    <3> HIDE DEF concessions, Concedes, actor
    <3> QED BY <2>2, <3>1, <3>2, <3>3
  <2>4. timeouts = IF Expires THEN {Other(actor)} ELSE {}
    <3>1. \A q \in Players : q \in timeouts <=> Expires /\ q = Other(actor)
      BY TimeoutAgrees
    <3>2. Expires => actor # 0
      BY DEF CanTimeout
    <3>3. timeouts \subseteq Players
      OBVIOUS
    <3> HIDE DEF timeouts, Expires, actor
    <3> QED BY <2>2, <3>1, <3>2, <3>3
  <2>5. ScriptShowdown(state, value, outs, winner) <=> Shows
    BY ShowdownAgrees
  <2>6. ~(Concedes /\ Expires) /\ ~(Concedes /\ Shows) /\ ~(Expires /\ Shows)
    <3>1. \A x, y, z : Pays(x, y) # <<z>>
      BY DEF Pays
    <3>2. Concedes => state.phase.kind # "ShowdownEvaluation"
      BY DEF CanConcede, ConcessionKinds
    <3> QED BY <3>1, <3>2
  <2>7. AdmitTerminal(state, value, outs, winner) =
           IF Concedes THEN {[kind |-> "concession", winner |-> Other(actor)]}
           ELSE IF Expires THEN {[kind |-> "timeout", winner |-> Other(actor)]}
           ELSE IF Shows THEN {[kind |-> "showdown", winner |-> winner]}
           ELSE {}
    BY DEF AdmitTerminal
  <2>8. ScriptSettlements(outs) =
           {[kind |-> "concession", winner |-> Other(p)] : p \in concessions}
           \cup {[kind |-> "timeout", winner |-> p] : p \in timeouts}
           \cup (IF Shows THEN {[kind |-> "showdown", winner |-> winner]} ELSE {})
    BY <2>5 DEF ScriptSettlements
  <2> HIDE DEF actor, Concedes, Expires, Shows, concessions, timeouts
  <2> QED BY <2>3, <2>4, <2>6, <2>7, <2>8
<1> QED BY <1>1, Outputs, TypeCorrect, PTL

\* Some builder serves every output whose shares are not all out.
LEMMA SomeMove ==
    ASSUME NEW s, NEW v, Output(s, v), s.phase # ShowdownEvaluation
    PROVE  \E t \in States : BuildLive(s, t)
<1>1. s \in States /\ s.phase \in Phases /\ WithinCap(s) /\ Ready(s)
  BY DEF Output, States
<1>2. CASE s.phase = AwaitPlayer1FundingAndReveal
  <2>1. \E t : BuildPlayer1Funding(s, t)
    BY <1>1, <1>2, Kinds DEF BuildPlayer1Funding, Ready
  <2> QED BY <1>1, <2>1, FundingMoves DEF Moves, BuildLive
<1>3. CASE s.phase = AwaitPlayer2RevealAndOpening
  <2>1. s.last = "Start" /\ s.wagers = NoWagers /\ 0 \in OpeningBets
    BY <1>1, <1>3, Kinds DEF Ready, OpeningBets
  <2>2. \E t : BuildPlayer2Opening(s, t)
    BY <1>3, <2>1 DEF BuildPlayer2Opening
  <2> QED BY <1>1, <2>2, OpeningMoves DEF Moves, BuildLive
<1>4. CASE s.phase.kind = "Betting"
  <2>1. BettingHistory(s)
    BY <1>1, <1>4 DEF Ready
  <2>2. BuildCheck(s, Matched(s)) \/ BuildCall(s, Matched(s))
    BY <2>1 DEF BuildCheck, BuildCall
  <2> QED BY <1>1, <2>1, <2>2, MatchedMoves DEF Moves, BuildLive
<1>5. CASE s.phase.kind = "BoardReveal"
  <2>1. \E t : BuildBoardReveal(s, t)
    BY <1>1, <1>5 DEF BuildBoardReveal, Ready
  <2> QED BY <1>1, <2>1, BoardRevealMoves DEF Moves, BuildLive
<1>6. CASE s.phase.kind = "ShowdownReveal"
  <2>1. StartEqual(s) /\ (s.phase.pass = 1 => s.wagers[1] # MaxWager)
    <3>1. StartEqual(s) /\ (s.phase.pass = 1 => s.wagers[1] < MaxWager)
      BY <1>1, <1>6 DEF Ready
    <3> QED BY <3>1, AmountsAssumption
  <2>2. \E t : BuildShowdownReveal(s, t)
    BY <1>6, <2>1 DEF BuildShowdownReveal
  <2> QED BY <1>1, <2>2, ShowdownRevealMoves DEF Moves, BuildLive
<1>7. CASE s.phase.kind = "AllIn"
  <2>1. \E t : BuildAllInCall(s, t)
    BY <1>1, <1>7 DEF BuildAllInCall, Ready
  <2> QED BY <1>1, <2>1, AllInCallMoves DEF Moves, BuildLive
<1>8. CASE s.phase.kind = "AllInReveal"
  <2>1. \E t : BuildAllInReveal(s, t)
    BY <1>1, <1>8 DEF BuildAllInReveal, Ready
  <2> QED BY <1>1, <2>1, AllInRevealMoves DEF Moves, BuildLive
<1> QED BY <1>1, <1>2, <1>3, <1>4, <1>5, <1>6, <1>7, <1>8, PhaseShape DEF ActingKinds

\* Nobody is trapped: on every output of a covenant the obliged player has a
\* transaction that its builder makes, the emulator accepts and the opponent's client
\* follows; and when nobody is obliged any more the showdown can be built.
THEOREM NobodyIsTrapped ==
    Spec => [](InPlay =>
        IF state.phase = ShowdownEvaluation
        THEN CanShowdown(state)
        ELSE \E tx \in Transactions :
                 /\ Built(tx)
                 /\ RequiredActor(state.phase) \in Players
                 /\ ScriptAdmits(RequiredActor(state.phase), state, value, tx)
                 /\ AdmitSpend(state, value, tx))
<1> DEFINE Untrapped ==
             IF state.phase = ShowdownEvaluation
             THEN CanShowdown(state)
             ELSE \E tx \in Transactions :
                      /\ Built(tx)
                      /\ RequiredActor(state.phase) \in Players
                      /\ ScriptAdmits(RequiredActor(state.phase), state, value, tx)
                      /\ AdmitSpend(state, value, tx)
<1>1. (InPlay => Output(state, value)) => (InPlay => Untrapped)
  <2> SUFFICES ASSUME InPlay, Output(state, value) PROVE Untrapped
    OBVIOUS
  <2>1. CASE state.phase = ShowdownEvaluation
    BY <2>1, Kinds DEF CanShowdown, Output, Ready
  <2>2. CASE state.phase # ShowdownEvaluation
    <3>1. PICK t \in States : BuildLive(state, t)
      BY <2>2, SomeMove
    <3> DEFINE tx == [post |-> t, out |-> LiveValue(t), funded |-> LiveValue(t) > value]
    <3>2. LiveValue(t) \in Int /\ (LiveValue(t) > value) \in BOOLEAN
      BY LiveValueType
    <3>3. tx \in Transactions
      BY <3>2 DEF Transactions
    <3>4. Built(tx) /\ Builds(state, value, tx)
      BY <3>1 DEF Built, Builds
    <3>5. RequiredActor(state.phase) \in Players
      <4>1. state.phase \in Phases
        BY DEF Output, States
      <4> QED BY <2>2, <4>1, PhaseShape, Actors, ActingActor DEF Players
    <3> HIDE DEF tx
    <3> QED BY <2>2, <3>3, <3>4, <3>5, ScriptsAgree, AdmissionAgrees
  <2> QED BY <2>1, <2>2
<1> QED BY <1>1, Outputs, PTL
=============================================================================
