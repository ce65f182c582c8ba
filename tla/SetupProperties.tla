-------------------------- MODULE SetupProperties ---------------------------
(***************************************************************************)
(* What setup promises (src/internal/game/protocol.md, "Setup ordering"),  *)
(* stated over Setup.                                                      *)
(***************************************************************************)
EXTENDS Setup

(***************************************************************************)
(* Safety.                                                                 *)
(***************************************************************************)
\* "A restored publication reuses those carrier bytes without another timestamp,
\* serializer or signature" (src/internal/game/protocol.md:262): through any stops,
\* an author gives the relay one carrier of each message.
OneCarrierPerMessage ==
    \A c \in relay, d \in relay :
        c.message.from = d.message.from /\ c.message.seq = d.message.seq => c = d

\* Parties that all run this code never take one another for an equivocator, an
\* intruder or a cheat, whatever is repeated, reordered or restarted.
HonestTrafficIsAdmitted ==
    \A p \in Parties : proc[p].fault = "none" /\ Stage(p) # "Invalid"

\* Of all who hold the invitation one joiner gets beyond the key exchange, the one
\* the creator's log names ("A received key offer pins the peer identity",
\* src/internal/game/protocol.md:19).
OneJoinerProceeds ==
    \A j \in Joiners : log[j].peer # {} => log[Creator].peer = {j}

\* A joiner whose clock is within the allowed skew gives up for one reason only:
\* too little time is left to fund (src/internal/game/setup_admission.go:97-103).
ExpiredMeansLate ==
    \A j \in Joiners :
        Stage(j) = "Expired" /\ ahead[j] \in -SkewAllowed..SkewAllowed =>
            \A m \in log[Creator].final : Now(j) + Margin > m.deadline

\* The setup implements the offer of one contract: what the creator's log calls final
\* is offered, and the joiner takes precisely that or refuses.
Contract(m) == [joiner |-> m.binding, over |-> m.over, deck |-> m.deck, deadline |-> m.deadline]
Offered == {Contract(m) : m \in log[Creator].final}
Taken == {Contract(m) : m \in UNION {log[j].final : j \in Joiners}}
Answer ==
    IF Taken # {} THEN IF Taken = Offered THEN "taken" ELSE "another contract"
    ELSE IF \E j \in Joiners : Stage(j) = "Expired" THEN "refused" ELSE "none"
AllContracts ==
    [joiner : SUBSET Joiners, over : Nat, deck : Nat, deadline : Int]
TheOffer == INSTANCE ContractOffer WITH
    Contracts <- AllContracts, offer <- Offered, answer <- Answer
OffersOneContract == TheOffer!Init /\ [][TheOffer!Next]_(TheOffer!vars)

(***************************************************************************)
(* Liveness.  The relay stores what it accepts and sends it to whoever      *)
(* subscribes; a stopped process is started again; the driver takes every  *)
(* step of setup without its user.                                         *)
(***************************************************************************)
PartyFair(p) ==
    /\ WF_vars(Start(p)) /\ WF_vars(PartyStep(p))
    /\ \A q \in Parties : WF_vars(\E c \in relay : c.message.from = q /\ Deliver(p, c))
FairSpec == Spec /\ \A p \in Parties : PartyFair(p)

\* Once the creator has chosen a joiner, both reach a decision: the creator has made
\* its offer and the joiner has taken or refused it.
SetupIsDecided ==
    \A j \in Joiners :
        log[Creator].peer = {j} ~> Stage(Creator) = "Agreed" /\ Stage(j) \in {"Agreed", "Expired"}
=============================================================================
