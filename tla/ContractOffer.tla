--------------------------- MODULE ContractOffer ----------------------------
(***************************************************************************)
(* What setup promises: the creator of an invitation offers one contract   *)
(* to one joiner, never changes the offer, and the joiner takes exactly    *)
(* that contract or refuses it for good.                                   *)
(***************************************************************************)
CONSTANT Contracts

VARIABLES
    offer,      \* the contract offered, a set of at most one
    answer      \* what came of it: "none", "taken", "refused"

vars == <<offer, answer>>

Init ==
    /\ offer = {}
    /\ answer = "none"

MakeOffer ==
    /\ offer = {}
    /\ offer' \subseteq Contracts /\ \E c \in offer' : offer' = {c}
    /\ UNCHANGED answer

AnswerOffer ==
    /\ offer # {} /\ answer = "none"
    /\ answer' \in {"taken", "refused"}
    /\ UNCHANGED offer

Next == MakeOffer \/ AnswerOffer

Spec == Init /\ [][Next]_vars
=============================================================================
