-------------------------- MODULE WalletProperties --------------------------
(***************************************************************************)
(* What the wallet promises of a saved spend, stated over Wallet.          *)
(***************************************************************************)
EXTENDS Wallet

\* "It never burns small change" (src/internal/wallet/funding.go:30): the coins of a
\* saved spend are worth the amount and admissible change, to the satoshi.
CoinsOf(spend) == ToSet(spend.sources) \ {Covenant}
FundingIsExact ==
    \A spend \in saved :
        LET change == Change(CoinsOf(spend))
        IN change = 0 \/ change \in MinAmount..MaxAmount

\* The greedy selection gives up only if all the coins together would not do either.
RefusalIsJustified ==
    \A offered \in proc.refused :
        ~(Change(offered) = 0 \/ Change(offered) \in MinAmount..MaxAmount)

\* "Every response is merged against the exact saved work"
\* (src/internal/wallet/submission.go:25): what is finalized is the saved transaction
\* with the signatures that were saved for it, whatever the services answered, and a
\* native client has seen Arkd's on all of it.
FinalizedWorkIsSaved ==
    \A work \in finalized, spend \in saved :
        /\ Unsigned(work) = Unsigned(spend.bundle)
        /\ \A packet \in AllPackets(work) :
              {s \in packet.sigs : s.by = "player"} = {Signature("player")}
        /\ order.native => ServiceSigned(work)

SpendIsExact == FundingIsExact /\ RefusalIsJustified /\ FinalizedWorkIsSaved

(***************************************************************************)
(* Liveness: calls return, queries are answered, finalized transactions    *)
(* are published, and a player starts a stopped client again.              *)
(***************************************************************************)
Fairness ==
    /\ WF_vars(Work) /\ WF_vars(Start)
    /\ WF_vars(\E tx \in {"ours", "theirs"} : Publish(tx))
FairSpec == Spec /\ Fairness

\* The spend is accepted, or another one took its place, or one of its coins is gone.
Decided ==
    \/ observed # "nothing"
    \/ \E c \in UNION {CoinsOf(spend) : spend \in saved} :
          spender[c] = "theirs" /\ progress["theirs"] = "final"

\* A service that signed the checkpoints and was never asked to finalize holds the
\* sources of the spend: no client retries what is pending ("Missing, pending,
\* unavailable or failed queries never authorize retry", src/internal/game/protocol.md:299).
LeftPending == progress["ours"] \in {"accepted", "marked", "body"} /\ finalized = {} /\ failures > 0

\* A saved spend is decided whatever call fails and whenever the process stops -
\* except between the service's signature and the request to finalize.
SavedSpendIsDecided == saved # {} ~> (Decided \/ LeftPending)
=============================================================================
