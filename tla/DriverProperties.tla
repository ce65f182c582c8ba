-------------------------- MODULE DriverProperties --------------------------
(***************************************************************************)
(* What exact recovery promises (src/internal/game/protocol.md, "Exact     *)
(* recovery"), stated over Drivers.                                        *)
(***************************************************************************)
EXTENDS Drivers

(***************************************************************************)
(* Safety.                                                                 *)
(***************************************************************************)
\* Of every covenant output, and of the wallet coins of the deposit, a client ever
\* sends one spend with one signature, through any number of crashes, uncertain
\* responses, retries and second thoughts: "No coins, transaction, proof or
\* signature are regenerated" (src/internal/game/protocol.md:302).
OneBundlePerSource ==
    \A b \in sent, c \in sent :
        b.tx.by = c.tx.by /\ b.tx.source = c.tx.source => b = c

\* A bundle that may still be accepted is in its sender's log, exactly as it was
\* sent: whatever a crash loses, the next process can account for the money.
NothingSentIsForgotten ==
    \A b \in sent :
        LET p == b.tx.by
        IN b.tx.source >= log[p].seen =>
              /\ log[p].spend.tx = {b.tx} /\ log[p].spend.sig = b.sig
              /\ ~log[p].aborted

\* "No local money is locked yet" (src/internal/game/reduce.go:315): a player whose
\* setup was aborted has nothing in the covenant and never will.
AbortLocksNothing ==
    \A p \in Players : log[p].aborted =>
        /\ \A b \in sent : b.tx.by # p
        /\ \A i \in 1..Len(accepted) : accepted[i].by # p

\* Two clients that both report a result report the same one, and neither reports
\* a result while the opponent's money is undecided.
ResultsAreFinal ==
    \A p \in Players : log[p].finished =>
        /\ Settled /\ log[p].seen = Len(accepted)
        /\ \A b \in sent : b.tx.source < Len(accepted)

(***************************************************************************)
(* Liveness.  Services answer now and then; a driver takes its automatic   *)
(* steps; its user reopens the application after a crash or an error and   *)
(* claims timeouts.  Nobody has to bet, reveal or fund.                    *)
(***************************************************************************)
AcceptCall(p) ==
    Calling(p) /\ \E b \in sent : b.tx \in log[p].spend.tx /\ Accept(b)
ClaimOrSettle(p) ==
    \E tx \in Permitted(p, log[p].seen) : tx.kind \in {"timeout", "showdown"} /\ Prepare(p, tx)

ServicesFair == WF_vars(Index) /\ WF_vars(Tick) /\ \A p \in Players : SF_vars(AcceptCall(p))
DriverFair(p) ==
    /\ WF_vars(Start(p)) /\ WF_vars(Observe(p)) /\ WF_vars(Inspect(p)) /\ WF_vars(ClaimOrSettle(p))
    /\ WF_vars(Sign(p)) /\ WF_vars(Submit(p)) /\ WF_vars(Reply(p))
    /\ WF_vars(RecoverResume(p)) /\ WF_vars(RecoverRetry(p))
FairSpec == Spec /\ ServicesFair /\ \A p \in Players : DriverFair(p)

\* A result reaches both players, unless setup was aborted: neither waits for ever
\* on a hand that is over.
ResultIsLearned == Settled ~> \A p \in Players : log[p].finished \/ log[p].aborted

\* Whatever crashes, is lost or arrives late, and though the opponent may have
\* aborted, a deposit that was accepted is paid out in the end.
DepositIsPaidOut == accepted # <<>> ~> Settled

\* A saved action is decided one way or the other: it, or a spend that supersedes
\* it, is learned to be accepted.
SavedActionIsDecided ==
    \A p \in Players :
        Saved(p) /\ log[p].seen > 0 ~> ~Saved(p)

\* "abort retains the saved game so it can be resumed" (README.md:56), for a game
\* retained because its deposit is already saved.
RetainedGameResumes == Saved(2) /\ log[2].seen = 0 ~> log[2].seen > 0 \/ log[2].aborted
=============================================================================
