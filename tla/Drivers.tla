------------------------------ MODULE Drivers -------------------------------
(***************************************************************************)
(* The two game drivers (src/internal/game: driver*.go, hand_reduce.go,    *)
(* journal.go) against the services they share.  A driver is one loop that *)
(* alternates effects with durable appends to its log; a crash keeps the   *)
(* log and loses everything else.  It prepares a transaction, saves it,    *)
(* signs it, saves that, submits it, saves the outcome of the call, and    *)
(* believes only accepted transactions it finds at the indexer.            *)
(*                                                                         *)
(* The hand is abstracted to its skeleton, which Covenant justifies: each  *)
(* covenant output obliges one player, the turns alternate, deadlines are  *)
(* one interval apart, and the last output may be settled by either.       *)
(* Output k is made by the k-th accepted transaction; source 0 stands for  *)
(* the wallet coins of the deposit.  Wallet coins are spent by nothing but *)
(* this game, and both clients and the emulator read one clock.            *)
(***************************************************************************)
EXTENDS Integers, Sequences, FiniteSets

CONSTANTS Last,             \* the output that only a showdown settles
          Choices,          \* different transactions a user may choose among
          InitialDeadline, Interval,
          Margin,           \* funding needs this long before the deadline: 30 s
          RetryDelay,       \* between ordinary submissions: 5 s
          Priority,         \* head start of the favoured settler: 30 s
          Favoured,         \* the winner, or Player 1 on a tie
          MaxClock,         \* model bound: the clock stops here
          MaxCrashes        \* model bound: crashes of both drivers together

ASSUME SkeletonAssumption == Last \in Nat /\ Last >= 3 /\ Favoured \in {1, 2}
ASSUME TimesAssumption ==
    {InitialDeadline, Interval, Margin, RetryDelay, Priority, MaxClock, MaxCrashes} \subseteq Nat

VARIABLES
    accepted,   \* the service: finalized transactions of this game, in order
    indexed,    \* how many of them the indexer shows
    sent,       \* signed bundles that left a client and may arrive, at any time
    log,        \* durable, per player: what replaying its journal yields
    proc,       \* volatile, per player: the driver process
    signings,   \* per player: signatures made of the saved work; no two are equal
    crashes, clock

services == <<accepted, indexed>>
vars == <<accepted, indexed, sent, log, proc, signings, crashes, clock>>

Players == {1, 2}
Other(p) == 3 - p

Obliged(k) == IF k = Last THEN 0 ELSE IF k % 2 = 1 THEN 1 ELSE 2
Deadline(k) == InitialDeadline + (k - 1) * Interval

Tx(source, kind, p, choice) == [source |-> source, kind |-> kind, by |-> p, choice |-> choice]
Terminal(tx) == tx.kind \in {"concession", "timeout", "showdown"}
Settled == accepted # <<>> /\ Terminal(accepted[Len(accepted)])

\* Slip: no refund while Player 1 has not funded.
PermittedWithoutRefund(p, k) ==
    (IF k = 0 /\ p = 2 THEN {Tx(0, "deposit", p, c) : c \in Choices} ELSE {})
    \cup (IF k > 0 /\ k < Last /\ Obliged(k) = p THEN {Tx(k, "move", p, c) : c \in Choices} ELSE {})
    \cup (IF k > 1 /\ Obliged(k) = Other(p) THEN {Tx(k, "timeout", p, 0)} ELSE {})
    \cup (IF k = Last THEN {Tx(k, "showdown", p, 0)} ELSE {})

\* actionPermitted: what p may prepare when its log has reached output k.
Permitted(p, k) ==
    (IF k = 0 /\ p = 2 THEN {Tx(0, "deposit", p, c) : c \in Choices} ELSE {})
    \cup (IF k = 1 /\ p = 1 THEN {Tx(1, "funding", p, c) : c \in Choices} ELSE {})
    \cup (IF k > 1 /\ Obliged(k) = p THEN {Tx(k, "move", p, c) : c \in Choices} ELSE {})
    \cup (IF k > 2 /\ Obliged(k) = p THEN {Tx(k, "concession", p, 0)} ELSE {})
    \cup (IF k > 0 /\ Obliged(k) = Other(p) THEN {Tx(k, "timeout", p, 0)} ELSE {})
    \cup (IF k = Last THEN {Tx(k, "showdown", p, 0)} ELSE {})

NoSpend == [tx |-> {}, sig |-> 0, submitted |-> FALSE, attempt |-> 0]
Saved(p) == log[p].spend # NoSpend
Signed(p) == log[p].spend.sig # 0

EmptyLog == [seen |-> 0, finished |-> FALSE, aborted |-> FALSE, spend |-> NoSpend, observedAt |-> 0]
Running(recovering) ==
    [mode |-> "running", recovering |-> recovering, retried |-> FALSE,
     unspent |-> FALSE, call |-> "none", calledAt |-> 0]
Stopped(mode) == [Running(FALSE) EXCEPT !.mode = mode]

\* Setup has ended: Player 2 is about to deposit, Player 1 to look for the deposit.
Init ==
    /\ accepted = <<>>
    /\ indexed = 0
    /\ sent = {}
    /\ log = [p \in Players |-> EmptyLog]
    /\ proc = [p \in Players |-> Running(FALSE)]
    /\ signings = [p \in Players |-> 0]
    /\ crashes = 0
    /\ clock = 0

(***************************************************************************)
(* The services.                                                           *)
(***************************************************************************)
\* The first valid spend of an output wins; every other is refused for good.
Accept(b) ==
    /\ b \in sent
    /\ ~Settled /\ b.tx.source = Len(accepted)
    /\ b.tx.kind = "timeout" => clock >= Deadline(b.tx.source)
    /\ accepted' = Append(accepted, b.tx)
    /\ UNCHANGED <<indexed, sent, log, proc, signings, crashes, clock>>

Index ==
    /\ indexed < Len(accepted)
    /\ indexed' = indexed + 1
    /\ UNCHANGED <<accepted, sent, log, proc, signings, crashes, clock>>

Tick ==
    /\ clock < MaxClock
    /\ clock' = clock + 1
    /\ UNCHANGED <<services, sent, log, proc, signings, crashes>>

(***************************************************************************)
(* One driver between two effects.                                         *)
(***************************************************************************)
Idle(p) ==
    /\ proc[p].mode = "running" /\ proc[p].call = "none"
    /\ ~log[p].aborted /\ ~log[p].finished

\* An inspection finds no accepted spend of the source.  The answer is used after
\* further calls have returned: by then it may be stale, and where the index lags
\* it was stale when it was given.
Inspect(p) ==
    /\ Idle(p) /\ ~proc[p].unspent
    /\ log[p].seen = indexed
    /\ proc' = [proc EXCEPT ![p].unspent = TRUE]
    /\ UNCHANGED <<services, sent, log, signings, crashes, clock>>

FoundUnspent(p) == proc[p].unspent
InspectAgain(p) == proc' = [proc EXCEPT ![p].unspent = FALSE]

SetSpend(p, spend) == log' = [log EXCEPT ![p].spend = spend]

\* Slip: a process with saved work looks for that work alone (inspectPrepared
\* without the inspection of the source).
ObserveOwnWork(p) ==
    /\ Idle(p)
    /\ log[p].seen < indexed
    /\ LET k == log[p].seen + 1
       IN /\ Saved(p) => accepted[k] \in log[p].spend.tx
          /\ log' = [log EXCEPT ![p] = [@ EXCEPT !.seen = k, !.spend = NoSpend,
                                                 !.finished = Terminal(accepted[k])]]
    /\ InspectAgain(p)
    /\ UNCHANGED <<services, sent, signings, crashes, clock>>

\* inspectSource, inspectPrepared, discoverDeposit: accepted evidence supersedes
\* any saved work.  Reducer cases DepositObserved and SpendObserved.  (The model
\* then forgets p's bundles for the spent source: no service accepts them.)
Observe(p) ==
    /\ Idle(p)
    /\ log[p].seen < indexed
    /\ LET k == log[p].seen + 1
       IN log' = [log EXCEPT ![p] =
                    [@ EXCEPT !.seen = k, !.spend = NoSpend, !.finished = Terminal(accepted[k]),
                              !.observedAt = IF k = Last THEN clock ELSE 0]]
    /\ sent' = {b \in sent : b.tx.by # p \/ b.tx.source > log[p].seen}
    /\ signings' = [signings EXCEPT ![p] = 0]
    /\ InspectAgain(p)
    /\ UNCHANGED <<services, crashes, clock>>

WindowOpen == clock + Margin <= InitialDeadline

\* What PrepareAction and SpendPrepared require of the time.
MayPrepare(p, tx) ==
    CASE tx.kind \in {"deposit", "funding"} -> WindowOpen
      [] tx.kind = "timeout" -> clock >= Deadline(tx.source)
      [] tx.kind = "showdown" -> p = Favoured \/ clock >= log[p].observedAt + Priority
      [] OTHER -> TRUE

Prepare(p, tx) ==
    /\ Idle(p) /\ ~proc[p].recovering /\ ~Saved(p)
    /\ FoundUnspent(p)
    /\ tx \in Permitted(p, log[p].seen) /\ MayPrepare(p, tx)
    /\ SetSpend(p, [NoSpend EXCEPT !.tx = {tx}])
    /\ InspectAgain(p)
    /\ UNCHANGED <<services, sent, signings, crashes, clock>>

\* checkSigningTime, before signing and before every submission.
SigningTime(p) ==
    \A tx \in log[p].spend.tx : tx.kind \in {"deposit", "funding"} => WindowOpen

Sign(p) ==
    /\ Idle(p) /\ ~proc[p].recovering /\ Saved(p) /\ ~Signed(p)
    /\ FoundUnspent(p) /\ SigningTime(p)
    /\ signings' = [signings EXCEPT ![p] = @ + 1]
    /\ SetSpend(p, [log[p].spend EXCEPT !.sig = signings[p] + 1])
    /\ InspectAgain(p)
    /\ UNCHANGED <<services, sent, crashes, clock>>

\* The signature was made, the append that saves it never became durable.
SignLost(p) ==
    /\ Idle(p) /\ ~proc[p].recovering /\ Saved(p) /\ ~Signed(p)
    /\ FoundUnspent(p) /\ SigningTime(p)
    /\ crashes < MaxCrashes
    /\ signings' = [signings EXCEPT ![p] = @ + 1]
    /\ crashes' = crashes + 1
    /\ proc' = [proc EXCEPT ![p] = Stopped("down")]
    /\ UNCHANGED <<services, sent, log, clock>>

\* The interval between two ordinary submissions of the same work.
DelayOver(p) == log[p].spend.submitted => clock >= log[p].spend.attempt + RetryDelay

Send(p, call) ==
    /\ sent' = sent \cup {[tx |-> tx, sig |-> log[p].spend.sig] : tx \in log[p].spend.tx}
    /\ proc' = [proc EXCEPT ![p] =
                  [@ EXCEPT !.call = call, !.calledAt = clock, !.unspent = FALSE,
                            !.retried = proc[p].retried \/ call = "retry"]]
    /\ UNCHANGED <<services, log, signings, crashes, clock>>

Submit(p) ==
    /\ Idle(p) /\ ~proc[p].recovering /\ Saved(p) /\ Signed(p)
    /\ DelayOver(p) /\ FoundUnspent(p) /\ SigningTime(p)
    /\ Send(p, "submit")

\* A funding window that closed under saved work stops the driver with an error.
Expire(p) ==
    /\ Idle(p) /\ Saved(p) /\ FoundUnspent(p) /\ ~SigningTime(p)
    /\ IF proc[p].recovering THEN Signed(p) /\ ~proc[p].retried ELSE DelayOver(p)
    /\ proc' = [proc EXCEPT ![p] = Stopped("halted")]
    /\ UNCHANGED <<services, sent, log, signings, crashes, clock>>

\* Slip: a closed window aborts, whatever is saved.
AbortDespiteSavedWork(p) ==
    /\ Idle(p) /\ ~proc[p].recovering
    /\ IF p = 1 THEN log[p].seen <= 1 ELSE log[p].seen = 0
    /\ FoundUnspent(p) /\ ~WindowOpen
    /\ log' = [log EXCEPT ![p].aborted = TRUE]
    /\ UNCHANGED <<services, sent, proc, signings, crashes, clock>>

\* Nothing is saved, nothing of the player's is locked, and the window has closed.
Abort(p) ==
    /\ Idle(p) /\ ~proc[p].recovering /\ ~Saved(p)
    /\ IF p = 1 THEN log[p].seen <= 1 ELSE log[p].seen = 0
    /\ FoundUnspent(p) /\ ~WindowOpen
    /\ log' = [log EXCEPT ![p].aborted = TRUE]
    /\ InspectAgain(p)
    /\ UNCHANGED <<services, sent, signings, crashes, clock>>

(***************************************************************************)
(* The outcome of a submission, as the caller learns and saves it.         *)
(***************************************************************************)
Calling(p) == proc[p].mode = "running" /\ proc[p].call # "none"

Attempted(p) ==
    SetSpend(p, [log[p].spend EXCEPT !.submitted = TRUE, !.attempt = proc[p].calledAt])
Return(p) == [proc[p] EXCEPT !.call = "none", !.calledAt = 0]

\* Slip: the receipt of a settlement ends the game.
AcknowledgeFinishes(p) ==
    /\ Calling(p)
    /\ \E tx \in log[p].spend.tx, i \in 1..Len(accepted) :
          /\ accepted[i] = tx
          /\ log' = [log EXCEPT ![p].finished = Terminal(tx)]
    /\ proc' = [proc EXCEPT ![p] = Return(p)]
    /\ UNCHANGED <<services, sent, signings, crashes, clock>>

\* SubmissionAttempted with a receipt: the transaction was finalized.
Acknowledge(p) ==
    /\ Calling(p)
    /\ \E tx \in log[p].spend.tx, i \in 1..Len(accepted) : accepted[i] = tx
    /\ Attempted(p)
    /\ proc' = [proc EXCEPT ![p] = Return(p)]
    /\ UNCHANGED <<services, sent, signings, crashes, clock>>

\* Slip: a failed call is taken for a request that did not arrive.
SubmitUncertainForgets(p) ==
    /\ Calling(p) /\ proc[p].call = "submit"
    /\ SetSpend(p, NoSpend)
    /\ proc' = [proc EXCEPT ![p] = Return(p)]
    /\ UNCHANGED <<services, sent, signings, crashes, clock>>

\* SubmissionAttempted without one: the request may or may not have arrived.
SubmitUncertain(p) ==
    /\ Calling(p) /\ proc[p].call = "submit"
    /\ Attempted(p)
    /\ proc' = [proc EXCEPT ![p] = [Return(p) EXCEPT !.recovering = TRUE, !.retried = FALSE]]
    /\ UNCHANGED <<services, sent, signings, crashes, clock>>

\* SubmissionFailed: the saved work stays, the driver stops.
RetryFailed(p) ==
    /\ Calling(p) /\ proc[p].call = "retry"
    /\ SetSpend(p, [log[p].spend EXCEPT !.submitted = TRUE])
    /\ proc' = [proc EXCEPT ![p] = Stopped("halted")]
    /\ UNCHANGED <<services, sent, signings, crashes, clock>>

(***************************************************************************)
(* Recovery: after a restart or an uncertain submission.                   *)
(***************************************************************************)
\* Slip: saved work is signed afresh after a restart.
RecoverResumeUnsigned(p) ==
    /\ Idle(p) /\ proc[p].recovering /\ FoundUnspent(p)
    /\ SetSpend(p, [log[p].spend EXCEPT !.sig = 0, !.submitted = FALSE])
    /\ proc' = [proc EXCEPT ![p].recovering = FALSE]
    /\ UNCHANGED <<services, sent, signings, crashes, clock>>

\* Explicitly unspent sources and nothing that could have been sent.
RecoverResume(p) ==
    /\ Idle(p) /\ proc[p].recovering /\ FoundUnspent(p)
    /\ ~Signed(p)
    /\ proc' = [proc EXCEPT ![p] = [@ EXCEPT !.recovering = FALSE, !.unspent = FALSE]]
    /\ UNCHANGED <<services, sent, log, signings, crashes, clock>>

\* Explicitly unspent sources permit one exact retry.
RecoverRetry(p) ==
    /\ Idle(p) /\ proc[p].recovering /\ FoundUnspent(p)
    /\ Signed(p) /\ ~proc[p].retried /\ SigningTime(p)
    /\ Send(p, "retry")

Crash(p) ==
    /\ proc[p].mode = "running" /\ crashes < MaxCrashes
    /\ crashes' = crashes + 1
    /\ proc' = [proc EXCEPT ![p] = Stopped("down")]
    /\ UNCHANGED <<services, sent, log, signings, clock>>

\* Slip: a restarted process believes its one retry is used up.
StartRetried(p) ==
    /\ proc[p].mode \in {"down", "halted"}
    /\ proc' = [proc EXCEPT ![p] =
                  [Running(log[p].seen > 0 \/ Saved(p)) EXCEPT !.retried = TRUE]]
    /\ UNCHANGED <<services, sent, log, signings, crashes, clock>>

\* restore: replay, then recover if there is a hand or saved work.
Start(p) ==
    /\ proc[p].mode \in {"down", "halted"}
    /\ proc' = [proc EXCEPT ![p] =
                  Running(~log[p].finished /\ ~log[p].aborted /\ (log[p].seen > 0 \/ Saved(p)))]
    /\ UNCHANGED <<services, sent, log, signings, crashes, clock>>

PrepareAny(p) == \E tx \in Permitted(p, log[p].seen) : Prepare(p, tx)
Reply(p) == Acknowledge(p) \/ SubmitUncertain(p) \/ RetryFailed(p)
DriverStep(p) ==
    \/ Observe(p) \/ Inspect(p) \/ PrepareAny(p) \/ Sign(p) \/ Submit(p) \/ Reply(p)
    \/ Expire(p) \/ Abort(p) \/ RecoverResume(p) \/ RecoverRetry(p)

Over == (\A p \in Players : log[p].finished \/ log[p].aborted) /\ UNCHANGED vars

Next ==
    \/ \E b \in sent : Accept(b)
    \/ Index \/ Tick \/ Over
    \/ \E p \in Players : DriverStep(p) \/ SignLost(p) \/ Crash(p) \/ Start(p)

Spec == Init /\ [][Next]_vars
=============================================================================
