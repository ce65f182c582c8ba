------------------------------- MODULE Wallet -------------------------------
(***************************************************************************)
(* One saved spend of the wallet, from the selection of its coins to the   *)
(* evidence that it was accepted (src/internal/wallet/funding.go,          *)
(* submission.go, indexer.go), as the game driver sequences it             *)
(* (src/internal/game/driver_effects.go, driver_recovery.go,               *)
(* driver_observe.go).  Another device of the wallet's owner, or the       *)
(* opponent, may spend the same sources.                                   *)
(***************************************************************************)
EXTENDS Bundles, Integers, SequencesExt

CONSTANTS
    Coins,              \* outputs of the wallet, in the order of their outpoints
    Values,             \* what a coin may be worth
    Amounts,            \* what a game may need of the wallet
    MinAmount, MaxAmount,   \* the output policy of the service
    MaxFailures         \* bound: failed calls, damaged answers, stops

ASSUME WalletAssumption ==
    /\ IsFiniteSet(Coins) /\ Coins \subseteq Nat \ {0}
    /\ Values \subseteq Nat \ {0} /\ Amounts \subseteq Nat
    /\ MinAmount \in Nat \ {0} /\ MaxAmount \in Nat /\ MaxFailures \in Nat

\* The covenant output that a bet continues.  Its leaf needs the emulator.
Covenant == 0
Sources == Coins \cup {Covenant}

VARIABLES
    worth,          \* the value of each coin
    order,          \* what is asked of the wallet: route, amount, native build
    spender,        \* the service: the transaction that spends a source
    progress,       \* the index: how far a transaction has come
    finalized,      \* the bundles whose checkpoints reached Arkd's Finalize
    saved,          \* the log: the saved spend, if any
    observed,       \* the log: the accepted transaction that was recorded
    proc,           \* the process
    failures

service == <<spender, progress, finalized>>
log == <<saved, observed>>
given == <<worth, order>>
vars == <<given, service, log, proc, failures>>

\* proc.rest are the sources still to be inspected, proc.work the merged bundle.
Process(phase, recovering) ==
    [phase |-> phase, recovering |-> recovering, retried |-> FALSE,
     rest |-> <<>>, unspent |-> FALSE, work |-> {}, refused |-> {}]

Init ==
    /\ worth \in [Coins -> Values]
    /\ order \in [route : {"arkd", "emulator"}, amount : Amounts, native : BOOLEAN]
    /\ order.route = "arkd" => order.amount > 0
    /\ spender = [s \in Sources |-> "nobody"]
    /\ progress = [tx \in {"ours", "theirs"} |-> "unknown"] /\ finalized = {}
    /\ saved = {} /\ observed = "nothing"
    /\ proc = Process("idle", FALSE) /\ failures = 0

At(phase) == proc.phase = phase
GoTo(phase) == proc' = [proc EXCEPT !.phase = phase]
MayFail == failures < MaxFailures
Failure == MayFail /\ failures' = failures + 1

(***************************************************************************)
(* The Arkade service.  It takes the sources of a transaction when it      *)
(* signs the checkpoints; the index shows that they are spent, the body    *)
(* and then the outputs of a finalized transaction one after another.      *)
(***************************************************************************)
Mark(tx, sources) ==
    /\ spender' = [s \in Sources |-> IF s \in sources THEN tx ELSE spender[s]]
    /\ progress' = [progress EXCEPT ![tx] = "accepted"]

ShownUnspent(source) ==
    spender[source] = "nobody" \/ progress[spender[source]] = "accepted"

\* The same coins, or the same covenant, spent from elsewhere.
SpendElsewhere ==
    /\ progress["theirs"] = "unknown"
    /\ \E sources \in SUBSET Coins \cup {{Covenant}} : 
          /\ sources # {} /\ \A s \in sources : spender[s] = "nobody"
          /\ Mark("theirs", sources)
    /\ UNCHANGED <<given, finalized, log, proc, failures>>

Publish(tx) ==
    /\ \/ progress[tx] = "accepted" /\ progress' = [progress EXCEPT ![tx] = "marked"]
       \/ progress[tx] = "marked" /\ progress' = [progress EXCEPT ![tx] = "body"]
       \/ /\ progress[tx] = "body" /\ (tx = "theirs" \/ finalized # {})
          /\ progress' = [progress EXCEPT ![tx] = "first output"]
       \/ progress[tx] = "first output" /\ progress' = [progress EXCEPT ![tx] = "final"]
    /\ UNCHANGED <<given, spender, finalized, log, proc, failures>>

(***************************************************************************)
(* SelectFunding: an exact coin, or coins in descending order until the    *)
(* change is none or admissible.  Coins with a spender are not offered.    *)
(***************************************************************************)
Free == {c \in Coins : ShownUnspent(c)}
Sum(coins) == FoldSet(LAMBDA c, total : worth[c] + total, 0, coins)

Precedes(c, d) ==
    LET amount == order.amount
    IN \/ worth[c] = amount /\ worth[d] # amount
       \/ (worth[c] = amount <=> worth[d] = amount) /\ worth[c] > worth[d]
       \/ worth[c] = worth[d] /\ c < d
Candidates(coins) ==
    CHOOSE s \in SetToSeqs(coins) :
        \A i, j \in DOMAIN s : i < j => Precedes(s[i], s[j])

Change(coins) == Sum(coins) - order.amount
Enough(coins) == Change(coins) = 0 \/ Change(coins) >= MinAmount

\* A candidate that would make the change too large is skipped.
Select(coins) ==
    FoldLeft(LAMBDA chosen, c :
                IF Enough(chosen) \/ Change(chosen \cup {c}) > MaxAmount
                THEN chosen ELSE chosen \cup {c},
             {}, Candidates(coins))

(***************************************************************************)
(* Preparing and signing.                                                  *)
(***************************************************************************)
CovenantSources == IF order.route = "emulator" THEN <<Covenant>> ELSE <<>>

Prepare ==
    /\ At("idle") /\ ~proc.recovering /\ saved = {} /\ observed = "nothing"
    /\ LET chosen == IF order.amount = 0 THEN {} ELSE Select(Free)
           sources == CovenantSources \o Candidates(chosen)
       IN IF order.amount = 0 \/ Enough(chosen)
          THEN /\ saved' = {[sources |-> sources, bundle |-> Prepared(sources), signed |-> FALSE]}
               /\ UNCHANGED proc
          ELSE /\ proc' = [proc EXCEPT !.phase = "halted", !.refused = {Free}]
               /\ UNCHANGED saved
    /\ UNCHANGED <<given, service, observed, failures>>

\* Recovery only resumes: with every source unspent, the unsigned work was never sent.
SignSaved ==
    /\ At("inspected") /\ \A spend \in saved : ~spend.signed
    /\ IF proc.recovering THEN UNCHANGED saved ELSE
          saved' = {[spend EXCEPT !.signed = TRUE, !.bundle = Sign(@)] : spend \in saved}
    /\ proc' = Process("idle", FALSE)
    /\ UNCHANGED <<given, service, observed, failures>>

(***************************************************************************)
(* inspectPrepared: the transaction itself, then its sources one by one,   *)
(* each by queries of its own.                                             *)
(***************************************************************************)
InspectPrepared ==
    /\ At("idle") /\ observed = "nothing" /\ progress["ours"] # "final"
    /\ \E spend \in saved :
          proc' = [proc EXCEPT !.phase = "sources", !.rest = spend.sources, !.unspent = TRUE]
    /\ UNCHANGED <<given, service, log, failures>>

Record(tx) == observed' = tx /\ proc' = Process("over", FALSE) /\ UNCHANGED saved

\* wallet.Accepted.
ObserveOurs ==
    /\ At("idle") /\ observed = "nothing" /\ saved # {}
    /\ progress["ours"] = "final"
    /\ Record("ours")
    /\ UNCHANGED <<given, service, failures>>

\* InspectSpend of the next source: a record without a spender, or one with.
ReadRecord ==
    /\ At("sources") /\ proc.rest # <<>>
    /\ proc' = IF ShownUnspent(Head(proc.rest))
               THEN [proc EXCEPT !.rest = Tail(@)] ELSE [proc EXCEPT !.phase = "successor"]
    /\ UNCHANGED <<given, service, log, failures>>

\* Its successor: pending, accepted evidence, or a coin that is gone.
ReadSuccessor ==
    /\ At("successor")
    /\ LET source == Head(proc.rest)
           tx == spender[source]
       IN CASE progress[tx] # "final" ->
                  /\ proc' = [proc EXCEPT !.phase = "sources", !.rest = Tail(@), !.unspent = FALSE]
                  /\ UNCHANGED log
            [] progress[tx] = "final" /\ (tx = "ours" \/ source = Covenant) -> Record(tx)
            [] OTHER -> GoTo("halted") /\ UNCHANGED log
    /\ UNCHANGED <<given, service, failures>>

\* No accepted spend was found.  Ordinary progress goes on, also while a source is
\* pending; recovery only if every source was shown unspent.
Inspected ==
    /\ At("sources") /\ proc.rest = <<>>
    /\ proc' = [proc EXCEPT !.phase = IF proc.recovering /\ ~proc.unspent THEN "idle" ELSE "inspected",
                            !.unspent = FALSE]
    /\ UNCHANGED <<given, service, log, failures>>

(***************************************************************************)
(* Submit and RetrySaved: the emulator for a covenant leaf, then Arkd,     *)
(* then the checkpoints back to Arkd.                                      *)
(***************************************************************************)
IsSigned == \E spend \in saved : spend.signed

\* Ordinary progress submits the same bundle again as long as the index shows nothing:
\* after five seconds, which here are any time.
BeginSubmit ==
    /\ At("inspected") /\ IsSigned
    /\ proc.recovering => ~proc.retried
    /\ \E spend \in saved :
          proc' = [proc EXCEPT !.phase = IF order.route = "emulator" THEN "emulator" ELSE "arkd",
                               !.work = {spend.bundle}, !.retried = proc.recovering]
    /\ UNCHANGED <<given, service, log, failures>>

\* A recovery that has used its retry keeps watching: the acknowledgement may
\* precede the index.
KeepWatching ==
    /\ At("inspected") /\ IsSigned /\ proc.recovering /\ proc.retried
    /\ GoTo("idle")
    /\ UNCHANGED <<given, service, log, failures>>

\* Slip: the one retry is used up by the submission that failed.
AfterErrorUsedUp ==
    IF proc.recovering THEN Process("halted", FALSE)
    ELSE [Process("idle", TRUE) EXCEPT !.retried = TRUE]

\* An ordinary submission that fails is followed by recovery, a retry by the end.
AfterError == IF proc.recovering THEN Process("halted", FALSE) ELSE Process("idle", TRUE)
CallFails == proc' = AfterError /\ Failure /\ UNCHANGED <<given, log>>

Accepts(answer, rebuilt) == \A work \in proc.work : Merges(work, answer, rebuilt)
Continue(phase, answer) ==
    proc' = [proc EXCEPT !.phase = phase, !.work = {Merged(work, answer) : work \in @}]

EmulatorSigns ==
    /\ At("emulator")
    /\ \/ \E work \in proc.work :
             /\ Continue("arkd", Answer(work, "emulator"))
             /\ UNCHANGED <<given, service, log, failures>>
       \/ \E answer \in UNION {Answers(work, "emulator") : work \in proc.work} :
             /\ Failure
             /\ IF Accepts(answer, FALSE) THEN Continue("arkd", answer) ELSE proc' = AfterError
             /\ UNCHANGED <<given, service, log>>
       \/ CallFails /\ UNCHANGED service

\* Arkd signs what carries every other signature and spends sources that are free.
Complete(work) ==
    /\ \A packet \in AllPackets(work) : Signature("player") \in packet.sigs
    /\ order.route = "emulator" =>
          \A packet \in {work.main, work.checkpoints[1]} : Signature("emulator") \in packet.sigs

CanTake(work) ==
    Complete(work) /\ \A spend \in saved : \A s \in ToSet(spend.sources) : spender[s] = "nobody"

\* verifyServiceSignatures is left to the services in a browser build.
Verified(answer) ==
    order.native => \A work \in proc.work : ServiceSigned(Merged(work, answer))

\* What it has taken already it may answer again, or refuse.
CanRepeat(work) ==
    Complete(work) /\ \A spend \in saved : \A s \in ToSet(spend.sources) : spender[s] = "ours"

\* Its answer is merged: as it should be, or with something wrong, or lost.
SubmitToArkd ==
    /\ At("arkd")
    /\ \E work \in proc.work :
          /\ \/ CanTake(work) /\ \E spend \in saved : Mark("ours", ToSet(spend.sources))
             \/ CanRepeat(work) /\ UNCHANGED <<spender, progress>>
          /\ \/ Continue("finalize", Answer(work, "arkd")) /\ UNCHANGED failures
             \/ \E answer \in Answers(work, "arkd") :
                   /\ Failure
                   /\ IF Accepts(answer, TRUE) /\ Verified(answer)
                      THEN Continue("finalize", answer) ELSE proc' = AfterError
             \/ Failure /\ proc' = AfterError
    /\ UNCHANGED <<given, finalized, log>>

\* The request is refused, or never arrives.
ArkdRefuses ==
    /\ At("arkd")
    /\ \E work \in proc.work : ~CanTake(work)
    /\ proc' = AfterError
    /\ UNCHANGED <<given, service, log, failures>>

SubmissionLost == At("arkd") /\ CallFails /\ UNCHANGED service

\* Acknowledged: recovery queries again, ordinary progress reconciles.
Finalize ==
    /\ At("finalize")
    /\ finalized' = finalized \cup proc.work
    /\ \/ proc' = [proc EXCEPT !.phase = "idle", !.work = {}] /\ UNCHANGED <<given, log, failures>>
       \/ CallFails
    /\ UNCHANGED <<spender, progress>>

FinalizationLost == At("finalize") /\ CallFails /\ UNCHANGED service

(***************************************************************************)
(* The process stops anywhere; a user starts it again, also after an error.*)
(***************************************************************************)
Crash ==
    /\ ~At("halted") /\ ~At("over")
    /\ Failure /\ proc' = Process("halted", FALSE)
    /\ UNCHANGED <<given, service, log>>

Start ==
    /\ At("halted")
    /\ proc' = Process("idle", saved # {})
    /\ UNCHANGED <<given, service, log, failures>>

Inspection == InspectPrepared \/ ObserveOurs \/ ReadRecord \/ ReadSuccessor \/ Inspected
Submission ==
    \/ BeginSubmit \/ KeepWatching \/ EmulatorSigns
    \/ SubmitToArkd \/ ArkdRefuses \/ SubmissionLost \/ Finalize \/ FinalizationLost
Work == Prepare \/ Inspection \/ SignSaved \/ Submission

Next == SpendElsewhere \/ (\E tx \in {"ours", "theirs"} : Publish(tx)) \/ Work \/ Crash \/ Start
Spec == Init /\ [][Next]_vars
=============================================================================
