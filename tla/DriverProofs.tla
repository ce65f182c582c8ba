---------------------------- MODULE DriverProofs ----------------------------
(***************************************************************************)
(* Theorems about exact recovery, for hands of any length, any delays and  *)
(* any number of crashes.  What a client sent is tied to the spend in its  *)
(* log, and the service's transactions to what their senders still have    *)
(* saved; every step of a driver keeps both ties.                          *)
(***************************************************************************)
EXTENDS DriverProperties, SequenceTheorems, TLAPS

(***************************************************************************)
(* Types.                                                                  *)
(***************************************************************************)
Kinds == {"deposit", "funding", "move", "concession", "timeout", "showdown"}
AnyTx == [source : Nat, kind : Kinds, by : Players, choice : Choices \cup {0}]
Bundles == [tx : AnyTx, sig : Nat \ {0}]
Spends == [tx : SUBSET AnyTx, sig : Nat, submitted : BOOLEAN, attempt : Nat]
Logs == [seen : Nat, finished : BOOLEAN, aborted : BOOLEAN, spend : Spends, observedAt : Nat]
Procs == [mode : {"running", "halted", "down"}, recovering : BOOLEAN, retried : BOOLEAN,
          unspent : BOOLEAN, call : {"none", "submit", "retry"}, calledAt : Nat]

Types ==
    /\ accepted \in Seq(AnyTx) /\ indexed \in Nat /\ indexed <= Len(accepted)
    /\ sent \subseteq Bundles
    /\ log \in [Players -> Logs] /\ proc \in [Players -> Procs]
    /\ signings \in [Players -> Nat] /\ crashes \in Nat /\ clock \in Nat

(***************************************************************************)
(* The invariant.  l and c are a player's log and process.                 *)
(***************************************************************************)
\* The log is behind the index; saved work is one transaction that continues the
\* last output seen; only signed work is with the services; a game that is over
\* has nothing saved.
PlayerFits(p, l, c) ==
    /\ l.seen <= indexed
    /\ l.spend # NoSpend => \E tx \in Permitted(p, l.seen) : l.spend.tx = {tx}
    /\ c.call # "none" => l.spend.sig # 0
    /\ l.aborted \/ l.finished => l.spend = NoSpend
    /\ l.aborted => IF p = 1 THEN l.seen <= 1 ELSE l.seen = 0
    /\ l.finished <=> l.seen > 0 /\ Terminal(accepted[l.seen])

\* A bundle that left a client is the spend in its log.
Carries(l, b) == l.spend.tx = {b.tx} /\ l.spend.sig = b.sig

\* A transaction its sender has not yet seen accepted is still saved there.
Knows(l, i) == l.seen < i => l.spend.tx = {accepted[i]}

DInv ==
    /\ Types
    /\ \A p \in Players : PlayerFits(p, log[p], proc[p])
    /\ \A b \in sent : Carries(log[b.tx.by], b)
    /\ \A i \in 1..Len(accepted) :
          /\ accepted[i] \in Permitted(accepted[i].by, i - 1)
          /\ Knows(log[accepted[i].by], i)
          /\ Terminal(accepted[i]) => i = Len(accepted)

(***************************************************************************)
(* Facts about single transactions and records.                            *)
(***************************************************************************)
\* What a player may prepare continues the given output in that player's name;
\* only Player 2 starts the game.
LEMMA PermittedShape ==
    ASSUME NEW p \in Players, NEW k \in Nat, NEW tx \in Permitted(p, k)
    PROVE  /\ tx \in AnyTx /\ tx.source = k /\ tx.by = p
           /\ k = 0 => p = 2
  BY SkeletonAssumption DEF Permitted, Tx, AnyTx, Kinds, Players

LEMMA NoSpendType == NoSpend \in Spends /\ NoSpend.tx = {} /\ NoSpend.sig = 0
  BY DEF NoSpend, Spends

LEMMA EmptyLogType == EmptyLog \in Logs
  BY NoSpendType DEF EmptyLog, Logs

LEMMA RunningType ==
    ASSUME NEW recovering \in BOOLEAN
    PROVE  Running(recovering) \in Procs /\ Running(recovering).call = "none"
  BY DEF Running, Procs

LEMMA StoppedType ==
    ASSUME NEW mode \in {"running", "halted", "down"}
    PROVE  Stopped(mode) \in Procs /\ Stopped(mode).call = "none"
  BY DEF Stopped, Running, Procs

LEMMA AcceptedType ==
    ASSUME Types, NEW i \in 1..Len(accepted)
    PROVE  accepted[i] \in AnyTx
  BY ElementOfSeq DEF Types

LEMMA InitDInv == Init => DInv
<1> SUFFICES ASSUME Init PROVE DInv
  OBVIOUS
<1>1. /\ accepted = <<>> /\ Len(accepted) = 0 /\ accepted \in Seq(AnyTx)
      /\ indexed = 0 /\ sent = {} /\ crashes = 0 /\ clock = 0
      /\ signings \in [Players -> Nat]
  BY DEF Init
<1>2. /\ log \in [Players -> Logs] /\ proc \in [Players -> Procs]
      /\ \A p \in Players : log[p] = EmptyLog /\ proc[p].call = "none"
  BY EmptyLogType, RunningType DEF Init
<1>3. /\ EmptyLog.seen = 0 /\ EmptyLog.spend = NoSpend
      /\ ~EmptyLog.aborted /\ ~EmptyLog.finished
  BY DEF EmptyLog
<1>4. \A p \in Players : PlayerFits(p, log[p], proc[p])
  BY <1>1, <1>2, <1>3 DEF PlayerFits
<1> QED BY <1>1, <1>2, <1>4 DEF DInv, Types

(***************************************************************************)
(* A step of player p: its log becomes l, its process c, and nothing of    *)
(* the opponent or the service changes.                                    *)
(***************************************************************************)
LEMMA OwnStep ==
    ASSUME DInv, NEW p \in Players, NEW l \in Logs, NEW c \in Procs,
           log' = [log EXCEPT ![p] = l], proc' = [proc EXCEPT ![p] = c],
           UNCHANGED services,
           sent' \subseteq Bundles,
           signings' \in [Players -> Nat], crashes' \in Nat, clock' \in Nat,
           PlayerFits(p, l, c),
           \A b \in sent' : IF b.tx.by = p THEN Carries(l, b) ELSE b \in sent,
           \A i \in 1..Len(accepted) : accepted[i].by = p => Knows(l, i)
    PROVE  DInv'
<1> USE DEF services
<1>1. /\ log'[p] = l /\ proc'[p] = c
      /\ \A q \in Players : q # p => log'[q] = log[q] /\ proc'[q] = proc[q]
  BY DEF DInv, Types
<1>2. Types'
  BY DEF DInv, Types
<1>3. \A q \in Players : PlayerFits(q, log[q], proc[q])'
  <2> SUFFICES ASSUME NEW q \in Players PROVE PlayerFits(q, log[q], proc[q])'
    OBVIOUS
  <2>1. PlayerFits(q, log'[q], proc'[q])
    BY <1>1 DEF DInv
  <2> QED BY <2>1 DEF PlayerFits
<1>4. \A b \in sent' : Carries(log'[b.tx.by], b)
  <2> SUFFICES ASSUME NEW b \in sent' PROVE Carries(log'[b.tx.by], b)
    OBVIOUS
  <2>1. b.tx.by \in Players
    BY DEF Bundles, AnyTx
  <2> QED BY <1>1, <2>1 DEF DInv
<1>5. ASSUME NEW i \in 1..Len(accepted')
      PROVE  /\ accepted'[i] \in Permitted(accepted'[i].by, i - 1)
             /\ Knows(log[accepted[i].by], i)'
             /\ Terminal(accepted'[i]) => i = Len(accepted')
  <2>1. accepted[i].by \in Players
    BY AcceptedType DEF DInv, AnyTx
  <2> QED BY <1>1, <2>1 DEF DInv, Knows
<1> QED BY <1>2, <1>3, <1>4, <1>5 DEF DInv

\* Where saved work that fits comes from: the output the player has seen.
LEMMA SavedShape ==
    ASSUME Types, NEW p \in Players, PlayerFits(p, log[p], proc[p]), log[p].spend # NoSpend
    PROVE  \E tx \in AnyTx : /\ tx \in Permitted(p, log[p].seen)
                             /\ tx.source = log[p].seen /\ tx.by = p
                             /\ log[p].spend.tx = {tx}
<1>1. log[p].seen \in Nat
  BY DEF Types, Logs
<1>2. PICK tx \in Permitted(p, log[p].seen) : log[p].spend.tx = {tx}
  BY DEF PlayerFits
<1> QED BY <1>1, <1>2, PermittedShape

\* What player p has with the services is its saved, signed work.
LEMMA SentShape ==
    ASSUME DInv, NEW b \in sent
    PROVE  /\ b.tx \in AnyTx /\ b.sig \in Nat \ {0} /\ b.tx.by \in Players
           /\ b = [tx |-> b.tx, sig |-> b.sig]
           /\ log[b.tx.by].spend # NoSpend
           /\ log[b.tx.by].spend.tx = {b.tx} /\ log[b.tx.by].spend.sig = b.sig
           /\ b.tx.source = log[b.tx.by].seen
           /\ b.tx \in Permitted(b.tx.by, log[b.tx.by].seen)
           /\ ~log[b.tx.by].aborted /\ ~log[b.tx.by].finished
<1>1. b.tx \in AnyTx /\ b.sig \in Nat \ {0} /\ b = [tx |-> b.tx, sig |-> b.sig]
  BY DEF DInv, Types, Bundles
<1>2. b.tx.by \in Players
  BY <1>1 DEF AnyTx
<1>3. log[b.tx.by].spend.tx = {b.tx} /\ log[b.tx.by].spend.sig = b.sig
  BY DEF DInv, Carries
<1>4. log[b.tx.by].spend # NoSpend
  BY <1>3, NoSpendType
<1>5. PlayerFits(b.tx.by, log[b.tx.by], proc[b.tx.by])
  BY <1>2 DEF DInv
<1>6. b.tx.source = log[b.tx.by].seen /\ b.tx \in Permitted(b.tx.by, log[b.tx.by].seen)
  <2>1. Types
    BY DEF DInv
  <2>2. PICK tx \in AnyTx : /\ tx \in Permitted(b.tx.by, log[b.tx.by].seen)
                            /\ tx.source = log[b.tx.by].seen
                            /\ log[b.tx.by].spend.tx = {tx}
    BY <1>2, <1>4, <1>5, <2>1, SavedShape
  <2>3. tx = b.tx
    BY <1>3, <2>2
  <2> QED BY <2>2, <2>3
<1> QED BY <1>1, <1>2, <1>3, <1>4, <1>5, <1>6 DEF PlayerFits

\* An accepted transaction spends the output before it.
LEMMA AcceptedShape ==
    ASSUME DInv, NEW i \in 1..Len(accepted)
    PROVE  /\ accepted[i] \in AnyTx /\ accepted[i].by \in Players
           /\ accepted[i].source = i - 1
           /\ i - 1 = 0 => accepted[i].by = 2
<1>1. accepted[i] \in AnyTx /\ accepted[i].by \in Players
  BY AcceptedType DEF DInv, AnyTx
<1>2. Len(accepted) \in Nat
  BY LenProperties DEF DInv, Types
<1>3. i - 1 \in Nat
  BY <1>2
<1>4. accepted[i] \in Permitted(accepted[i].by, i - 1)
  BY DEF DInv
<1> QED BY <1>1, <1>3, <1>4, PermittedShape

(***************************************************************************)
(* The steps of a driver.                                                  *)
(***************************************************************************)
\* Steps that leave the log and the services' bundles alone.
LEMMA ProcessStep ==
    ASSUME DInv, NEW p \in Players, NEW c \in Procs,
           proc' = [proc EXCEPT ![p] = c],
           UNCHANGED <<services, sent, log>>,
           signings' \in [Players -> Nat], crashes' \in Nat, clock' \in Nat,
           c.call # "none" => log[p].spend.sig # 0
    PROVE  DInv'
<1>1. log[p] \in Logs /\ log' = [log EXCEPT ![p] = log[p]] /\ sent' \subseteq Bundles
  BY DEF DInv, Types
<1>2. PlayerFits(p, log[p], c)
  BY DEF DInv, PlayerFits
<1>3. \A b \in sent' : IF b.tx.by = p THEN Carries(log[p], b) ELSE b \in sent
  BY DEF DInv
<1>4. \A i \in 1..Len(accepted) : accepted[i].by = p => Knows(log[p], i)
  BY DEF DInv
<1> QED BY <1>1, <1>2, <1>3, <1>4, OwnStep

\* Steps that change the saved work's bookkeeping, not the work itself.
LEMMA BookStep ==
    ASSUME DInv, NEW p \in Players, NEW spend \in Spends, NEW c \in Procs,
           log' = [log EXCEPT ![p].spend = spend], proc' = [proc EXCEPT ![p] = c],
           UNCHANGED <<services, sent>>,
           signings' \in [Players -> Nat], crashes' \in Nat, clock' \in Nat,
           log[p].spend # NoSpend,
           spend.tx = log[p].spend.tx,
           log[p].spend.sig # 0 => spend.sig = log[p].spend.sig,
           c.call # "none" => spend.sig # 0
    PROVE  DInv'
<1> DEFINE l == [log[p] EXCEPT !.spend = spend]
<1>1. log[p] \in Logs /\ sent' \subseteq Bundles
  BY DEF DInv, Types
<1>2. /\ l \in Logs /\ l.spend = spend /\ l.seen = log[p].seen
      /\ l.finished = log[p].finished /\ l.aborted = log[p].aborted
      /\ log' = [log EXCEPT ![p] = l]
  BY <1>1 DEF Logs
<1>3. PlayerFits(p, l, c)
  BY <1>2 DEF DInv, PlayerFits
<1>4. \A b \in sent' : IF b.tx.by = p THEN Carries(l, b) ELSE b \in sent
  BY <1>2 DEF DInv, Carries, Types, Bundles
<1>5. \A i \in 1..Len(accepted) : accepted[i].by = p => Knows(l, i)
  BY <1>2 DEF DInv, Knows
<1> HIDE DEF l
<1> QED BY <1>1, <1>2, <1>3, <1>4, <1>5, OwnStep

\* What a driver's own state looks like while it runs.
LEMMA OwnTypes ==
    ASSUME DInv, NEW p \in Players
    PROVE  /\ Types /\ PlayerFits(p, log[p], proc[p])
           /\ log[p] \in Logs /\ log[p].spend \in Spends /\ proc[p] \in Procs
           /\ signings \in [Players -> Nat] /\ signings[p] \in Nat
           /\ crashes \in Nat /\ clock \in Nat
  BY DEF DInv, Types, Logs

LEMMA InspectStep ==
    ASSUME DInv, NEW p \in Players, Inspect(p)
    PROVE  DInv'
<1> DEFINE c == [proc[p] EXCEPT !.unspent = TRUE]
<1>1. c \in Procs /\ c.call = proc[p].call /\ proc' = [proc EXCEPT ![p] = c]
  BY OwnTypes DEF Inspect, Procs
<1>2. proc[p].call = "none"
  BY DEF Inspect, Idle
<1>3. signings' \in [Players -> Nat] /\ crashes' \in Nat /\ clock' \in Nat
  BY OwnTypes DEF Inspect
<1>4. UNCHANGED <<services, sent, log>>
  BY DEF Inspect
<1> HIDE DEF c
<1> QED BY <1>1, <1>2, <1>3, <1>4, ProcessStep

LEMMA RecoverResumeStep ==
    ASSUME DInv, NEW p \in Players, RecoverResume(p)
    PROVE  DInv'
<1> DEFINE c == [proc[p] EXCEPT !.recovering = FALSE, !.unspent = FALSE]
<1>1. c \in Procs /\ c.call = proc[p].call /\ proc' = [proc EXCEPT ![p] = c]
  BY OwnTypes DEF RecoverResume, Procs
<1>2. proc[p].call = "none"
  BY DEF RecoverResume, Idle
<1>3. signings' \in [Players -> Nat] /\ crashes' \in Nat /\ clock' \in Nat
  BY OwnTypes DEF RecoverResume
<1>4. UNCHANGED <<services, sent, log>>
  BY DEF RecoverResume
<1> HIDE DEF c
<1> QED BY <1>1, <1>2, <1>3, <1>4, ProcessStep

\* Whatever stops a process without an append.
LEMMA StopSteps ==
    ASSUME DInv, NEW p \in Players, SignLost(p) \/ Expire(p) \/ Crash(p)
    PROVE  DInv'
<1>1. PICK mode \in {"running", "halted", "down"} : proc' = [proc EXCEPT ![p] = Stopped(mode)]
  BY DEF SignLost, Expire, Crash
<1>2. Stopped(mode) \in Procs /\ Stopped(mode).call = "none"
  BY StoppedType
<1>3. signings' \in [Players -> Nat]
  BY OwnTypes DEF SignLost, Expire, Crash
<1>4. crashes' \in Nat /\ clock' \in Nat
  BY OwnTypes DEF SignLost, Expire, Crash
<1>5. UNCHANGED <<services, sent, log>>
  BY DEF SignLost, Expire, Crash
<1> QED BY <1>1, <1>2, <1>3, <1>4, <1>5, ProcessStep

LEMMA StartStep ==
    ASSUME DInv, NEW p \in Players, Start(p)
    PROVE  DInv'
<1> DEFINE r == ~log[p].finished /\ ~log[p].aborted /\ (log[p].seen > 0 \/ Saved(p))
<1>1. r \in BOOLEAN
  OBVIOUS
<1>2. proc' = [proc EXCEPT ![p] = Running(r)]
  BY DEF Start
<1>3. Running(r) \in Procs /\ Running(r).call = "none"
  BY <1>1, RunningType
<1>4. signings' \in [Players -> Nat] /\ crashes' \in Nat /\ clock' \in Nat
  BY OwnTypes DEF Start
<1>5. UNCHANGED <<services, sent, log>>
  BY DEF Start
<1> HIDE DEF r
<1> QED BY <1>2, <1>3, <1>4, <1>5, ProcessStep

LEMMA SignStep ==
    ASSUME DInv, NEW p \in Players, Sign(p)
    PROVE  DInv'
<1> DEFINE spend == [log[p].spend EXCEPT !.sig = signings[p] + 1]
           c == [proc[p] EXCEPT !.unspent = FALSE]
<1>1. spend \in Spends /\ spend.tx = log[p].spend.tx
  BY OwnTypes DEF Spends
<1>2. c \in Procs /\ c.call = proc[p].call /\ proc' = [proc EXCEPT ![p] = c]
  BY OwnTypes DEF Sign, InspectAgain, Procs
<1>3. log' = [log EXCEPT ![p].spend = spend]
  BY DEF Sign, SetSpend
<1>4. proc[p].call = "none" /\ log[p].spend # NoSpend /\ log[p].spend.sig = 0
  BY DEF Sign, Idle, Saved, Signed
<1>5. signings' \in [Players -> Nat] /\ crashes' \in Nat /\ clock' \in Nat
  BY OwnTypes DEF Sign
<1>6. UNCHANGED <<services, sent>>
  BY DEF Sign
<1> HIDE DEF spend, c
<1> QED BY <1>1, <1>2, <1>3, <1>4, <1>5, <1>6, BookStep

\* However the call ends, the work stays as it was saved.
LEMMA ReplyStep ==
    ASSUME DInv, NEW p \in Players, Reply(p)
    PROVE  DInv'
<1> DEFINE attempted == [log[p].spend EXCEPT !.submitted = TRUE, !.attempt = proc[p].calledAt]
           failed == [log[p].spend EXCEPT !.submitted = TRUE]
<1>1. Calling(p)
  BY DEF Reply, Acknowledge, SubmitUncertain, RetryFailed
<1>2. log[p].spend # NoSpend
  BY <1>1, OwnTypes, NoSpendType DEF Calling, PlayerFits
<1>3. /\ attempted \in Spends /\ attempted.tx = log[p].spend.tx
      /\ attempted.sig = log[p].spend.sig
  BY OwnTypes DEF Spends, Procs
<1>4. /\ failed \in Spends /\ failed.tx = log[p].spend.tx
      /\ failed.sig = log[p].spend.sig
  BY OwnTypes DEF Spends
<1>5. Return(p) \in Procs /\ Return(p).call = "none"
  BY OwnTypes DEF Return, Procs
<1>6. signings' \in [Players -> Nat] /\ crashes' \in Nat /\ clock' \in Nat
  BY OwnTypes DEF Reply, Acknowledge, SubmitUncertain, RetryFailed
<1>7. UNCHANGED <<services, sent>>
  BY DEF Reply, Acknowledge, SubmitUncertain, RetryFailed
<1>8. CASE Acknowledge(p)
  <2>1. log' = [log EXCEPT ![p].spend = attempted] /\ proc' = [proc EXCEPT ![p] = Return(p)]
    BY <1>8 DEF Acknowledge, Attempted, SetSpend
  <2> HIDE DEF attempted, failed
  <2> QED BY <1>2, <1>3, <1>5, <1>6, <1>7, <2>1, BookStep
<1>9. CASE SubmitUncertain(p)
  <2> DEFINE c == [Return(p) EXCEPT !.recovering = TRUE, !.retried = FALSE]
  <2>1. log' = [log EXCEPT ![p].spend = attempted] /\ proc' = [proc EXCEPT ![p] = c]
    BY <1>9 DEF SubmitUncertain, Attempted, SetSpend
  <2>2. c \in Procs /\ c.call = "none"
    BY <1>5 DEF Procs
  <2> HIDE DEF attempted, failed, c
  <2> QED BY <1>2, <1>3, <1>6, <1>7, <2>1, <2>2, BookStep
<1>10. CASE RetryFailed(p)
  <2>1. log' = [log EXCEPT ![p].spend = failed] /\ proc' = [proc EXCEPT ![p] = Stopped("halted")]
    BY <1>10 DEF RetryFailed, SetSpend
  <2>2. Stopped("halted") \in Procs /\ Stopped("halted").call = "none"
    BY StoppedType
  <2> HIDE DEF attempted, failed
  <2> QED BY <1>2, <1>4, <1>6, <1>7, <2>1, <2>2, BookStep
<1> QED BY <1>8, <1>9, <1>10 DEF Reply

\* Sending again what is saved adds nothing that differs from what was sent.
LEMMA SendStep ==
    ASSUME DInv, NEW p \in Players, Submit(p) \/ RecoverRetry(p)
    PROVE  DInv'
<1>1. PICK call \in {"submit", "retry"} : Send(p, call)
  BY DEF Submit, RecoverRetry
<1> DEFINE c == [proc[p] EXCEPT !.call = call, !.calledAt = clock, !.unspent = FALSE,
                               !.retried = proc[p].retried \/ call = "retry"]
<1>2. c \in Procs /\ proc' = [proc EXCEPT ![p] = c]
  <2>1. proc' = [proc EXCEPT ![p] = c]
    BY <1>1 DEF Send
  <2>2. (proc[p].retried \/ call = "retry") \in BOOLEAN
    OBVIOUS
  <2>3. proc[p] \in Procs /\ clock \in Nat
    BY OwnTypes
  <2>4. c \in Procs
    BY <2>2, <2>3 DEF Procs
  <2> QED BY <2>1, <2>4
<1>3. log[p].spend.sig # 0 /\ log[p].spend.sig \in Nat /\ log[p].spend # NoSpend
  BY OwnTypes, NoSpendType DEF Submit, RecoverRetry, Signed, Spends
<1>4. PICK tx \in AnyTx : tx.by = p /\ log[p].spend.tx = {tx}
  BY <1>3, OwnTypes, SavedShape
<1>5. sent' = sent \cup {[tx |-> tx, sig |-> log[p].spend.sig]}
  BY <1>1, <1>4 DEF Send
<1>6. sent' \subseteq Bundles
  BY <1>3, <1>4, <1>5 DEF DInv, Types, Bundles
<1>7. \A b \in sent' : IF b.tx.by = p THEN Carries(log[p], b) ELSE b \in sent
  <2> SUFFICES ASSUME NEW b \in sent', b.tx.by = p PROVE Carries(log[p], b)
    BY <1>4, <1>5
  <2>1. CASE b \in sent
    BY <2>1 DEF DInv
  <2>2. CASE b = [tx |-> tx, sig |-> log[p].spend.sig]
    BY <1>4, <2>2 DEF Carries
  <2> QED BY <1>5, <2>1, <2>2
<1>8. log[p] \in Logs /\ log' = [log EXCEPT ![p] = log[p]] /\ UNCHANGED services
  BY <1>1 DEF Send, DInv, Types
<1>9. PlayerFits(p, log[p], c)
  BY <1>3 DEF DInv, PlayerFits
<1>10. signings' \in [Players -> Nat] /\ crashes' \in Nat /\ clock' \in Nat
  BY <1>1, OwnTypes DEF Send
<1>11. \A i \in 1..Len(accepted) : accepted[i].by = p => Knows(log[p], i)
  BY DEF DInv
<1> HIDE DEF c
<1> QED BY <1>2, <1>6, <1>7, <1>8, <1>9, <1>10, <1>11, OwnStep

\* A player with nothing saved has nothing with the services.
LEMMA NothingSent ==
    ASSUME DInv, NEW p \in Players, log[p].spend = NoSpend
    PROVE  \A b \in sent : b.tx.by # p
  BY SentShape

LEMMA PrepareStep ==
    ASSUME DInv, NEW p \in Players, PrepareAny(p)
    PROVE  DInv'
<1>1. PICK tx \in Permitted(p, log[p].seen) : Prepare(p, tx)
  BY DEF PrepareAny
<1> DEFINE spend == [NoSpend EXCEPT !.tx = {tx}]
           l == [log[p] EXCEPT !.spend = spend]
           c == [proc[p] EXCEPT !.unspent = FALSE]
<1>2. tx \in AnyTx
  BY OwnTypes, PermittedShape DEF Logs
<1>3. spend \in Spends /\ spend.tx = {tx}
  BY <1>2 DEF NoSpend, Spends
<1>4. /\ l \in Logs /\ l.spend = spend /\ l.seen = log[p].seen
      /\ l.finished = log[p].finished /\ l.aborted = log[p].aborted
  BY <1>3, OwnTypes DEF Logs
<1>5. c \in Procs /\ c.call = proc[p].call
  BY OwnTypes DEF Procs
<1>6. log' = [log EXCEPT ![p] = l] /\ proc' = [proc EXCEPT ![p] = c]
  BY <1>1 DEF Prepare, SetSpend, InspectAgain
<1>7. /\ proc[p].call = "none" /\ ~log[p].aborted /\ ~log[p].finished
      /\ log[p].spend = NoSpend
  BY <1>1 DEF Prepare, Idle, Saved
<1> HIDE DEF spend, l, c
<1>8. PlayerFits(p, l, c)
  BY <1>3, <1>4, <1>5, <1>7, OwnTypes DEF PlayerFits
<1>9. UNCHANGED <<services, sent>> /\ sent' \subseteq Bundles
  BY <1>1 DEF Prepare, DInv, Types
<1>10. \A b \in sent' : IF b.tx.by = p THEN Carries(l, b) ELSE b \in sent
  BY <1>7, <1>9, NothingSent
<1>11. \A i \in 1..Len(accepted) : accepted[i].by = p => Knows(l, i)
  <2> SUFFICES ASSUME NEW i \in 1..Len(accepted), accepted[i].by = p PROVE Knows(l, i)
    OBVIOUS
  <2>1. Knows(log[p], i)
    BY DEF DInv
  <2>2. ~(log[p].seen < i)
    BY <1>7, <2>1, NoSpendType DEF Knows
  <2> QED BY <1>4, <2>2 DEF Knows
<1>12. signings' \in [Players -> Nat] /\ crashes' \in Nat /\ clock' \in Nat
  BY <1>1, OwnTypes DEF Prepare
<1> QED BY <1>4, <1>5, <1>6, <1>8, <1>9, <1>10, <1>11, <1>12, OwnStep

LEMMA AbortStep ==
    ASSUME DInv, NEW p \in Players, Abort(p)
    PROVE  DInv'
<1> DEFINE l == [log[p] EXCEPT !.aborted = TRUE]
           c == [proc[p] EXCEPT !.unspent = FALSE]
<1>1. /\ l \in Logs /\ l.spend = log[p].spend /\ l.seen = log[p].seen
      /\ l.finished = log[p].finished
  BY OwnTypes DEF Logs
<1>2. c \in Procs /\ c.call = proc[p].call
  BY OwnTypes DEF Procs
<1>3. log' = [log EXCEPT ![p] = l] /\ proc' = [proc EXCEPT ![p] = c]
  BY DEF Abort, InspectAgain
<1>4. /\ proc[p].call = "none" /\ log[p].spend = NoSpend
      /\ IF p = 1 THEN log[p].seen <= 1 ELSE log[p].seen = 0
  BY DEF Abort, Idle, Saved
<1> HIDE DEF l, c
<1>5. PlayerFits(p, l, c)
  BY <1>1, <1>2, <1>4, OwnTypes DEF PlayerFits
<1>6. UNCHANGED <<services, sent>> /\ sent' \subseteq Bundles
  BY DEF Abort, DInv, Types
<1>7. \A b \in sent' : IF b.tx.by = p THEN Carries(l, b) ELSE b \in sent
  BY <1>4, <1>6, NothingSent
<1>8. \A i \in 1..Len(accepted) : accepted[i].by = p => Knows(l, i)
  BY <1>1 DEF DInv, Knows
<1>9. signings' \in [Players -> Nat] /\ crashes' \in Nat /\ clock' \in Nat
  BY OwnTypes DEF Abort
<1> QED BY <1>1, <1>2, <1>3, <1>5, <1>6, <1>7, <1>8, <1>9, OwnStep

\* What superseded the saved work was the work itself or made it worthless.
LEMMA ObserveStep ==
    ASSUME DInv, NEW p \in Players, Observe(p)
    PROVE  DInv'
<1> DEFINE k == log[p].seen + 1
           t == IF k = Last THEN clock ELSE 0
           l == [log[p] EXCEPT !.seen = k, !.spend = NoSpend,
                               !.finished = Terminal(accepted[k]), !.observedAt = t]
           c == [proc[p] EXCEPT !.unspent = FALSE]
<1>1. /\ log[p].seen \in Nat /\ k \in Nat /\ k > 0 /\ k <= indexed /\ t \in Nat
      /\ indexed \in Nat /\ indexed <= Len(accepted) /\ Len(accepted) \in Nat
  BY OwnTypes, LenProperties DEF Observe, Types, Logs
<1>2. Terminal(accepted[k]) \in BOOLEAN
  BY DEF Terminal
<1>3. log' = [log EXCEPT ![p] = l] /\ proc' = [proc EXCEPT ![p] = c]
  BY DEF Observe, InspectAgain
<1>4. proc[p].call = "none" /\ ~log[p].aborted /\ ~log[p].finished
  BY DEF Observe, Idle
<1>5. c \in Procs /\ c.call = proc[p].call
  BY OwnTypes DEF Procs
<1> HIDE DEF t, c
<1>6. /\ l \in Logs /\ l.seen = k /\ l.spend = NoSpend
      /\ l.finished = Terminal(accepted[k]) /\ l.aborted = log[p].aborted
  BY <1>1, <1>2, NoSpendType, OwnTypes DEF Logs
<1> HIDE DEF l
<1>7. PlayerFits(p, l, c)
  BY <1>1, <1>4, <1>5, <1>6 DEF PlayerFits
<1>8. /\ UNCHANGED services
      /\ sent' = {b \in sent : b.tx.by # p \/ b.tx.source > log[p].seen}
      /\ sent' \subseteq Bundles
  BY DEF Observe, DInv, Types
<1>9. \A b \in sent' : IF b.tx.by = p THEN Carries(l, b) ELSE b \in sent
  BY <1>1, <1>8, SentShape
<1>10. \A i \in 1..Len(accepted) : accepted[i].by = p => Knows(l, i)
  <2> SUFFICES ASSUME NEW i \in 1..Len(accepted), accepted[i].by = p, k < i PROVE FALSE
    BY <1>6 DEF Knows
  <2>1. Knows(log[p], i) /\ log[p].seen < i
    BY <1>1 DEF DInv
  <2>2. log[p].spend.tx = {accepted[i]}
    BY <2>1 DEF Knows
  <2>3. log[p].spend # NoSpend
    BY <2>2, NoSpendType
  <2>4. PICK tx \in AnyTx : tx.source = log[p].seen /\ log[p].spend.tx = {tx}
    BY <2>3, OwnTypes, SavedShape
  <2>5. accepted[i].source = log[p].seen
    BY <2>2, <2>4
  <2> QED BY <1>1, <2>5, AcceptedShape
<1>11. signings' \in [Players -> Nat] /\ crashes' \in Nat /\ clock' \in Nat
  BY OwnTypes DEF Observe
<1> HIDE DEF k
<1> QED BY <1>3, <1>5, <1>6, <1>7, <1>8, <1>9, <1>10, <1>11, OwnStep

(***************************************************************************)
(* The steps of the services and of the clock.                             *)
(***************************************************************************)
\* The service accepts what a client still has saved, once for every output.
LEMMA AcceptStep ==
    ASSUME DInv, NEW b \in sent, Accept(b)
    PROVE  DInv'
<1> DEFINE n == Len(accepted) + 1
<1>1. /\ accepted \in Seq(AnyTx) /\ b.tx \in AnyTx
      /\ accepted' = Append(accepted, b.tx)
      /\ UNCHANGED <<indexed, sent, log, proc, signings, crashes, clock>>
  BY SentShape DEF Accept, DInv, Types
<1>2. /\ Len(accepted) \in Nat /\ Len(accepted') = n
      /\ accepted' \in Seq(AnyTx)
      /\ \A i \in 1..Len(accepted) : accepted'[i] = accepted[i]
      /\ accepted'[n] = b.tx
  BY <1>1, AppendProperties, LenProperties
<1>3. b.tx.source = Len(accepted) /\ ~Settled
  BY DEF Accept
<1>4. \A i \in 1..Len(accepted) : ~Terminal(accepted[i])
  <2> SUFFICES ASSUME NEW i \in 1..Len(accepted), Terminal(accepted[i]) PROVE FALSE
    OBVIOUS
  <2>1. i = Len(accepted)
    BY DEF DInv
  <2>2. accepted # <<>>
    BY <1>1, <1>2, EmptySeq
  <2> QED BY <1>3, <2>1, <2>2 DEF Settled
<1>5. Types'
  BY <1>1, <1>2 DEF DInv, Types
<1>6. \A p \in Players : PlayerFits(p, log[p], proc[p])'
  <2> SUFFICES ASSUME NEW p \in Players PROVE PlayerFits(p, log[p], proc[p])'
    OBVIOUS
  <2>1. /\ PlayerFits(p, log[p], proc[p])
        /\ log[p].seen \in Nat /\ indexed \in Nat /\ indexed <= Len(accepted)
    BY OwnTypes DEF Types, Logs
  <2>2. log[p].seen > 0 => accepted'[log[p].seen] = accepted[log[p].seen]
    BY <1>2, <2>1 DEF PlayerFits
  <2> QED BY <1>1, <2>1, <2>2 DEF PlayerFits, Terminal
<1>7. ASSUME NEW q \in sent' PROVE Carries(log[q.tx.by], q)'
  BY <1>1 DEF DInv, Carries
<1>8. ASSUME NEW i \in 1..Len(accepted')
      PROVE  /\ accepted'[i] \in Permitted(accepted'[i].by, i - 1)
             /\ Knows(log[accepted[i].by], i)'
             /\ Terminal(accepted'[i]) => i = Len(accepted')
  <2>1. CASE i = n
    <3>1. /\ log[b.tx.by].spend.tx = {b.tx}
          /\ b.tx \in Permitted(b.tx.by, log[b.tx.by].seen)
          /\ b.tx.source = log[b.tx.by].seen
      BY SentShape
    <3>2. log[b.tx.by].seen = i - 1
      BY <1>2, <1>3, <2>1, <3>1
    <3>3. accepted'[i] = b.tx
      BY <1>2, <2>1
    <3>4. Knows(log[accepted[i].by], i)'
      BY <1>1, <3>1, <3>2, <3>3 DEF Knows
    <3> QED BY <1>2, <2>1, <3>1, <3>2, <3>3, <3>4
  <2>2. CASE i # n
    <3>1. i \in 1..Len(accepted) /\ accepted'[i] = accepted[i]
      BY <1>2, <2>2
    <3>2. Knows(log[accepted[i].by], i)'
      BY <1>1, <3>1 DEF DInv, Knows
    <3> QED BY <1>4, <3>1, <3>2 DEF DInv, Terminal
  <2> QED BY <2>1, <2>2
<1> QED BY <1>5, <1>6, <1>7, <1>8 DEF DInv

LEMMA IndexStep == DInv /\ Index => DInv'
<1> SUFFICES ASSUME DInv, Index PROVE DInv'
  OBVIOUS
<1>1. /\ indexed \in Nat /\ indexed' = indexed + 1 /\ indexed' <= Len(accepted)
      /\ UNCHANGED <<accepted, sent, log, proc, signings, crashes, clock>>
  BY LenProperties DEF Index, DInv, Types
<1>2. Types'
  BY <1>1 DEF DInv, Types
<1>3. ASSUME NEW p \in Players PROVE PlayerFits(p, log[p], proc[p])'
  <2>1. PlayerFits(p, log[p], proc[p]) /\ log[p].seen \in Nat
    BY OwnTypes DEF Logs
  <2> QED BY <1>1, <2>1 DEF PlayerFits, Terminal
<1>4. \A b \in sent' : Carries(log[b.tx.by], b)'
  BY <1>1 DEF DInv, Carries
<1>5. ASSUME NEW i \in 1..Len(accepted')
      PROVE  /\ accepted'[i] \in Permitted(accepted'[i].by, i - 1)
             /\ Knows(log[accepted[i].by], i)'
             /\ Terminal(accepted'[i]) => i = Len(accepted')
  BY <1>1 DEF DInv, Knows, Terminal
<1> QED BY <1>2, <1>3, <1>4, <1>5 DEF DInv

LEMMA StillStep ==
    ASSUME DInv, UNCHANGED <<services, sent, log, proc, signings, crashes>>, clock' \in Nat
    PROVE  DInv'
<1>1. Types'
  BY DEF DInv, Types, services
<1>2. ASSUME NEW p \in Players PROVE PlayerFits(p, log[p], proc[p])'
  BY DEF DInv, PlayerFits, Terminal, services
<1>3. \A b \in sent' : Carries(log[b.tx.by], b)'
  BY DEF DInv, Carries
<1>4. ASSUME NEW i \in 1..Len(accepted')
      PROVE  /\ accepted'[i] \in Permitted(accepted'[i].by, i - 1)
             /\ Knows(log[accepted[i].by], i)'
             /\ Terminal(accepted'[i]) => i = Len(accepted')
  BY DEF DInv, Knows, Terminal, services
<1> QED BY <1>1, <1>2, <1>3, <1>4 DEF DInv

(***************************************************************************)
(* The theorems.                                                           *)
(***************************************************************************)
LEMMA NextDInv == DInv /\ [Next]_vars => DInv'
<1> SUFFICES ASSUME DInv, [Next]_vars PROVE DInv'
  OBVIOUS
<1>1. clock \in Nat
  BY DEF DInv, Types
<1>2. CASE \E b \in sent : Accept(b)
  BY <1>2, AcceptStep
<1>3. CASE Index
  BY <1>3, IndexStep
<1>4. CASE Tick
  BY <1>1, <1>4, StillStep DEF Tick
<1>5. CASE Over \/ UNCHANGED vars
  BY <1>1, <1>5, StillStep DEF Over, vars, services
<1>6. ASSUME NEW p \in Players, DriverStep(p) PROVE DInv'
  BY <1>6, ObserveStep, InspectStep, PrepareStep, SignStep, SendStep, ReplyStep, StopSteps,
     AbortStep, RecoverResumeStep DEF DriverStep
<1>7. ASSUME NEW p \in Players, SignLost(p) \/ Crash(p) \/ Start(p) PROVE DInv'
  BY <1>7, StopSteps, StartStep
<1> QED BY <1>2, <1>3, <1>4, <1>5, <1>6, <1>7 DEF Next

LEMMA DInvAlways == Spec => []DInv
<1> QED BY InitDInv, NextDInv, PTL DEF Spec

LEMMA DInvImplies ==
    DInv => OneBundlePerSource /\ NothingSentIsForgotten /\ AbortLocksNothing /\ ResultsAreFinal
<1> SUFFICES ASSUME DInv
             PROVE  /\ OneBundlePerSource /\ NothingSentIsForgotten
                    /\ AbortLocksNothing /\ ResultsAreFinal
  OBVIOUS
<1>1. OneBundlePerSource
  <2> SUFFICES ASSUME NEW b \in sent, NEW c \in sent, b.tx.by = c.tx.by PROVE b = c
    BY DEF OneBundlePerSource
  <2>1. b.tx = c.tx /\ b.sig = c.sig
    BY SentShape
  <2> QED BY <2>1, SentShape
<1>2. NothingSentIsForgotten
  BY SentShape DEF NothingSentIsForgotten
<1>3. AbortLocksNothing
  <2> SUFFICES ASSUME NEW p \in Players, log[p].aborted
               PROVE  /\ \A b \in sent : b.tx.by # p
                      /\ \A i \in 1..Len(accepted) : accepted[i].by # p
    BY DEF AbortLocksNothing
  <2>1. log[p].spend = NoSpend /\ IF p = 1 THEN log[p].seen <= 1 ELSE log[p].seen = 0
    BY OwnTypes DEF PlayerFits
  <2>2. ASSUME NEW i \in 1..Len(accepted), accepted[i].by = p PROVE FALSE
    <3>1. Len(accepted) \in Nat /\ log[p].seen \in Nat
      BY OwnTypes, LenProperties DEF Types, Logs
    <3>2. Knows(log[p], i)
      BY <2>2 DEF DInv
    <3>3. i <= log[p].seen
      BY <2>1, <3>1, <3>2, NoSpendType DEF Knows
    <3>4. p = 1 /\ i = 1
      BY <2>1, <3>1, <3>3 DEF Players
    <3> QED BY <2>2, <3>4, AcceptedShape
  <2> QED BY <2>1, <2>2, NothingSent
<1>4. ResultsAreFinal
  <2> SUFFICES ASSUME NEW p \in Players, log[p].finished
               PROVE  /\ Settled /\ log[p].seen = Len(accepted)
                      /\ \A b \in sent : b.tx.source < Len(accepted)
    BY DEF ResultsAreFinal
  <2>1. /\ log[p].seen \in 1..Len(accepted) /\ Terminal(accepted[log[p].seen])
        /\ Len(accepted) \in Nat
    BY OwnTypes, LenProperties DEF Types, Logs, PlayerFits
  <2>2. log[p].seen = Len(accepted)
    BY <2>1 DEF DInv
  <2>3. accepted # <<>>
    BY <2>1, EmptySeq DEF Types
  <2>4. ASSUME NEW b \in sent PROVE b.tx.source < Len(accepted)
    <3> DEFINE q == b.tx.by
    <3>1. /\ q \in Players /\ b.tx.source = log[q].seen /\ ~log[q].finished
      BY SentShape
    <3>2. log[q].seen <= Len(accepted) /\ log[q].seen \in Nat
      BY <3>1, OwnTypes DEF PlayerFits, Types, Logs
    <3>3. log[q].seen # Len(accepted)
      BY <2>1, <2>2, <3>1, OwnTypes DEF PlayerFits
    <3> QED BY <2>1, <3>1, <3>2, <3>3
  <2> QED BY <2>1, <2>2, <2>3, <2>4 DEF Settled
<1> QED BY <1>1, <1>2, <1>3, <1>4

\* Whatever crashes, is lost or answered late, a client sends one spend of each
\* output with one signature (driver_effects.go).
THEOREM OneBundle == Spec => []OneBundlePerSource
<1> QED BY DInvAlways, DInvImplies, PTL

\* What may still be accepted is in its sender's journal as it was sent
\* (journal.go, driver_recovery.go).
THEOREM NothingForgotten == Spec => []NothingSentIsForgotten
<1> QED BY DInvAlways, DInvImplies, PTL

\* A setup that aborted has nothing of its player with the services (hand_reduce.go).
THEOREM AbortsAreFree == Spec => []AbortLocksNothing
<1> QED BY DInvAlways, DInvImplies, PTL

\* A reported result can no longer change (driver_observe.go).
THEOREM FinalResults == Spec => []ResultsAreFinal
<1> QED BY DInvAlways, DInvImplies, PTL
=============================================================================
