---------------------------- MODULE ClientProofs ----------------------------
(***************************************************************************)
(* Proofs about Client and UserInterface, for all bounds: the money that   *)
(* left for a covenant is in the saved game that is resumed                *)
(* (MoneyIsAccountedFor); keys, saved games and calls are consistent       *)
(* (InterfaceIsConsistent); an input is served in the position it was      *)
(* chosen in (InputsMeetTheirPosition).                                    *)
(***************************************************************************)
EXTENDS ClientProperties, FiniteSetTheorems, SequenceTheorems, TLAPS

(***************************************************************************)
(* The log.  A legal log is one that the driver could have written: the    *)
(* kinds of records follow one another as games do, and each part from the *)
(* beginning has a last start.                                             *)
(***************************************************************************)
Kinds == {"Configured", "Setup", "SetupAborted", "Spend", "Deposit", "Result"}
Successions ==
    {<<"Configured", "Setup">>, <<"Setup", "SetupAborted">>, <<"Setup", "Spend">>,
     <<"Spend", "Deposit">>, <<"Spend", "Result">>, <<"Deposit", "Spend">>,
     <<"Deposit", "Result">>, <<"SetupAborted", "Configured">>, <<"Result", "Configured">>}

StartsLast(m, s, n) ==
    /\ m \in 1..n /\ s[m] = "Configured"
    /\ \A j \in 1..n : s[j] = "Configured" => j <= m

Legal(s) ==
    /\ s \in Seq(Kinds)
    /\ Len(s) > 0 => s[1] = "Configured"
    /\ \A i \in 1..(Len(s) - 1) : <<s[i], s[i + 1]>> \in Successions
    /\ \A n \in 1..Len(s) : \E m \in 1..n : StartsLast(m, s, n)

\* The record k may come next.
MayFollow(s, k) ==
    IF Len(s) = 0 THEN k = "Configured" ELSE <<s[Len(s)], k>> \in Successions

EndsIn(s, kinds) == Len(s) > 0 /\ s[Len(s)] \in kinds

LEMMA AppendIsLegal ==
    ASSUME NEW s, Legal(s), NEW k, MayFollow(s, k)
    PROVE  Legal(Append(s, k))
<1> DEFINE t == Append(s, k)
<1>1. s \in Seq(Kinds) /\ k \in Kinds
    BY DEF Legal, MayFollow, Successions, Kinds
<1>2. /\ t \in Seq(Kinds) /\ Len(t) = Len(s) + 1 /\ t[Len(s) + 1] = k
      /\ \A i \in 1..Len(s) : t[i] = s[i]
      /\ Len(s) \in Nat
    BY <1>1
<1> HIDE DEF t
<1>3. t[1] = "Configured"
    BY <1>2 DEF Legal, MayFollow
<1>4. ASSUME NEW i \in 1..(Len(t) - 1) PROVE <<t[i], t[i + 1]>> \in Successions
    <2>1. CASE i = Len(s)
        BY <1>2, <2>1 DEF MayFollow
    <2>2. CASE i # Len(s)
        <3>1. i \in 1..(Len(s) - 1) /\ i + 1 \in 1..Len(s)
            BY <1>2, <2>2
        <3> QED BY <1>2, <3>1 DEF Legal
    <2> QED BY <2>1, <2>2
<1>5. ASSUME NEW n \in 1..Len(t) PROVE \E m \in 1..n : StartsLast(m, t, n)
    <2>1. CASE n \in 1..Len(s)
        <3>1. PICK m \in 1..n : StartsLast(m, s, n)
            BY <2>1 DEF Legal
        <3>2. \A j \in 1..n : t[j] = s[j]
            BY <1>2, <2>1
        <3> QED BY <3>1, <3>2 DEF StartsLast
    <2>2. CASE n = Len(s) + 1 /\ k = "Configured"
        BY <1>2, <2>2 DEF StartsLast
    <2>3. CASE n = Len(s) + 1 /\ k # "Configured"
        <3>1. Len(s) \in 1..Len(s)
            BY <1>2, <2>3 DEF MayFollow
        <3>2. PICK m \in 1..Len(s) : StartsLast(m, s, Len(s))
            BY <3>1 DEF Legal
        <3>3. StartsLast(m, t, n)
            BY <1>2, <2>3, <3>2 DEF StartsLast
        <3> QED BY <1>2, <2>3, <3>3
    <2> QED BY <1>2, <2>1, <2>2, <2>3
<1> QED BY <1>2, <1>3, <1>4, <1>5 DEF Legal, t

LEMMA PartIsLegal ==
    ASSUME NEW s, Legal(s), NEW n \in 0..Len(s)
    PROVE  Legal(SubSeq(s, 1, n)) /\ Len(SubSeq(s, 1, n)) = n
<1> DEFINE t == SubSeq(s, 1, n)
<1>1. s \in Seq(Kinds)
    BY DEF Legal
<1>2. /\ t \in Seq(Kinds) /\ Len(t) = n /\ n \in Nat /\ Len(s) \in Nat
      /\ \A i \in 1..n : t[i] = s[i]
    BY <1>1
<1> HIDE DEF t
<1>3. Len(t) > 0 => t[1] = "Configured"
    BY <1>2 DEF Legal
<1>4. ASSUME NEW i \in 1..(Len(t) - 1) PROVE <<t[i], t[i + 1]>> \in Successions
    <2>1. i \in 1..(Len(s) - 1) /\ i \in 1..n /\ i + 1 \in 1..n
        BY <1>2
    <2> QED BY <1>2, <2>1 DEF Legal
<1>5. ASSUME NEW l \in 1..Len(t) PROVE \E m \in 1..l : StartsLast(m, t, l)
    <2>1. l \in 1..Len(s) /\ \A j \in 1..l : t[j] = s[j]
        BY <1>2
    <2>2. PICK m \in 1..l : StartsLast(m, s, l)
        BY <2>1 DEF Legal
    <2> QED BY <2>1, <2>2 DEF StartsLast
<1> QED BY <1>2, <1>3, <1>4, <1>5 DEF Legal, t

\* The last start is where the current game begins, and a game ends as its log does.
LEMMA TheCurrentGame ==
    ASSUME NEW s, Legal(s), Len(s) > 0
    PROVE  /\ StartsLast(LastStart(s), s, Len(s))
           /\ Starts(s) # {}
           /\ CurrentOffset(s) = LastStart(s) - 1
           /\ CurrentOffset(s) \in 0..(Len(s) - 1)
<1>1. Len(s) \in 1..Len(s) /\ Len(s) \in Nat
    BY DEF Legal
<1>2. PICK m \in 1..Len(s) : StartsLast(m, s, Len(s))
    BY <1>1 DEF Legal
<1>3. m \in Starts(s) /\ \A j \in Starts(s) : j <= m
    BY <1>2 DEF StartsLast, Starts
<1>4. LastStart(s) \in Starts(s) /\ \A j \in Starts(s) : j <= LastStart(s)
    BY <1>3 DEF LastStart
<1>5. s # <<>>
    BY <1>1
<1> QED BY <1>1, <1>4, <1>5 DEF StartsLast, Starts, CurrentOffset

LEMMA GameOfLog ==
    ASSUME NEW s, Legal(s), NEW o \in 0..(Len(s) - 1)
    PROVE  LET game == SubSeq(s, o + 1, Len(s)) IN
           /\ game \in Seq(Kinds) /\ Len(game) = Len(s) - o
           /\ game # <<>> /\ Last(game) = s[Len(s)]
           /\ \A i \in 1..Len(game) : game[i] = s[o + i]
<1>1. s \in Seq(Kinds) /\ Len(s) \in Nat
    BY DEF Legal
<1> DEFINE game == SubSeq(s, o + 1, Len(s))
<1>2. /\ game \in Seq(Kinds) /\ Len(game) = Len(s) - o
      /\ \A i \in 1..Len(game) : game[i] = s[o + i]
    BY <1>1
<1> HIDE DEF game
<1>3. Len(game) \in 1..Len(game) /\ o + Len(game) = Len(s)
    BY <1>1, <1>2
<1>4. game # <<>> /\ game[Len(game)] = s[Len(s)]
    BY <1>2, <1>3
<1> QED BY <1>2, <1>4 DEF Last, game

(***************************************************************************)
(* Types.                                                                  *)
(***************************************************************************)
Ops == {"none", "open", "clear", "abort"}
Snapshots ==
    [game : Nat, events : Nat, stage : {"Outcome", "Hand", "Setup", "Init"}, choice : BOOLEAN]
Updates ==
    [game : Nat, events : Nat, stage : {"Outcome", "Hand", "Setup", "Init"}, choice : BOOLEAN,
     error : {"none", "rejected", "stopped"}]
Runs ==
    [phase : {"none", "driving", "terminal", "failed", "ended"}, id : Nat, offset : Nat,
     game : Nat, stop : BOOLEAN, owns : BOOLEAN, news : SUBSET Updates, polled : BOOLEAN]
Calls == [op : Ops, step : {"none", "lock", "join", "check", "erase", "reopen"}]
Models ==
    [held : BOOLEAN, public : BOOLEAN, connecting : BOOLEAN, clearing : BOOLEAN, session : Nat,
     busy : BOOLEAN, stopped : BOOLEAN, generation : Nat, shows : Snapshots, quit : BOOLEAN]
Messages ==
    [kind : {"update"}, generation : Nat, update : Updates]
    \cup [kind : {"closed", "refused"}, generation : Nat]

Submissions ==
    [kind : {"new", "setup", "act"}, session : Nat, generation : Nat, shows : Snapshots]

ClientTyped ==
    /\ seen \in Seq(Kinds) /\ kept \in Seq(Kinds)
    /\ run \in Runs /\ call \in Calls
    /\ client \in [session : BOOLEAN, pending : BOOLEAN, closed : BOOLEAN]
    /\ key \in {"none", "live", "destroyed"} /\ stake \in {"none", "sent", "settled"}
    /\ replies \subseteq [op : Ops, ok : BOOLEAN, session : Nat]
    /\ count \in [sessions : Nat, failures : Nat]

InterfaceTyped ==
    /\ ui \in Models
    /\ readers \subseteq [session : Nat, generation : Nat]
    /\ inbox \subseteq Messages
    /\ commands \in Seq(Submissions)

Typed == ClientTyped /\ InterfaceTyped

LEMMA UpdatesAreTyped ==
    ASSUME ClientTyped, NEW choice \in BOOLEAN
    PROVE  /\ Snapshot(Game, choice) \in Updates
           /\ \A kind \in {"none", "rejected", "stopped"} : ErrorUpdate(kind) \in Updates
           /\ \A kind : Snapshot(Append(Game, kind), choice) \in Updates
<1>1. Game \in Seq(Kinds) /\ Len(Game) \in Nat
    BY DEF ClientTyped, Runs, Game
<1>2. ASSUME NEW kind PROVE Len(Append(Game, kind)) \in Nat
    <2>1. Append(Game, kind) \in Seq(Kinds \cup {kind})
        BY <1>1
    <2> QED BY <2>1
<1>3. \A game : StageShown(game) \in {"Outcome", "Hand", "Setup", "Init"}
    BY DEF StageShown
<1>4. run.game \in Nat
    BY DEF ClientTyped, Runs
<1>5. \A game, c : Len(game) \in Nat /\ c \in BOOLEAN => Snapshot(game, c) \in Updates
    BY <1>3, <1>4 DEF Snapshot, Updates
<1>6. Snapshot(Game, FALSE) \in Updates
    BY <1>1, <1>5
<1>7. \A kind \in {"none", "rejected", "stopped"} : ErrorUpdate(kind) \in Updates
    BY <1>6 DEF ErrorUpdate, Updates
<1> QED BY <1>1, <1>2, <1>5, <1>7

LEMMA FollowingKinds == \A game : Follows(game) \subseteq Kinds
    BY DEF Follows, Kinds

LEMMA RunTyped ==
    ASSUME ClientTyped
    PROVE  /\ \A update \in Updates : Tell(update) => run' \in Runs
           /\ Fail => run' \in Runs /\ count' \in [sessions : Nat, failures : Nat]
<1>1. run \in Runs /\ count \in [sessions : Nat, failures : Nat]
    BY DEF ClientTyped
<1>2. ASSUME NEW update \in Updates, Tell(update) PROVE run' \in Runs
    BY <1>1, <1>2 DEF Tell, Runs
<1>3. ASSUME Fail PROVE run' \in Runs
    <2>1. ErrorUpdate("stopped") \in Updates
        BY UpdatesAreTyped
    <2> QED BY <1>1, <1>3, <2>1 DEF Fail, Runs
<1>4. ASSUME Fail PROVE count' \in [sessions : Nat, failures : Nat]
    BY <1>1, <1>4 DEF Fail, Failed
<1> QED BY <1>2, <1>3, <1>4

LEMMA JournalTyped ==
    ASSUME ClientTyped, NEW kind \in Kinds, Journal(kind),
           UNCHANGED <<call, client, key, replies>>
    PROVE  ClientTyped'
<1>1. seen' \in Seq(Kinds) /\ kept' \in Seq(Kinds)
    <2>1. seen \in Seq(Kinds) /\ kept \in Seq(Kinds) /\ Append(seen, kind) \in Seq(Kinds)
        BY DEF ClientTyped
    <2>2. seen' \in {seen, Append(seen, kind)} /\ kept' \in {kept, Append(seen, kind)}
        BY DEF Journal
    <2> QED BY <2>1, <2>2
<1>2. run' \in Runs /\ count' \in [sessions : Nat, failures : Nat]
    <2>1. CASE Tell(Snapshot(Append(Game, kind), FALSE)) /\ UNCHANGED count
        <3>1. Snapshot(Append(Game, kind), FALSE) \in Updates
            BY UpdatesAreTyped
        <3> QED BY <2>1, <3>1, RunTyped DEF ClientTyped
    <2>2. CASE Fail
        BY <2>2, RunTyped
    <2> QED BY <2>1, <2>2 DEF Journal
<1>3. stake' \in {"none", "sent", "settled"}
    BY DEF Journal, ClientTyped
<1> QED BY <1>1, <1>2, <1>3 DEF ClientTyped

LEMMA DriverTyped ==
    ASSUME ClientTyped, DriverSteps \/ Poll(InputWaits) \/ EndRun \/ Settle \/ NextGame
                        \/ \E kind \in {"setup", "act"} : TakeInput(kind)
    PROVE  ClientTyped'
<1>1. CASE DriverStep
    BY <1>1, JournalTyped, FollowingKinds DEF DriverStep
<1>2. CASE Emit
    <2>1. Snapshot(Game, Chooses(Game)) \in Updates
        BY UpdatesAreTyped DEF Chooses, Ends
    <2> QED BY <1>2, <2>1, RunTyped DEF Emit, keepLog, logVars, ClientTyped
<1>3. CASE Send \/ Settle
    BY <1>3 DEF Send, Settle, keepLog, logVars, ClientTyped
<1>4. CASE Return
    <2>1. CASE Fail
        <3>1. run' \in Runs /\ count' \in [sessions : Nat, failures : Nat]
            BY <2>1, RunTyped
        <3> QED BY <1>4, <3>1 DEF Return, keepLog, logVars, ClientTyped
    <2>2. CASE ~Fail
        <3>1. Snapshot(Game, FALSE) \in Updates
            BY UpdatesAreTyped
        <3>2. /\ run' = [run EXCEPT !.phase = "terminal", !.news = {Snapshot(Game, FALSE)}]
              /\ UNCHANGED count
            BY <1>4, <2>2 DEF Return
        <3>3. run \in Runs
            BY DEF ClientTyped
        <3>4. run' \in Runs
            BY <3>1, <3>2, <3>3 DEF Runs
        <3> QED BY <1>4, <3>2, <3>4 DEF Return, keepLog, logVars, ClientTyped
    <2> QED BY <2>1, <2>2
<1>5. CASE Poll(InputWaits)
    <2>1. run' \in Runs
        BY <1>5 DEF Poll, ClientTyped, Runs
    <2> QED BY <1>5, <2>1 DEF Poll, keepLog, logVars, ClientTyped
<1>6. CASE EndRun
    <2>1. run' \in Runs
        BY <1>6 DEF EndRun, ClientTyped, Runs
    <2> QED BY <1>6, <2>1 DEF EndRun, keepLog, logVars, ClientTyped
<1>7. CASE NextGame
    <2>1. CASE Fail
        <3>1. run' \in Runs /\ count' \in [sessions : Nat, failures : Nat]
            BY <2>1, RunTyped
        <3> QED BY <1>7, <3>1 DEF NextGame, keepLog, logVars, ClientTyped
    <2>2. CASE ~Fail
        <3>1. /\ run' = [run EXCEPT !.phase = "driving", !.offset = Len(seen), !.game = @ + 1,
                                    !.polled = TRUE]
              /\ UNCHANGED count
            BY <1>7, <2>2 DEF NextGame
        <3>2. run \in Runs /\ Len(seen) \in Nat
            BY DEF ClientTyped
        <3> DEFINE begun == [run EXCEPT !.phase = "driving", !.offset = Len(seen)]
        <3>3. begun \in Runs
            BY <3>2 DEF Runs
        <3>4. run' = [begun EXCEPT !.game = run.game + 1, !.polled = TRUE]
            BY <3>1
        <3>5. run.game + 1 \in Nat
            BY <3>2 DEF Runs
        <3> HIDE DEF begun
        <3>6. \A n \in Nat : [begun EXCEPT !.game = n, !.polled = TRUE] \in Runs
            BY <3>3 DEF Runs
        <3>7. run' \in Runs
            BY <3>4, <3>5, <3>6
        <3> QED BY <1>7, <3>1, <3>7 DEF NextGame, keepLog, logVars, ClientTyped
    <2> QED BY <2>1, <2>2
<1>8. ASSUME NEW kind \in {"setup", "act"}, TakeInput(kind) PROVE ClientTyped'
    <2>1. CASE Serves(kind)
        BY <1>8, <2>1, JournalTyped DEF TakeInput, Kinds
    <2>2. CASE ~Serves(kind)
        <3>1. ErrorUpdate("rejected") \in Updates
            BY UpdatesAreTyped
        <3> QED BY <1>8, <2>2, <3>1, RunTyped DEF TakeInput, keepLog, logVars, ClientTyped
    <2> QED BY <2>1, <2>2
<1> QED BY <1>1, <1>2, <1>3, <1>4, <1>5, <1>6, <1>7, <1>8 DEF DriverSteps

LEMMA LegalOffset == ASSUME Legal(seen) PROVE CurrentOffset(seen) \in Nat
<1>1. CASE seen = <<>>
    BY <1>1 DEF CurrentOffset
<1>2. CASE seen # <<>>
    <2>1. Len(seen) > 0 /\ Len(seen) \in Nat
        BY <1>2 DEF Legal
    <2> QED BY <2>1, TheCurrentGame
<1> QED BY <1>1, <1>2

LEMMA ReplyTyped ==
    ASSUME ClientTyped, NEW op \in Ops, NEW ok \in BOOLEAN, NEW session \in Nat,
           Reply(op, ok, session)
    PROVE  call' \in Calls /\ replies' \subseteq [op : Ops, ok : BOOLEAN, session : Nat]
    BY DEF Reply, ClientTyped, Calls, NoCall, Ops

LEMMA StartTyped ==
    ASSUME ClientTyped, Legal(seen), StartRun, UNCHANGED key
    PROVE  ClientTyped'
<1>1. /\ run \in Runs /\ call.op \in Ops /\ seen \in Seq(Kinds)
      /\ count \in [sessions : Nat, failures : Nat] /\ count.sessions + 1 \in Nat
      /\ client \in [session : BOOLEAN, pending : BOOLEAN, closed : BOOLEAN]
    BY DEF ClientTyped, Calls
<1>2. run' \in Runs /\ run'.id \in Nat
    <2>1. \A n, o \in Nat : [NoRun EXCEPT !.phase = "driving", !.id = n, !.game = 1, !.offset = o,
                                          !.owns = TRUE] \in Runs
        BY DEF NoRun, Runs
    <2> QED BY <1>1, <2>1, LegalOffset DEF StartRun, Runs
<1>3. call' \in Calls /\ replies' \subseteq [op : Ops, ok : BOOLEAN, session : Nat]
    BY <1>1, <1>2, ReplyTyped DEF StartRun
<1>4. client' \in [session : BOOLEAN, pending : BOOLEAN, closed : BOOLEAN]
    BY <1>1 DEF StartRun
<1>5. count' \in [sessions : Nat, failures : Nat]
    BY <1>1 DEF StartRun
<1>6. seen' \in Seq(Kinds) /\ kept' \in Seq(Kinds) /\ stake' \in {"none", "sent", "settled"}
    BY DEF StartRun, ClientTyped
<1> QED BY <1>2, <1>3, <1>4, <1>5, <1>6 DEF ClientTyped

LEMMA RefuseTyped ==
    ASSUME ClientTyped, Refuse, UNCHANGED count \/ Failed, UNCHANGED key
    PROVE  ClientTyped'
<1>1. call.op \in Ops
    BY DEF ClientTyped, Calls
<1>2. call' \in Calls /\ replies' \subseteq [op : Ops, ok : BOOLEAN, session : Nat]
    BY <1>1, ReplyTyped DEF Refuse
<1>3. count' \in [sessions : Nat, failures : Nat]
    BY DEF Failed, ClientTyped
<1> QED BY <1>2, <1>3 DEF Refuse, keepLog, logVars, ClientTyped

LEMMA CallsTyped ==
    ASSUME ClientTyped, Legal(seen), CallSteps
    PROVE  ClientTyped'
<1>1. CASE OpenSession
    BY <1>1, StartTyped, RefuseTyped DEF OpenSession
<1>2. CASE BeginClear
    <2>1. CASE client.closed
        BY <1>2, <2>1, RefuseTyped DEF BeginClear
    <2>2. CASE ~client.closed
        <3>1. run' \in Runs /\ run.owns \in BOOLEAN
            BY <1>2, <2>2 DEF BeginClear, ClientTyped, Runs
        <3>2. call' \in Calls
            BY <1>2, <2>2 DEF BeginClear, ClientTyped, Calls
        <3>3. client' \in [session : BOOLEAN, pending : BOOLEAN, closed : BOOLEAN]
            BY <1>2, <2>2, <3>1 DEF BeginClear, ClientTyped
        <3> QED BY <1>2, <2>2, <3>1, <3>2, <3>3 DEF BeginClear, keepLog, logVars, ClientTyped
    <2> QED BY <2>1, <2>2
<1>3. CASE JoinRun
    <2>1. NoRun \in Runs
        BY DEF NoRun, Runs
    <2>2. call' \in Calls
        BY <1>3 DEF JoinRun, ClientTyped, Calls
    <2>3. client' \in [session : BOOLEAN, pending : BOOLEAN, closed : BOOLEAN]
        BY <1>3 DEF JoinRun, ClientTyped
    <2> QED BY <1>3, <2>1, <2>2, <2>3 DEF JoinRun, keepLog, logVars, ClientTyped
<1>4. CASE CheckUnfunded
    <2>1. CASE call' = [call EXCEPT !.step = "erase"]
               /\ UNCHANGED <<run, client, stake, replies, count>> /\ keepLog
        <3>1. call' \in Calls
            BY <2>1 DEF ClientTyped, Calls
        <3> QED BY <1>4, <2>1, <3>1 DEF CheckUnfunded, keepLog, logVars, ClientTyped
    <2>2. CASE Refuse /\ (UNCHANGED count \/ Failed)
        BY <1>4, <2>2, RefuseTyped DEF CheckUnfunded
    <2> QED BY <1>4, <2>1, <2>2 DEF CheckUnfunded
<1>5. CASE EraseLog
    <2>1. kept' \in Seq(Kinds) /\ seen' \in Seq(Kinds)
        <3>1. seen \in Seq(Kinds) /\ \A n \in 0..Len(seen) : SubSeq(seen, 1, n) \in Seq(Kinds)
            BY DEF ClientTyped
        <3>2. kept' = <<>> /\ (seen' = <<>> \/ \E n \in 0..Len(seen) : seen' = SubSeq(seen, 1, n))
            BY <1>5 DEF EraseLog
        <3>3. <<>> \in Seq(Kinds)
            OBVIOUS
        <3>4. ASSUME NEW n \in 0..Len(seen), seen' = SubSeq(seen, 1, n) PROVE seen' \in Seq(Kinds)
            BY <3>1, <3>4
        <3> QED BY <3>2, <3>3, <3>4
    <2>2. call.op \in Ops /\ 0 \in Nat
        BY DEF ClientTyped, Calls
    <2>3. call' \in Calls /\ replies' \subseteq [op : Ops, ok : BOOLEAN, session : Nat]
        <3>1. CASE call' = [call EXCEPT !.step = "reopen"] /\ UNCHANGED replies
            BY <3>1 DEF ClientTyped, Calls
        <3>2. CASE Reply(call.op, FALSE, 0)
            BY <2>2, <3>2, ReplyTyped
        <3> QED BY <1>5, <3>1, <3>2 DEF EraseLog
    <2>4. count' \in [sessions : Nat, failures : Nat]
        <3>1. UNCHANGED count \/ Failed
            BY <1>5 DEF EraseLog
        <3> QED BY <3>1 DEF Failed, ClientTyped
    <2>5. stake' \in {"none", "sent", "settled"}
        BY <1>5 DEF EraseLog, ClientTyped
    <2> QED BY <1>5, <2>1, <2>3, <2>4, <2>5 DEF EraseLog, ClientTyped
<1>6. CASE Reopen
    <2>1. CASE StartRun
        BY <1>6, <2>1, StartTyped DEF Reopen
    <2>2. CASE Refuse /\ (UNCHANGED count \/ Failed)
        BY <1>6, <2>2, RefuseTyped DEF Reopen
    <2>3. CASE Reply(call.op, TRUE, 0) /\ UNCHANGED <<run, client, stake, count>> /\ keepLog
        <3>1. call.op \in Ops /\ 0 \in Nat
            BY DEF ClientTyped, Calls
        <3>2. call' \in Calls /\ replies' \subseteq [op : Ops, ok : BOOLEAN, session : Nat]
            BY <2>3, <3>1, ReplyTyped
        <3> QED BY <1>6, <2>3, <3>2 DEF Reopen, keepLog, logVars, ClientTyped
    <2> QED BY <1>6, <2>1, <2>2, <2>3 DEF Reopen
<1> QED BY <1>1, <1>2, <1>3, <1>4, <1>5, <1>6 DEF CallSteps

LEMMA ProcessTyped ==
    ASSUME ClientTyped, CloseClient \/ Stop \/ Exit
    PROVE  ClientTyped'
<1>1. CASE CloseClient
    <2>1. run' \in Runs
        BY <1>1 DEF CloseClient, ClientTyped, Runs
    <2>2. client' \in [session : BOOLEAN, pending : BOOLEAN, closed : BOOLEAN]
        BY <1>1 DEF CloseClient, ClientTyped
    <2> QED BY <1>1, <2>1, <2>2 DEF CloseClient, keepLog, logVars, ClientTyped
<1>2. CASE Stop \/ Exit
    <2>1. NoRun \in Runs /\ NoCall \in Calls
          /\ NewClient \in [session : BOOLEAN, pending : BOOLEAN, closed : BOOLEAN]
        BY DEF NoRun, Runs, NoCall, Calls, Ops, NewClient
    <2>2. count' \in [sessions : Nat, failures : Nat]
        BY <1>2 DEF Stop, Exit, ClientTyped
    <2>3. seen' \in Seq(Kinds) /\ kept' = kept
        <3>1. \A n \in 0..Len(seen) : SubSeq(seen, 1, n) \in Seq(Kinds)
            BY DEF ClientTyped
        <3>2. seen' = seen \/ \E n \in Len(kept)..Len(seen) : seen' = SubSeq(seen, 1, n)
            BY <1>2 DEF Stop, Exit, keepLog, logVars
        <3>3. Len(kept) \in Nat /\ Len(seen) \in Nat /\ seen \in Seq(Kinds)
            BY DEF ClientTyped
        <3>4. ASSUME NEW n \in Len(kept)..Len(seen), seen' = SubSeq(seen, 1, n)
              PROVE  seen' \in Seq(Kinds)
            <4>1. n \in 0..Len(seen)
                BY <3>3
            <4> QED BY <3>1, <3>4, <4>1
        <3>5. kept' = kept
            BY <1>2 DEF Stop, Exit, keepLog, logVars
        <3> QED BY <3>2, <3>3, <3>4, <3>5
    <2> QED BY <1>2, <2>1, <2>2, <2>3 DEF Stop, Exit, FreshProcess, ClientTyped
<1> QED BY <1>1, <1>2

(***************************************************************************)
(* The interface.                                                          *)
(***************************************************************************)
LEMMA UserTyped ==
    ASSUME Typed, UserStep
    PROVE  Typed'
<1>1. CASE ImportKey
    <2>1. call' \in Calls
        BY <1>1 DEF ImportKey, Calls, Ops
    <2>2. ui' \in Models
        BY <1>1 DEF ImportKey, Typed, InterfaceTyped, Models
    <2> QED BY <1>1, <2>1, <2>2
            DEF ImportKey, keepLog, logVars, Typed, ClientTyped, InterfaceTyped
<1>2. ASSUME NEW op \in {"abort", "clear"}, RemoveSavedGame(op) PROVE Typed'
    <2>1. call' \in Calls
        BY <1>2 DEF RemoveSavedGame, Calls, Ops
    <2>2. ui' \in Models
        <3>1. NoSnapshot \in Snapshots
            BY DEF NoSnapshot, Snapshots
        <3>2. ui \in Models /\ ui.shows \in Snapshots /\ ui.generation + 1 \in Nat
            BY DEF Typed, InterfaceTyped, Models
        <3> DEFINE cleared == [ui EXCEPT !.clearing = TRUE, !.session = 0, !.busy = FALSE,
                                         !.stopped = FALSE]
        <3>3. cleared \in Models
            BY <3>2 DEF Models
        <3>4. \A n \in Nat, s \in Snapshots :
                  [cleared EXCEPT !.generation = n, !.shows = s] \in Models
            <4> HIDE DEF cleared
            <4> QED BY <3>3 DEF Models
        <3>5. ui' = [cleared EXCEPT !.generation = ui.generation + 1,
                                    !.shows = IF op = "abort" THEN ui.shows ELSE NoSnapshot]
            BY <1>2, <3>2 DEF RemoveSavedGame, Models
        <3> HIDE DEF cleared
        <3> QED BY <3>1, <3>2, <3>4, <3>5
    <2> QED BY <1>2, <2>1, <2>2
            DEF RemoveSavedGame, keepLog, logVars, Typed, ClientTyped, InterfaceTyped
<1>3. CASE Quit
    <2>1. ClientTyped'
        BY <1>3, ProcessTyped DEF Quit, Typed
    <2>2. ui' \in Models
        BY <1>3 DEF Quit, NewModel, NoSnapshot, Models, Snapshots
    <2> QED BY <1>3, <2>1, <2>2 DEF Quit, Typed, InterfaceTyped
<1>4. ASSUME NEW kind \in {"setup", "act", "new"}, Submit(kind) PROVE Typed'
    <2>1. ui' \in Models /\ ui.session \in Nat /\ ui.generation \in Nat /\ ui.shows \in Snapshots
        BY <1>4 DEF Submit, Typed, InterfaceTyped, Models
    <2>2. commands' \in Seq(Submissions)
        <3>1. [kind |-> kind, session |-> ui.session, generation |-> ui.generation,
               shows |-> ui.shows] \in Submissions
            BY <2>1 DEF Submissions
        <3> QED BY <1>4, <3>1 DEF Submit, Typed, InterfaceTyped
    <2> QED BY <1>4, <2>1, <2>2
            DEF Submit, keepClient, logVars, runVars, Typed, ClientTyped, InterfaceTyped
<1> QED BY <1>1, <1>2, <1>3, <1>4 DEF UserStep

LEMMA UpdatedTyped ==
    ASSUME Typed, NEW update \in Updates
    PROVE  Updated(update) \in Models
<1>1. ui \in Models
    BY DEF Typed, InterfaceTyped
<1>2. Shown(update) \in Snapshots
    BY DEF Shown, Updates, Snapshots
<1>3. \A b, c \in BOOLEAN, s \in Snapshots :
          [ui EXCEPT !.busy = b, !.shows = s, !.stopped = c] \in Models
    BY <1>1 DEF Models
<1>4. (ui.busy /\ update.error = "none" /\ WithoutChoice(ui.shows) = WithoutChoice(Shown(update)))
          \in BOOLEAN
      /\ (ui.stopped \/ update.error = "stopped") \in BOOLEAN
    BY <1>1 DEF Models
<1> QED BY <1>2, <1>3, <1>4 DEF Updated

LEMMA Removal ==
    ASSUME NEW S, NEW s \in Seq(S), NEW i \in 1..Len(s)
    PROVE  s[i] \in S /\ RemoveAt(s, i) \in Seq(S)
<1>1. SubSeq(s, 1, i - 1) \in Seq(S) /\ SubSeq(s, i + 1, Len(s)) \in Seq(S)
    OBVIOUS
<1> QED BY <1>1 DEF RemoveAt

LEMMA CommandsTyped ==
    ASSUME Typed, NEW i \in 1..Len(commands), commands' = RemoveAt(commands, i)
    PROVE  /\ commands[i].kind \in {"new", "setup", "act"} /\ commands[i].generation \in Nat
           /\ commands' \in Seq(Submissions)
<1>1. commands[i] \in Submissions /\ commands' \in Seq(Submissions)
    BY Removal DEF Typed, InterfaceTyped
<1> QED BY <1>1 DEF Submissions

LEMMA InterfaceStepTyped ==
    ASSUME Typed, InterfaceStep
    PROVE  Typed'
<1>1. CASE HandleReply
    <2>1. PICK reply \in replies : (Connected(reply) \/ Cleared(reply)) /\ replies' = replies \ {reply}
        BY <1>1 DEF HandleReply
    <2>2. reply \in [op : Ops, ok : BOOLEAN, session : Nat] /\ reply.session \in Nat
        BY <2>1 DEF Typed, ClientTyped
    <2>3. ui \in Models /\ ui.generation \in Nat /\ readers \subseteq [session : Nat, generation : Nat]
        BY DEF Typed, InterfaceTyped, Models
    <2>4. Reader(reply.session, ui.generation) \in [session : Nat, generation : Nat]
        BY <2>2, <2>3 DEF Reader
    <2>5. key' \in {"none", "live", "destroyed"} /\ readers' \subseteq [session : Nat, generation : Nat]
        BY <2>1, <2>3, <2>4 DEF Connected, Cleared, Typed, ClientTyped
    <2>6. ui' \in Models
        <3>1. CASE Connected(reply)
            BY <2>2, <2>3, <3>1 DEF Connected, Models
        <3>2. CASE Cleared(reply)
            <4>1. NoSnapshot \in Snapshots
                BY DEF NoSnapshot, Snapshots
            <4>2. CASE reply.ok /\ reply.session # 0
                <5>1. ui' = [ui EXCEPT !.clearing = FALSE, !.shows = NoSnapshot,
                                       !.session = reply.session]
                    BY <3>2, <4>2 DEF Cleared
                <5> QED BY <2>2, <2>3, <4>1, <5>1 DEF Models
            <4>3. CASE reply.ok /\ reply.session = 0
                BY <2>3, <3>2, <4>1, <4>3 DEF Cleared, Models
            <4>4. CASE ~reply.ok
                BY <2>3, <3>2, <4>4 DEF Cleared, Models
            <4> QED BY <4>2, <4>3, <4>4
        <3> QED BY <2>1, <3>1, <3>2
    <2> QED BY <1>1, <2>1, <2>5, <2>6
            DEF HandleReply, keepLog, logVars, Typed, ClientTyped, InterfaceTyped
<1>2. ASSUME NEW reader \in readers, Read(reader) PROVE Typed'
    <2>1. reader.generation \in Nat /\ run \in Runs
        BY DEF Typed, ClientTyped, InterfaceTyped
    <2>2. run' \in Runs
        BY <1>2, <2>1 DEF Read, Runs
    <2>3. inbox' \subseteq Messages
        <3>1. \A u \in run.news :
                  [kind |-> "update", generation |-> reader.generation, update |-> u] \in Messages
            BY <2>1 DEF Messages, Runs
        <3>2. [kind |-> "closed", generation |-> reader.generation] \in Messages
            BY <2>1 DEF Messages
        <3> QED BY <1>2, <3>1, <3>2 DEF Read, Typed, InterfaceTyped
    <2> QED BY <1>2, <2>2, <2>3
            DEF Read, keepLog, logVars, Typed, ClientTyped, InterfaceTyped
<1>3. ASSUME NEW message \in inbox, HandleMessage(message) PROVE Typed'
    <2>1. message \in Messages /\ ui \in Models
        BY DEF Typed, InterfaceTyped
    <2>2. ui' \in Models
        <3>1. CASE ui' = ui
            BY <2>1, <3>1
        <3>2. CASE message.kind = "update" /\ ui' = Updated(message.update)
            <4>1. message.update \in Updates
                BY <2>1, <3>2 DEF Messages
            <4> QED BY <3>2, <4>1, UpdatedTyped
        <3>3. CASE ui' = [ui EXCEPT !.stopped = TRUE]
            BY <2>1, <3>3 DEF Models
        <3> QED BY <1>3, <3>1, <3>2, <3>3 DEF HandleMessage
    <2>3. Reader(ui.session, ui.generation) \in [session : Nat, generation : Nat]
        BY <2>1 DEF Reader, Models
    <2>4. readers' \subseteq [session : Nat, generation : Nat]
        BY <1>3, <2>3 DEF HandleMessage, Typed, InterfaceTyped
    <2> QED BY <1>3, <2>2, <2>4
            DEF HandleMessage, keepClient, logVars, runVars, Typed, ClientTyped, InterfaceTyped
<1>4. ASSUME NEW i \in 1..Len(commands), Take(i) PROVE Typed'
    <2>1. commands' = RemoveAt(commands, i)
        BY <1>4 DEF Take
    <2>2. commands[i].kind = "new" \/ commands[i].kind \in {"setup", "act"}
        BY <2>1, CommandsTyped
    <2>3. ClientTyped'
        BY <1>4, <2>2, DriverTyped DEF Take, Typed
    <2> QED BY <1>4, <2>1, <2>3, CommandsTyped DEF Take, Typed, InterfaceTyped
<1>5. ASSUME NEW i \in 1..Len(commands), GiveUp(i) PROVE Typed'
    <2>1. commands' = RemoveAt(commands, i)
        BY <1>5 DEF GiveUp
    <2>2. [kind |-> "refused", generation |-> commands[i].generation] \in Messages
        BY <2>1, CommandsTyped DEF Messages
    <2>3. commands' \in Seq(Submissions)
        BY <2>1, CommandsTyped
    <2> QED BY <1>5, <2>2, <2>3
            DEF GiveUp, keepClient, logVars, runVars, Typed, ClientTyped, InterfaceTyped
<1> QED BY <1>1, <1>2, <1>3, <1>4, <1>5 DEF InterfaceStep

LEMMA InitTyped == Init => Typed
<1> SUFFICES ASSUME Init PROVE Typed
    OBVIOUS
<1>1. run \in Runs /\ call \in Calls
    BY DEF Init, ClientInit, NoRun, Runs, NoCall, Calls, Ops
<1>2. ui \in Models
    BY DEF Init, NewModel, NoSnapshot, Models, Snapshots
<1> QED BY <1>1, <1>2 DEF Init, ClientInit, NewClient, Typed, ClientTyped, InterfaceTyped

LEMMA NextTyped ==
    ASSUME Typed, Legal(seen), [Next]_vars
    PROVE  Typed'
<1>1. CASE (DriverSteps \/ Poll(InputWaits) \/ EndRun \/ CallSteps \/ Settle) /\ UNCHANGED uiVars
    <2>1. ClientTyped'
        BY <1>1, DriverTyped, CallsTyped DEF Typed
    <2> QED BY <1>1, <2>1 DEF uiVars, Typed, InterfaceTyped
<1>2. CASE UserStep
    BY <1>2, UserTyped
<1>3. CASE InterfaceStep
    BY <1>3, InterfaceStepTyped
<1>4. CASE Restart
    <2>1. ClientTyped'
        BY <1>4, ProcessTyped DEF Restart, Typed
    <2>2. ui' \in Models
        BY <1>4 DEF Restart, FreshModel, NewModel, NoSnapshot, Models, Snapshots
    <2> QED BY <1>4, <2>1, <2>2 DEF Restart, FreshModel, Typed, InterfaceTyped
<1>5. CASE UNCHANGED vars
    BY <1>5 DEF vars, logVars, runVars, uiVars, Typed, ClientTyped, InterfaceTyped
<1> QED BY <1>1, <1>2, <1>3, <1>4, <1>5 DEF Next

(***************************************************************************)
(* The invariant behind MoneyIsAccountedFor.  Money is away only between a *)
(* durable spend and a result, what follows the durable records is one     *)
(* record of which a failed append does not know, and a log is erased for  *)
(* an abort only while no money is away.                                   *)
(***************************************************************************)
LogInv ==
    /\ Legal(seen)
    /\ Len(kept) <= Len(seen) /\ kept = SubSeq(seen, 1, Len(kept))

StakeInv ==
    /\ stake # "none" =>
          /\ Len(seen) <= Len(kept) + 1
          /\ EndsIn(kept, {"Spend", "Deposit"})
          /\ EndsIn(seen, {"Spend", "Deposit", "Result"})
    /\ stake = "sent" => ~EndsIn(seen, {"Result"})

RunInv ==
    /\ run.phase \in {"driving", "terminal"} =>
          /\ kept = seen
          /\ stake # "none" => EndsIn(seen, {"Spend", "Deposit"})
    /\ run.phase = "driving" =>
          /\ run.offset \in {CurrentOffset(seen), Len(seen)}
          /\ run.offset = Len(seen) =>
                stake = "none" /\ (seen = <<>> \/ EndsIn(seen, {"SetupAborted", "Result"}))
    /\ run.phase = "terminal" => stake = "none" /\ EndsIn(seen, {"SetupAborted", "Result"})

CallInv ==
    /\ call.step \in {"join", "check", "erase", "reopen"} => call.op \in {"clear", "abort"}
    /\ call.step \in {"check", "erase", "reopen"} => run.phase = "none"
    /\ call.op = "abort" /\ call.step = "erase" => stake = "none"

MInv == LogInv /\ StakeInv /\ RunInv /\ CallInv
LEMMA OneLastStart ==
    ASSUME NEW s, NEW n, NEW l, NEW m, n \in Nat, StartsLast(l, s, n), StartsLast(m, s, n)
    PROVE  l = m
<1>1. l \in 1..n /\ m \in 1..n /\ l <= m /\ m <= l
    BY DEF StartsLast
<1> QED BY <1>1

LEMMA OffsetAfter ==
    ASSUME NEW s, Legal(s), NEW k, MayFollow(s, k)
    PROVE  CurrentOffset(Append(s, k)) = IF k = "Configured" THEN Len(s) ELSE CurrentOffset(s)
<1> DEFINE t == Append(s, k)
<1>1. s \in Seq(Kinds) /\ k \in Kinds /\ Legal(t)
    BY AppendIsLegal DEF Legal, MayFollow, Successions, Kinds
<1>2. /\ Len(t) = Len(s) + 1 /\ t[Len(s) + 1] = k /\ Len(s) \in Nat
      /\ \A i \in 1..Len(s) : t[i] = s[i]
    BY <1>1
<1> HIDE DEF t
<1>3. StartsLast(LastStart(t), t, Len(t)) /\ CurrentOffset(t) = LastStart(t) - 1
    BY <1>1, <1>2, TheCurrentGame
<1>4. CASE k = "Configured"
    <2>1. StartsLast(Len(t), t, Len(t))
        BY <1>2, <1>4 DEF StartsLast
    <2>2. LastStart(t) = Len(t)
        BY <1>2, <1>3, <2>1, OneLastStart
    <2> QED BY <1>2, <1>3, <1>4, <2>2 DEF t
<1>5. CASE k # "Configured"
    <2>1. Len(s) > 0
        BY <1>2, <1>5 DEF MayFollow
    <2>2. StartsLast(LastStart(s), s, Len(s)) /\ CurrentOffset(s) = LastStart(s) - 1
        BY <2>1, TheCurrentGame
    <2>3. StartsLast(LastStart(s), t, Len(t))
        BY <1>2, <1>5, <2>2 DEF StartsLast
    <2>4. LastStart(t) = LastStart(s)
        BY <1>2, <1>3, <2>3, OneLastStart
    <2> QED BY <1>3, <1>5, <2>2, <2>4 DEF t
<1> QED BY <1>4, <1>5

\* A driver plays the current game of its log, or one that has yet to start.
LEMMA DrivenGame ==
    ASSUME ClientTyped, MInv, run.phase = "driving"
    PROVE  \/ /\ Game = <<>> /\ stake = "none" /\ run.offset = Len(seen)
              /\ Len(seen) = 0 \/ EndsIn(seen, {"SetupAborted", "Result"})
           \/ /\ Game # <<>> /\ Len(seen) > 0 /\ Last(Game) = seen[Len(seen)]
              /\ run.offset = CurrentOffset(seen) /\ run.offset < Len(seen)
<1>1. Legal(seen) /\ Len(seen) \in Nat /\ seen \in Seq(Kinds)
    BY DEF MInv, LogInv, ClientTyped
<1>2. CASE run.offset = Len(seen)
    <2>1. Game = <<>>
        <3>1. SubSeq(seen, Len(seen) + 1, Len(seen)) = <<>>
            BY <1>1, SubSeqEmpty
        <3> QED BY <1>2, <3>1 DEF Game
    <2> QED BY <1>2, <2>1 DEF MInv, RunInv
<1>3. CASE run.offset # Len(seen)
    <2>1. run.offset = CurrentOffset(seen)
        BY <1>3 DEF MInv, RunInv
    <2>2. Len(seen) > 0
        BY <1>1, <1>3, <2>1 DEF CurrentOffset
    <2>3. run.offset \in 0..(Len(seen) - 1)
        BY <1>1, <2>1, <2>2, TheCurrentGame
    <2> QED BY <1>1, <2>1, <2>2, <2>3, GameOfLog DEF Game
<1> QED BY <1>2, <1>3

LEMMA JournalKeeps ==
    ASSUME ClientTyped, MInv, run.phase = "driving", NEW kind, MayFollow(seen, kind),
           kind = "Configured" => Game = <<>>,
           stake # "none" => kind \in {"Spend", "Deposit"} \/ (kind = "Result" /\ stake = "settled"),
           Journal(kind), UNCHANGED call
    PROVE  MInv'
<1> DEFINE t == Append(seen, kind)
<1>1. /\ Legal(seen) /\ seen \in Seq(Kinds) /\ Len(seen) \in Nat /\ kept = seen
      /\ stake \in {"none", "sent", "settled"} /\ run \in Runs
      /\ stake # "none" => EndsIn(seen, {"Spend", "Deposit"})
    BY DEF MInv, LogInv, RunInv, ClientTyped
<1>2. Legal(t) /\ kind \in Kinds
    BY <1>1, AppendIsLegal DEF MayFollow, Successions, Kinds
<1>3. /\ t \in Seq(Kinds) /\ Len(t) = Len(seen) + 1 /\ t[Len(t)] = kind
      /\ SubSeq(t, 1, Len(seen)) = seen /\ SubSeq(t, 1, Len(t)) = t /\ SubSeq(seen, 1, Len(seen)) = seen
    BY <1>1, <1>2
<1>4. CASE /\ kept' = t /\ seen' = kept' /\ Tell(Snapshot(Append(Game, kind), FALSE))
           /\ stake' = IF kind = "Result" THEN "none" ELSE stake
    <2>1. run'.phase = "driving" /\ run'.offset = run.offset
        BY <1>1, <1>4 DEF Tell, Runs
    <2>2. CurrentOffset(t) = IF kind = "Configured" THEN Len(seen) ELSE CurrentOffset(seen)
        BY <1>1, OffsetAfter
    <2>3. run.offset = CurrentOffset(t) /\ run.offset <= Len(seen) /\ run.offset \in Nat
        <3>1. run.offset \in Nat
            BY <1>1 DEF Runs
        <3>2. CASE Game = <<>>
            <4>1. kind = "Configured" /\ run.offset = Len(seen)
                BY <3>2, DrivenGame DEF MayFollow, EndsIn, Successions
            <4> QED BY <1>1, <2>2, <3>1, <4>1
        <3>3. CASE Game # <<>>
            <4>1. /\ Len(seen) > 0 /\ run.offset = CurrentOffset(seen) /\ run.offset < Len(seen)
                BY <3>3, DrivenGame
            <4> QED BY <1>1, <2>2, <3>1, <3>3, <4>1
        <3> QED BY <3>2, <3>3
    <2> HIDE DEF t
    <2>4. LogInv'
        BY <1>2, <1>3, <1>4 DEF LogInv
    <2>5. StakeInv'
        BY <1>1, <1>3, <1>4 DEF StakeInv, EndsIn
    <2>6. RunInv'
        BY <1>1, <1>3, <1>4, <2>1, <2>3 DEF RunInv, EndsIn
    <2>7. CallInv'
        BY <1>4 DEF MInv, CallInv
    <2> QED BY <2>4, <2>5, <2>6, <2>7 DEF MInv
<1>5. CASE Fail /\ seen' \in {seen, t} /\ UNCHANGED <<kept, wiping, stake>>
    <2>1. run'.phase = "failed"
        BY <1>1, <1>5 DEF Fail, Runs
    <2> HIDE DEF t
    <2>2. LogInv'
        BY <1>1, <1>2, <1>3, <1>5 DEF LogInv
    <2>3. StakeInv'
        BY <1>1, <1>3, <1>5 DEF StakeInv, EndsIn
    <2>4. RunInv'
        BY <2>1 DEF RunInv
    <2>5. CallInv'
        BY <1>5 DEF MInv, CallInv
    <2> QED BY <2>2, <2>3, <2>4, <2>5 DEF MInv
<1> QED BY <1>4, <1>5 DEF Journal
\* What a driver's step journals, and what an input makes it journal, may follow.
LEMMA FollowingRecord ==
    ASSUME ClientTyped, MInv, run.phase = "driving", NEW kind \in Follows(Game)
    PROVE  /\ MayFollow(seen, kind)
           /\ kind = "Configured" => Game = <<>>
           /\ stake # "none" => \/ kind \in {"Spend", "Deposit"}
                                \/ kind = "Result" /\ stake = "settled"
<1>1. /\ stake # "none" => EndsIn(seen, {"Spend", "Deposit"})
      /\ Len(seen) \in Nat
    BY DEF MInv, RunInv, ClientTyped
<1>2. CASE Game = <<>>
    <2>1. kind = "Configured" /\ stake = "none"
        BY <1>2, DrivenGame DEF Follows
    <2> QED BY <1>1, <1>2, <2>1, DrivenGame DEF MayFollow, EndsIn, Successions
<1>3. CASE Game # <<>>
    <2>1. Len(seen) > 0 /\ Last(Game) = seen[Len(seen)]
        BY <1>3, DrivenGame
    <2>2. \/ Last(Game) = "Setup" /\ kind \in {"SetupAborted", "Spend"}
          \/ Last(Game) = "Spend" /\ kind = "Deposit"
          \/ kind = "Result" /\ stake = "settled"
        BY <1>3 DEF Follows, Ends
    <2> QED BY <1>1, <1>3, <2>1, <2>2 DEF MayFollow, EndsIn, Successions
<1> QED BY <1>2, <1>3

LEMMA ServedRecord ==
    ASSUME ClientTyped, MInv, run.phase = "driving", NEW request, Serves(request)
    PROVE  LET kind == IF request = "setup" THEN "Setup" ELSE "Spend" IN
           /\ MayFollow(seen, kind)
           /\ stake # "none" => kind = "Spend"
<1>1. stake # "none" => EndsIn(seen, {"Spend", "Deposit"})
    BY DEF MInv, RunInv
<1>2. \/ request = "setup" /\ Game = <<"Configured">>
      \/ request = "act" /\ Game # <<>> /\ Last(Game) = "Deposit"
    BY DEF Serves, Ends
<1>3. Game # <<>> /\ Last(Game) = IF request = "setup" THEN "Configured" ELSE "Deposit"
    BY <1>2 DEF Last
<1>4. Len(seen) > 0 /\ Last(Game) = seen[Len(seen)]
    BY <1>3, DrivenGame
<1> QED BY <1>1, <1>2, <1>3, <1>4 DEF MayFollow, EndsIn, Successions
\* A step that leaves the log and the money alone.
LEMMA Still ==
    ASSUME MInv, UNCHANGED <<kept, seen, stake>>,
           run'.phase = run.phase \/ run'.phase \in {"none", "failed", "ended"},
           run'.phase = "driving" => run'.offset = run.offset,
           CallInv'
    PROVE  MInv'
    BY DEF MInv, LogInv, StakeInv, RunInv

LEMMA StillRunning ==
    ASSUME MInv, UNCHANGED <<kept, seen, stake>>, call' = call,
           \/ run'.phase = run.phase /\ run'.offset = run.offset
           \/ run'.phase \in {"failed", "ended"} /\ run.phase # "none"
    PROVE  MInv'
<1>1. CallInv'
    BY DEF MInv, CallInv
<1> QED BY <1>1, Still

LEMMA DriverStepsKeep ==
    ASSUME ClientTyped, MInv, DriverSteps \/ Poll(InputWaits) \/ EndRun \/ Settle \/ NextGame
                              \/ \E request \in {"setup", "act"} : TakeInput(request)
    PROVE  MInv'
<1>1. run \in Runs /\ call \in Calls
    BY DEF ClientTyped
<1>2. CASE DriverStep
    <2>1. run.phase = "driving" /\ call' = call
        BY <1>2 DEF DriverStep, Working, Driving
    <2>2. PICK kind \in Follows(Game) : Journal(kind)
        BY <1>2 DEF DriverStep
    <2> QED BY <2>1, <2>2, FollowingRecord, JournalKeeps
<1>3. CASE Emit
    <2>1. run'.phase = run.phase /\ run'.offset = run.offset
        BY <1>1, <1>3 DEF Emit, Tell, Runs
    <2>2. UNCHANGED <<kept, seen, stake>> /\ call' = call
        BY <1>3 DEF Emit, keepLog, logVars
    <2> QED BY <2>1, <2>2, StillRunning
<1>4. CASE Send
    <2>1. stake = "none" /\ stake' = "sent" /\ UNCHANGED <<kept, seen, run, call>>
        BY <1>4 DEF Send, keepLog, logVars
    <2>2. run.phase = "driving" /\ Game # <<>> /\ Last(Game) = "Spend"
        BY <1>4 DEF Send, Ends
    <2>3. EndsIn(seen, {"Spend"}) /\ kept = seen
        BY <2>2, DrivenGame DEF MInv, RunInv, EndsIn
    <2>4. LogInv' /\ CallInv'
        BY <2>1, <2>2 DEF MInv, LogInv, CallInv
    <2>5. StakeInv'
        <3>1. Len(seen) \in Nat
            BY DEF ClientTyped
        <3> QED BY <2>1, <2>3, <3>1 DEF StakeInv, EndsIn
    <2>6. RunInv'
        <3>1. run.offset # Len(seen)
            BY <2>2, DrivenGame
        <3> QED BY <2>1, <2>2, <2>3, <3>1 DEF MInv, RunInv, EndsIn
    <2> QED BY <2>4, <2>5, <2>6 DEF MInv
<1>5. CASE Settle
    BY <1>5 DEF Settle, keepLog, logVars, MInv, LogInv, StakeInv, RunInv, CallInv
<1>6. CASE Return
    <2>1. CASE Fail
        <3>1. run'.phase = "failed"
            BY <1>1, <2>1 DEF Fail, Runs
        <3> QED BY <1>6, <3>1, StillRunning DEF Return, Working, Driving, keepLog, logVars
    <2>2. CASE ~Fail
        <3>1. /\ run' = [run EXCEPT !.phase = "terminal", !.news = {Snapshot(Game, FALSE)}]
              /\ Terminal(Game) /\ run.phase = "driving" /\ UNCHANGED <<kept, seen, stake, call>>
            BY <1>6, <2>2 DEF Return, Working, Driving, keepLog, logVars
        <3>2. run'.phase = "terminal"
            BY <1>1, <3>1 DEF Runs
        <3>3. EndsIn(seen, {"SetupAborted", "Result"})
            BY <3>1, DrivenGame DEF Terminal, Ends, EndsIn
        <3>4. stake = "none" /\ kept = seen
            BY <3>1, <3>3 DEF MInv, RunInv, EndsIn
        <3>5. RunInv'
            BY <3>1, <3>2, <3>3, <3>4 DEF RunInv
        <3>6. LogInv' /\ StakeInv' /\ CallInv'
            BY <3>1 DEF MInv, LogInv, StakeInv, CallInv
        <3> QED BY <3>5, <3>6 DEF MInv
    <2> QED BY <2>1, <2>2
<1>7. CASE Poll(InputWaits)
    <2>1. run'.phase = run.phase /\ run'.offset = run.offset
        BY <1>1, <1>7 DEF Poll, Runs
    <2>2. UNCHANGED <<kept, seen, stake>> /\ call' = call
        BY <1>7 DEF Poll, keepLog, logVars
    <2> QED BY <2>1, <2>2, StillRunning
<1>8. CASE EndRun
    <2>1. run'.phase = "ended" /\ run.phase # "none"
        BY <1>1, <1>8 DEF EndRun, Runs
    <2> QED BY <1>8, <2>1, StillRunning DEF EndRun, keepLog, logVars
<1>9. CASE NextGame
    <2>1. CASE Fail
        <3>1. run'.phase = "failed"
            BY <1>1, <2>1 DEF Fail, Runs
        <3> QED BY <1>9, <3>1, StillRunning DEF NextGame, keepLog, logVars
    <2>2. CASE ~Fail
        <3>1. /\ run' = [run EXCEPT !.phase = "driving", !.offset = Len(seen), !.game = @ + 1,
                                    !.polled = TRUE]
              /\ run.phase = "terminal" /\ UNCHANGED <<kept, seen, stake, call>>
            BY <1>9, <2>2 DEF NextGame, keepLog, logVars
        <3>2. run'.phase = "driving" /\ run'.offset = Len(seen)
            BY <1>1, <3>1 DEF Runs
        <3>3. RunInv'
            BY <3>1, <3>2 DEF MInv, RunInv
        <3>4. LogInv' /\ StakeInv' /\ CallInv'
            BY <3>1 DEF MInv, LogInv, StakeInv, CallInv
        <3> QED BY <3>3, <3>4 DEF MInv
    <2> QED BY <2>1, <2>2
<1>10. ASSUME NEW request \in {"setup", "act"}, TakeInput(request) PROVE MInv'
    <2>1. run.phase = "driving" /\ call' = call
        BY <1>10 DEF TakeInput, Driving
    <2>2. CASE Serves(request)
        <3>1. Journal(IF request = "setup" THEN "Setup" ELSE "Spend")
            BY <1>10, <2>2 DEF TakeInput
        <3> QED BY <2>1, <2>2, <3>1, ServedRecord, JournalKeeps
    <2>3. CASE ~Serves(request)
        <3>1. Tell(ErrorUpdate("rejected")) /\ UNCHANGED <<stake, kept, seen>>
            BY <1>10, <2>3 DEF TakeInput, keepLog, logVars
        <3>2. run'.phase = run.phase /\ run'.offset = run.offset
            BY <1>1, <3>1 DEF Tell, Runs
        <3> QED BY <2>1, <3>1, <3>2, StillRunning
    <2> QED BY <2>2, <2>3
<1> QED BY <1>2, <1>3, <1>4, <1>5, <1>6, <1>7, <1>8, <1>9, <1>10 DEF DriverSteps
LEMMA StartKeeps ==
    ASSUME ClientTyped, MInv, StartRun
    PROVE  MInv'
<1>1. /\ Legal(seen) /\ seen \in Seq(Kinds) /\ Len(seen) \in Nat
      /\ stake # "none" => EndsIn(seen, {"Spend", "Deposit", "Result"})
    BY DEF MInv, LogInv, StakeInv, ClientTyped
<1>2. /\ run'.phase = "driving" /\ run'.offset = CurrentOffset(seen)
      /\ kept' = seen /\ seen' = seen /\ call' = NoCall
      /\ stake' = IF Ends(CurrentGame, {"Result"}) THEN "none" ELSE stake
    BY DEF StartRun, Reply, NoRun
<1>3. CASE Len(seen) = 0
    <2>1. stake' = "none" /\ seen = <<>>
        BY <1>1, <1>2, <1>3 DEF EndsIn
    <2>2. SubSeq(seen, 1, Len(seen)) = seen
        BY <1>1
    <2> QED BY <1>1, <1>2, <1>3, <2>1, <2>2
            DEF MInv, LogInv, StakeInv, RunInv, CallInv, NoCall
<1>4. CASE Len(seen) > 0
    <2>1. CurrentOffset(seen) \in 0..(Len(seen) - 1)
        BY <1>1, <1>4, TheCurrentGame
    <2>2. CurrentGame # <<>> /\ Last(CurrentGame) = seen[Len(seen)]
        BY <1>1, <2>1, GameOfLog DEF CurrentGame
    <2>3. stake' # "none" => stake' = stake /\ EndsIn(seen, {"Spend", "Deposit"})
        BY <1>1, <1>2, <2>2 DEF Ends, EndsIn
    <2>4. LogInv'
        <3>1. SubSeq(seen, 1, Len(seen)) = seen
            BY <1>1
        <3> QED BY <1>1, <1>2, <3>1 DEF LogInv
    <2>5. StakeInv'
        BY <1>1, <1>2, <2>3 DEF MInv, StakeInv, EndsIn
    <2>6. RunInv' /\ CallInv'
        BY <1>1, <1>2, <2>1, <2>3 DEF RunInv, CallInv, NoCall
    <2> QED BY <2>4, <2>5, <2>6 DEF MInv
<1> QED BY <1>1, <1>3, <1>4

LEMMA RefuseKeeps ==
    ASSUME MInv, Refuse
    PROVE  MInv'
<1>1. UNCHANGED <<kept, seen, stake, run>> /\ call' = NoCall
    BY DEF Refuse, Reply, keepLog, logVars
<1>2. CallInv'
    BY <1>1 DEF CallInv, NoCall
<1> QED BY <1>1, <1>2, Still

\* An abort erases only what holds no money.
LEMMA UnfundedHasNoStake ==
    ASSUME ClientTyped, MInv, Unfunded(seen)
    PROVE  stake = "none"
<1>1. /\ Legal(seen) /\ Len(seen) \in Nat
      /\ stake # "none" => EndsIn(seen, {"Spend", "Deposit", "Result"})
    BY DEF MInv, LogInv, StakeInv, ClientTyped
<1>2. CASE Len(seen) > 0
    <2>1. LastStart(seen) \in 1..Len(seen)
        BY <1>1, <1>2, TheCurrentGame DEF StartsLast
    <2>2. Len(seen) \in LastStart(seen)..Len(seen) /\ seen # <<>>
        BY <1>1, <1>2, <2>1
    <2>3. seen[Len(seen)] \in SetupKinds
        BY <2>2 DEF Unfunded
    <2> QED BY <1>1, <2>3 DEF EndsIn, SetupKinds
<1> QED BY <1>1, <1>2 DEF EndsIn

LEMMA EraseKeeps ==
    ASSUME ClientTyped, MInv, EraseLog
    PROVE  MInv'
<1>1. run.phase = "none" /\ call.op \in {"clear", "abort"} /\ Legal(seen) /\ call \in Calls
    BY DEF EraseLog, MInv, CallInv, LogInv, ClientTyped
<1>2. stake' = "none" /\ kept' = <<>> /\ run' = run
    BY <1>1 DEF EraseLog, MInv, CallInv
<1>3. Legal(seen') /\ Len(seen') \in Nat
    <2>1. CASE seen' = <<>>
        BY <2>1 DEF Legal
    <2>2. ASSUME NEW n \in 0..Len(seen), seen' = SubSeq(seen, 1, n)
          PROVE  Legal(seen') /\ Len(seen') \in Nat
        <3>1. Legal(seen')
            BY <1>1, <2>2, PartIsLegal
        <3> QED BY <3>1 DEF Legal
    <2> QED BY <2>1, <2>2 DEF EraseLog
<1>4. LogInv'
    <2>1. SubSeq(seen', 1, 0) = <<>> /\ Len(kept') = 0
        BY <1>2, SubSeqEmpty
    <2> QED BY <1>2, <1>3, <2>1 DEF LogInv
<1>5. CallInv'
    <2>1. CASE call' = [call EXCEPT !.step = "reopen"]
        <3>1. call'.step = "reopen" /\ call'.op = call.op
            BY <1>1, <2>1 DEF Calls
        <3> QED BY <1>1, <1>2, <3>1 DEF CallInv
    <2>2. CASE call' = NoCall
        BY <2>2 DEF CallInv, NoCall
    <2> QED BY <2>1, <2>2 DEF EraseLog, Reply
<1> QED BY <1>1, <1>2, <1>4, <1>5 DEF MInv, StakeInv, RunInv

LEMMA CallStepsKeep ==
    ASSUME ClientTyped, MInv, CallSteps
    PROVE  MInv'
<1>1. run \in Runs /\ call \in Calls
    BY DEF ClientTyped
<1>2. CASE OpenSession
    BY <1>2, StartKeeps, RefuseKeeps DEF OpenSession
<1>3. CASE BeginClear
    <2>1. CASE client.closed
        BY <1>3, <2>1, RefuseKeeps DEF BeginClear
    <2>2. CASE ~client.closed
        <3>1. run'.phase = run.phase /\ run'.offset = run.offset
            BY <1>1, <1>3, <2>2 DEF BeginClear, Runs
        <3>2. UNCHANGED <<kept, seen, stake>>
            BY <1>3, <2>2 DEF BeginClear, keepLog, logVars
        <3>3. call'.step = "join" /\ call'.op = call.op /\ call.op \in {"clear", "abort"}
            BY <1>1, <1>3, <2>2 DEF BeginClear, Calls
        <3>4. CallInv'
            BY <3>3 DEF CallInv
        <3> QED BY <3>1, <3>2, <3>4, Still
    <2> QED BY <2>1, <2>2
<1>4. CASE JoinRun
    <2>1. UNCHANGED <<kept, seen, stake>> /\ run'.phase = "none"
        BY <1>4 DEF JoinRun, keepLog, logVars, NoRun
    <2>2. /\ call'.op = call.op /\ call.op \in {"clear", "abort"}
          /\ call'.step = IF call.op = "abort" THEN "check" ELSE "erase"
        BY <1>1, <1>4 DEF JoinRun, Calls, MInv, CallInv
    <2>3. CallInv'
        BY <2>1, <2>2 DEF CallInv
    <2> QED BY <2>1, <2>3, Still
<1>5. CASE CheckUnfunded
    <2>1. CASE Refuse
        BY <2>1, RefuseKeeps
    <2>2. CASE ~Refuse
        <3>1. /\ Unfunded(seen) /\ call' = [call EXCEPT !.step = "erase"] /\ call.step = "check"
              /\ UNCHANGED <<kept, seen, stake, run>>
            BY <1>5, <2>2 DEF CheckUnfunded, keepLog, logVars
        <3>2. stake = "none"
            BY <3>1, UnfundedHasNoStake
        <3>3. call'.step = "erase" /\ call'.op = call.op
            BY <1>1, <3>1 DEF Calls
        <3>4. CallInv'
            BY <3>1, <3>2, <3>3 DEF MInv, CallInv
        <3> QED BY <3>1, <3>4, Still
    <2> QED BY <2>1, <2>2
<1>6. CASE EraseLog
    BY <1>6, EraseKeeps
<1>7. CASE Reopen
    <2>1. CASE StartRun \/ Refuse
        BY <2>1, StartKeeps, RefuseKeeps
    <2>2. CASE Reply(call.op, TRUE, 0) /\ UNCHANGED <<run, client, stake, count>> /\ keepLog
        <3>1. UNCHANGED <<kept, seen, stake, run>> /\ call' = NoCall
            BY <2>2 DEF Reply, keepLog, logVars
        <3>2. CallInv'
            BY <3>1 DEF CallInv, NoCall
        <3> QED BY <3>1, <3>2, Still
    <2> QED BY <1>7, <2>1, <2>2 DEF Reopen
<1> QED BY <1>2, <1>3, <1>4, <1>5, <1>6, <1>7 DEF CallSteps

LEMMA ProcessKeeps ==
    ASSUME ClientTyped, MInv, CloseClient \/ Stop \/ Exit
    PROVE  MInv'
<1>1. CASE CloseClient
    <2>1. run'.phase = run.phase /\ run'.offset = run.offset
        BY <1>1 DEF CloseClient, ClientTyped, Runs
    <2>2. UNCHANGED <<kept, seen, stake>> /\ call' = call
        BY <1>1 DEF CloseClient, keepLog, logVars
    <2> QED BY <2>1, <2>2, StillRunning
<1>2. CASE Stop \/ Exit
    <2>1. run'.phase = "none" /\ call' = NoCall /\ stake' = stake /\ kept' = kept
        BY <1>2 DEF Stop, Exit, FreshProcess, NoRun, keepLog, logVars
    <2>2. CallInv'
        BY <2>1 DEF CallInv, NoCall
    <2>3. CASE seen' = seen
        BY <2>1, <2>2, <2>3, Still
    <2>4. ASSUME NEW n \in Len(kept)..Len(seen), seen' = SubSeq(seen, 1, n) PROVE MInv'
        <3>1. /\ seen \in Seq(Kinds) /\ kept \in Seq(Kinds) /\ Len(seen) \in Nat /\ Len(kept) \in Nat
              /\ Legal(seen) /\ Len(kept) <= Len(seen) /\ kept = SubSeq(seen, 1, Len(kept))
            BY DEF MInv, LogInv, ClientTyped
        <3>2. /\ n \in 0..Len(seen) /\ Len(seen') = n
              /\ SubSeq(seen', 1, Len(kept)) = kept
            BY <2>4, <3>1
        <3>3. LogInv'
            BY <2>1, <2>4, <3>1, <3>2, PartIsLegal DEF LogInv
        <3>4. StakeInv'
            <4>1. CASE stake # "none"
                <5>1. Len(seen) <= Len(kept) + 1
                    BY <4>1 DEF MInv, StakeInv
                <5>2. seen' = kept \/ seen' = seen
                    <6>1. /\ Len(kept) \in Int /\ Len(seen) \in Int
                          /\ n \in Int /\ Len(kept) <= n /\ n <= Len(seen)
                        BY <3>1, <3>2
                    <6>2. CASE n = Len(kept)
                        BY <2>4, <3>1, <6>2
                    <6>3. CASE n = Len(seen)
                        <7>1. SubSeq(seen, 1, Len(seen)) = seen
                            BY <3>1
                        <7> QED BY <2>4, <6>3, <7>1
                    <6>4. n = Len(kept) \/ n = Len(seen)
                        BY <5>1, <6>1
                    <6> QED BY <6>2, <6>3, <6>4
                <5>3. Len(seen') <= Len(kept) + 1 /\ EndsIn(kept, {"Spend", "Deposit"})
                    BY <3>1, <4>1, <5>2 DEF MInv, StakeInv
                <5>4. CASE seen' = kept
                    BY <2>1, <5>3, <5>4 DEF StakeInv, EndsIn
                <5>5. CASE seen' = seen
                    BY <2>1, <5>3, <5>5 DEF MInv, StakeInv
                <5> QED BY <5>2, <5>4, <5>5
            <4>2. CASE stake = "none"
                BY <2>1, <4>2 DEF StakeInv
            <4> QED BY <4>1, <4>2
        <3>5. RunInv'
            BY <2>1 DEF RunInv
        <3> QED BY <2>2, <3>3, <3>4, <3>5 DEF MInv
    <2> QED BY <1>2, <2>3, <2>4 DEF Stop, Exit, keepLog, logVars
<1> QED BY <1>1, <1>2

LEMMA InitKeeps == Init => MInv
<1> SUFFICES ASSUME Init PROVE MInv
    OBVIOUS
<1>1. /\ kept = <<>> /\ seen = <<>> /\ run.phase = "none" /\ call.step = "none"
      /\ call.op = "none" /\ stake = "none"
    BY DEF Init, ClientInit, NoRun, NoCall
<1>2. Legal(seen) /\ SubSeq(seen, 1, 0) = <<>> /\ Len(seen) = 0 /\ Len(kept) = 0
    <2>1. SubSeq(seen, 1, 0) = <<>>
        BY <1>1, SubSeqEmpty
    <2> QED BY <1>1, <2>1 DEF Legal
<1> QED BY <1>1, <1>2 DEF MInv, LogInv, StakeInv, RunInv, CallInv

LEMMA NextKeeps ==
    ASSUME Typed, MInv, [Next]_vars
    PROVE  MInv'
<1>1. ClientTyped /\ run \in Runs /\ call \in Calls
    BY DEF Typed, ClientTyped
<1>2. CASE (DriverSteps \/ Poll(InputWaits) \/ EndRun \/ CallSteps \/ Settle) /\ UNCHANGED uiVars
    BY <1>1, <1>2, DriverStepsKeep, CallStepsKeep
<1>3. CASE UserStep
    <2>1. ASSUME ImportKey \/ RemoveSavedGame("abort") \/ RemoveSavedGame("clear") PROVE MInv'
        <3>1. /\ UNCHANGED <<kept, seen, stake, run>>
              /\ \E op : call' = [op |-> op, step |-> "lock"]
            BY <2>1 DEF ImportKey, RemoveSavedGame, keepLog, logVars
        <3>2. CallInv'
            BY <3>1 DEF CallInv
        <3> QED BY <3>1, <3>2, Still
    <2>2. ASSUME Quit PROVE MInv'
        BY <1>1, <2>2, ProcessKeeps DEF Quit
    <2>3. ASSUME NEW kind, Submit(kind) PROVE MInv'
        BY <2>3, StillRunning DEF Submit, keepClient, logVars, runVars
    <2> QED BY <1>3, <2>1, <2>2, <2>3 DEF UserStep
<1>4. CASE InterfaceStep
    <2>1. ASSUME HandleReply PROVE MInv'
        BY <2>1, StillRunning DEF HandleReply, keepLog, logVars
    <2>2. ASSUME NEW reader \in readers, Read(reader) PROVE MInv'
        <3>1. UNCHANGED <<kept, seen, stake>> /\ call' = call
            BY <2>2 DEF Read, keepLog, logVars
        <3>2. run'.phase = run.phase /\ run'.offset = run.offset
            BY <1>1, <2>2 DEF Read, Runs
        <3> QED BY <3>1, <3>2, StillRunning
    <2>3. ASSUME NEW message \in inbox, HandleMessage(message) PROVE MInv'
        BY <2>3, StillRunning DEF HandleMessage, keepClient, logVars, runVars
    <2>4. ASSUME NEW i \in 1..Len(commands), Take(i) PROVE MInv'
        <3>1. commands[i].kind \in {"new", "setup", "act"}
            BY <2>4, CommandsTyped DEF Take
        <3> QED BY <1>1, <2>4, <3>1, DriverStepsKeep DEF Take
    <2>5. ASSUME NEW i \in 1..Len(commands), GiveUp(i) PROVE MInv'
        BY <2>5, StillRunning DEF GiveUp, keepClient, logVars, runVars
    <2> QED BY <1>4, <2>1, <2>2, <2>3, <2>4, <2>5 DEF InterfaceStep
<1>5. CASE Restart
    BY <1>1, <1>5, ProcessKeeps DEF Restart
<1>6. CASE UNCHANGED vars
    BY <1>6, StillRunning DEF vars, logVars, runVars
<1> QED BY <1>2, <1>3, <1>4, <1>5, <1>6 DEF Next

\* In every reachable state the saved log is one a driver could have written, and
\* money is away only between a saved spend and its result
\* (src/internal/driver/driver.go, src/internal/client/client.go).
THEOREM Legality == Spec => [](Typed /\ MInv)
<1>1. Init => Typed /\ MInv
    BY InitTyped, InitKeeps
<1>2. Typed /\ MInv /\ [Next]_vars => (Typed /\ MInv)'
    BY NextTyped, NextKeeps DEF MInv, LogInv
<1> QED BY <1>1, <1>2, PTL DEF Spec

\* A legal log whose last record concerns money has a spend in its last game.
LEMMA MoneyFollowsASpend ==
    ASSUME NEW s, Legal(s), EndsIn(s, {"Spend", "Deposit", "Result"})
    PROVE  \E i \in LastStart(s)..Len(s) : s[i] = "Spend"
<1>1. s \in Seq(Kinds) /\ Len(s) \in Nat /\ Len(s) > 0
    BY DEF Legal, EndsIn
<1>2. LastStart(s) \in 1..Len(s) /\ s[LastStart(s)] = "Configured"
    BY <1>1, TheCurrentGame DEF StartsLast
<1>3. ASSUME NEW n \in 1..Len(s), LastStart(s) <= n, s[n] # "Configured"
      PROVE  /\ n - 1 \in LastStart(s)..Len(s) /\ <<s[n - 1], s[n]>> \in Successions
    <2>1. n # LastStart(s)
        BY <1>2, <1>3
    <2>2. n - 1 \in 1..(Len(s) - 1) /\ LastStart(s) <= n - 1
        BY <1>1, <1>2, <1>3, <2>1
    <2>3. <<s[n - 1], s[(n - 1) + 1]>> \in Successions
        BY <2>2 DEF Legal
    <2> QED BY <1>1, <1>2, <2>2, <2>3
<1>4. ASSUME NEW n \in LastStart(s)..Len(s), s[n] = "Deposit"
      PROVE  n - 1 \in LastStart(s)..Len(s) /\ s[n - 1] = "Spend"
    <2>1. n \in 1..Len(s) /\ LastStart(s) <= n
        BY <1>1, <1>2
    <2> QED BY <1>3, <1>4, <2>1 DEF Successions
<1>5. Len(s) \in LastStart(s)..Len(s) /\ Len(s) \in 1..Len(s) /\ LastStart(s) <= Len(s)
    BY <1>1, <1>2
<1>6. CASE s[Len(s)] = "Result"
    <2>1. Len(s) - 1 \in LastStart(s)..Len(s) /\ <<s[Len(s) - 1], s[Len(s)]>> \in Successions
        BY <1>3, <1>5, <1>6
    <2>2. s[Len(s) - 1] \in {"Spend", "Deposit"}
        BY <1>6, <2>1 DEF Successions
    <2> QED BY <1>4, <2>1, <2>2
<1> QED BY <1>4, <1>5, <1>6 DEF EndsIn

LEMMA MoneyInTheGame ==
    ASSUME Typed, MInv
    PROVE  MoneyIsAccountedFor
<1>1. CASE stake # "none"
    <2>1. /\ Legal(seen) /\ EndsIn(seen, {"Spend", "Deposit", "Result"})
          /\ stake = "sent" => ~EndsIn(seen, {"Result"})
        BY <1>1 DEF MInv, LogInv, StakeInv
    <2>2. PICK i \in LastStart(seen)..Len(seen) : seen[i] = "Spend"
        BY <2>1, MoneyFollowsASpend
    <2> DEFINE o == CurrentOffset(seen)
    <2>3. /\ Len(seen) > 0 /\ Len(seen) \in Nat /\ o \in 0..(Len(seen) - 1)
          /\ o = LastStart(seen) - 1 /\ LastStart(seen) \in 1..Len(seen)
        BY <2>1, TheCurrentGame DEF EndsIn, StartsLast, Legal
    <2> HIDE DEF o
    <2>4. /\ Len(CurrentGame) = Len(seen) - o /\ CurrentGame # <<>>
          /\ Last(CurrentGame) = seen[Len(seen)]
          /\ \A j \in 1..Len(CurrentGame) : CurrentGame[j] = seen[o + j]
        BY <2>1, <2>3, GameOfLog DEF CurrentGame, o
    <2>5. i - o \in 1..Len(CurrentGame) /\ o + (i - o) = i
        BY <2>3, <2>4
    <2>6. Holds(CurrentGame, "Spend")
        BY <2>2, <2>4, <2>5 DEF Holds
    <2>7. ~Ends(CurrentGame, {"SetupAborted"})
        BY <2>1, <2>4 DEF Ends, EndsIn
    <2>8. stake = "sent" => ~Ends(CurrentGame, {"Result"})
        BY <2>1, <2>3, <2>4 DEF Ends, EndsIn
    <2> QED BY <2>6, <2>7, <2>8 DEF MoneyIsAccountedFor
<1> QED BY <1>1 DEF MoneyIsAccountedFor

\* Money that left for a covenant is in the saved game that will be resumed until the
\* user clears it, whatever the interface showed when an abort was asked for and
\* wherever the process stopped (src/internal/client/abort.go:13).
THEOREM MoneyIsKept == Spec => []MoneyIsAccountedFor
BY Legality, MoneyInTheGame, PTL

LEMMA GamesAreReadable ==
    ASSUME Typed, MInv
    PROVE  SavedGamesStayReadable
<1>1. Legal(seen) /\ Len(seen) \in Nat
    BY DEF MInv, LogInv, Legal
<1>2. seen # <<>> => seen[1] = "Configured"
    BY <1>1 DEF Legal
<1>3. ASSUME NEW i \in Starts(seen), i > 1 PROVE seen[i - 1] \in {"SetupAborted", "Result"}
    <2>1. i - 1 \in 1..(Len(seen) - 1) /\ seen[i] = "Configured" /\ (i - 1) + 1 = i
        BY <1>1, <1>3 DEF Starts
    <2>2. <<seen[i - 1], seen[i]>> \in Successions
        BY <1>1, <2>1 DEF Legal
    <2> QED BY <2>1, <2>2 DEF Successions
<1> QED BY <1>2, <1>3 DEF SavedGamesStayReadable, Readable, MInv, RunInv

(***************************************************************************)
(* The invariant behind InterfaceIsConsistent.                             *)
(***************************************************************************)
Active == run.phase \in {"driving", "terminal", "failed"}
Refused == \E r \in replies : r.op = "open" /\ ~r.ok
CallOwns == call.op = "open" \/ Refused

\* The key has one owner; between two sessions the client has it, and the session that
\* lost it runs only until the call that took it has joined it.
KeyInv ==
    /\ key = "live" <=> run.owns \/ client.pending \/ CallOwns
    /\ ~(run.owns /\ client.pending)
    /\ ~(run.owns /\ CallOwns)
    /\ ~(client.pending /\ CallOwns)
    /\ run.owns => Active
    /\ Active => run.owns \/ (client.pending /\ call.step = "join")
    /\ key = "live" => ui.held \/ ui.quit

SessionInv ==
    /\ client.session <=> run.phase # "none"
    /\ client.session /\ client.pending => call.step = "join"
    /\ run.phase = "ended" => run.stop
    /\ run.stop /\ client.session => client.closed \/ call.step = "join"
    /\ client.closed => call.step \in {"none", "lock"}
    /\ \A u, v \in run.news : u = v

\* A call is under way or its result is, for one of the two reasons to wait.
Asked(ops) == call.op \in ops \/ \E r \in replies : r.op \in ops
SerialInv ==
    /\ \/ call = NoCall
       \/ call.op = "open" /\ call.step = "lock"
       \/ call.op \in {"clear", "abort"} /\ call.step # "none"
    /\ call # NoCall => replies = {}
    /\ \A r, q \in replies : r = q
    /\ \A r \in replies :
          /\ r.op # "none"
          /\ r.op = "open" /\ r.ok => r.session # 0
          /\ r.session # 0 => r.ok /\ (ui.held \/ ui.quit)
    /\ ~ui.quit => /\ ui.connecting <=> Asked({"open"})
                   /\ ui.clearing <=> Asked({"clear", "abort"})
    /\ ui.connecting => ui.held
    /\ ui.connecting \/ ui.clearing => ui.session = 0
    /\ ui.session # 0 => ui.held

\* One goroutine waits for the followed session, or its message is on its way.
Awaiting == {r \in readers : r.generation = ui.generation}
Arriving == {m \in inbox : m.generation = ui.generation /\ m.kind # "refused"}
WaitInv ==
    /\ \A r \in readers : r.generation <= ui.generation
    /\ \A m \in inbox : m.kind = "refused" \/ m.generation <= ui.generation
    /\ \A r, q \in Awaiting : r = q
    /\ \A m, n \in Arriving : m = n
    /\ Awaiting = {} \/ Arriving = {}
    /\ ui.session = 0 => Awaiting = {} /\ Arriving = {}

CInv == KeyInv /\ SessionInv /\ SerialInv /\ WaitInv

LEMMA InitConsistent == Init => CInv
<1> SUFFICES ASSUME Init PROVE CInv
    OBVIOUS
<1>1. /\ run = NoRun /\ call = NoCall /\ client = NewClient /\ key = "none" /\ replies = {}
      /\ ui = NewModel /\ readers = {} /\ inbox = {}
    BY DEF Init, ClientInit
<1>2. KeyInv
    BY <1>1 DEF KeyInv, CallOwns, Refused, Active, NoRun, NoCall, NewClient, NewModel
<1>3. SessionInv
    BY <1>1 DEF SessionInv, NoRun, NoCall, NewClient
<1>4. SerialInv
    BY <1>1 DEF SerialInv, Asked, NoCall, NewModel
<1>5. WaitInv
    BY <1>1 DEF WaitInv, Awaiting, Arriving, NewModel
<1> QED BY <1>2, <1>3, <1>4, <1>5 DEF CInv

\* What the goroutine of a session does between its start and its end.
RunGoesOn ==
    /\ \/ run'.phase = run.phase
       \/ Active /\ Active'
    /\ run'.owns = run.owns /\ run'.stop = run.stop
    /\ \A u, v \in run'.news : u = v

LEMMA RunStepsGoOn ==
    ASSUME Typed, CInv, \/ DriverSteps \/ Poll(InputWaits) \/ Settle \/ NextGame
                       \/ \E request \in {"setup", "act"} : TakeInput(request)
    PROVE  RunGoesOn /\ UNCHANGED <<call, client, key, replies>>
<1>1. run \in Runs /\ \A u, v \in run.news : u = v
    BY DEF Typed, ClientTyped, CInv, SessionInv
<1>2. ASSUME NEW update, Tell(update) PROVE RunGoesOn
    BY <1>1, <1>2 DEF Tell, RunGoesOn, Runs
<1>3. ASSUME Fail, Active PROVE RunGoesOn
    <2>1. /\ run'.phase = "failed" /\ run'.owns = run.owns /\ run'.stop = run.stop
          /\ run'.news = {ErrorUpdate("stopped")}
        BY <1>1, <1>3 DEF Fail, Runs
    <2> QED BY <1>3, <2>1 DEF RunGoesOn, Active
<1>4. ASSUME NEW kind, Journal(kind), Driving PROVE RunGoesOn
    BY <1>2, <1>3, <1>4 DEF Journal, Driving, Active
<1>5. ASSUME DriverStep PROVE RunGoesOn
    BY <1>4, <1>5 DEF DriverStep, Working
<1>6. ASSUME Emit PROVE RunGoesOn
    BY <1>2, <1>6 DEF Emit
<1>7. ASSUME Send \/ Settle PROVE RunGoesOn
    BY <1>1, <1>7 DEF Send, Settle, RunGoesOn
<1>8. ASSUME Return PROVE RunGoesOn
    <2>1. Active
        BY <1>8 DEF Return, Working, Driving, Active
    <2>2. ASSUME run' = [run EXCEPT !.phase = "terminal", !.news = {Snapshot(Game, FALSE)}]
          PROVE  RunGoesOn
        <3>1. /\ run'.phase = "terminal" /\ run'.owns = run.owns /\ run'.stop = run.stop
              /\ run'.news = {Snapshot(Game, FALSE)}
            BY <1>1, <2>2 DEF Runs
        <3> QED BY <2>1, <3>1 DEF RunGoesOn, Active
    <2> QED BY <1>3, <1>8, <2>1, <2>2 DEF Return
<1>9. ASSUME Poll(InputWaits) PROVE RunGoesOn
    BY <1>1, <1>9 DEF Poll, RunGoesOn, Runs
<1>10. ASSUME NextGame PROVE RunGoesOn
    <2>1. Active
        BY <1>10 DEF NextGame, Active
    <2>2. ASSUME run' = [run EXCEPT !.phase = "driving", !.offset = Len(seen),
                                  !.game = @ + 1, !.polled = TRUE]
          PROVE  RunGoesOn
        <3>1. /\ run'.phase = "driving" /\ run'.owns = run.owns /\ run'.stop = run.stop
              /\ run'.news = run.news
            BY <1>1, <2>2 DEF Runs
        <3> QED BY <1>1, <2>1, <3>1 DEF RunGoesOn, Active
    <2> QED BY <1>3, <1>10, <2>1, <2>2 DEF NextGame
<1>11. ASSUME NEW request, TakeInput(request) PROVE RunGoesOn
    BY <1>2, <1>4, <1>11 DEF TakeInput
<1> QED BY <1>5, <1>6, <1>7, <1>8, <1>9, <1>10, <1>11
        DEF DriverSteps, DriverStep, Emit, Send, Return, Poll, Settle, NextGame, TakeInput

LEMMA RunStepsKeep ==
    ASSUME CInv, RunGoesOn, UNCHANGED <<call, client, key, replies, ui>>
    PROVE  KeyInv' /\ SessionInv' /\ SerialInv'
<1>1. (Active <=> Active') /\ (run.phase = "none" <=> run'.phase = "none")
    BY DEF RunGoesOn, Active
<1>2. KeyInv'
    BY <1>1 DEF RunGoesOn, CInv, KeyInv, CallOwns, Refused
<1>3. SessionInv'
    <2>1. run'.phase = "ended" => run.phase = "ended"
        BY DEF RunGoesOn, Active
    <2> QED BY <1>1, <2>1 DEF RunGoesOn, CInv, SessionInv
<1>4. SerialInv'
    BY DEF CInv, SerialInv, Asked
<1> QED BY <1>2, <1>3, <1>4

LEMMA StillWaiting ==
    ASSUME WaitInv, UNCHANGED <<readers, inbox>>,
           ui'.generation = ui.generation, ui'.session = ui.session
    PROVE  WaitInv'
BY DEF WaitInv, Awaiting, Arriving

LEMMA EndRunConsistent ==
    ASSUME Typed, CInv, EndRun, UNCHANGED uiVars
    PROVE  CInv'
<1>1. /\ run' = [run EXCEPT !.phase = "ended", !.owns = FALSE, !.news = {}]
      /\ run.stop /\ Active /\ key' = (IF run.owns THEN "destroyed" ELSE key)
      /\ UNCHANGED <<call, client, replies, ui, readers, inbox>> /\ run \in Runs
    BY DEF EndRun, Active, uiVars, Typed, ClientTyped
<1>2. run'.phase = "ended" /\ ~run'.owns /\ run'.news = {} /\ run'.stop
    BY <1>1 DEF Runs
<1>3. KeyInv'
    BY <1>1, <1>2 DEF CInv, KeyInv, CallOwns, Refused, Active
<1>4. SessionInv'
    BY <1>1, <1>2 DEF CInv, SessionInv, Active
<1>5. SerialInv' /\ WaitInv'
    BY <1>1, StillWaiting DEF CInv, SerialInv, Asked
<1> QED BY <1>3, <1>4, <1>5 DEF CInv

(***************************************************************************)
(* Calls.                                                                  *)
(***************************************************************************)
LEMMA StartConsistent ==
    ASSUME Typed, CInv, StartRun, UNCHANGED <<key, ui, readers, inbox>>, call # NoCall,
           \/ call.op = "open"
           \/ client.pending /\ call.op # "open"
    PROVE  CInv'
<1>1. /\ run'.phase = "driving" /\ run'.owns /\ ~run'.stop /\ run'.news = {}
      /\ run'.id = count.sessions + 1 /\ count.sessions \in Nat
      /\ replies' = replies \cup {[op |-> call.op, ok |-> TRUE, session |-> run'.id]}
    BY DEF StartRun, Reply, NoRun, Typed, ClientTyped
<1>2. /\ call' = NoCall /\ client'.session /\ ~client'.pending /\ client'.closed = client.closed
    BY DEF StartRun, Reply, Typed, ClientTyped
<1>3. replies = {} /\ key = "live" /\ (ui.held \/ ui.quit) /\ call.op # "none"
    BY DEF CInv, SerialInv, KeyInv, CallOwns
<1>4. replies' = {[op |-> call.op, ok |-> TRUE, session |-> run'.id]} /\ run'.id # 0
    BY <1>1, <1>3
<1>5. KeyInv'
    BY <1>1, <1>2, <1>3, <1>4 DEF KeyInv, CallOwns, Refused, Active, NoCall
<1>6. SessionInv'
    BY <1>1, <1>2 DEF SessionInv, NoCall
<1>7. SerialInv'
    <2>1. \A ops : "none" \notin ops => (Asked(ops)' <=> Asked(ops))
        BY <1>2, <1>3, <1>4 DEF Asked, NoCall
    <2>2. /\ Asked({"open"})' <=> Asked({"open"})
          /\ Asked({"clear", "abort"})' <=> Asked({"clear", "abort"})
        BY <2>1
    <2> QED BY <1>2, <1>3, <1>4, <2>2 DEF CInv, SerialInv
<1>8. WaitInv'
    BY StillWaiting DEF CInv
<1> QED BY <1>5, <1>6, <1>7, <1>8 DEF CInv

LEMMA ReplyConsistent ==
    ASSUME Typed, CInv, NEW ok \in BOOLEAN, ok => call.op # "open", Reply(call.op, ok, 0),
           UNCHANGED <<run, client, key, ui, readers, inbox>>, call # NoCall, call.step # "join"
    PROVE  CInv'
<1>1. replies = {} /\ call.op # "none"
    BY DEF CInv, SerialInv
<1>2. call' = NoCall /\ replies' = {[op |-> call.op, ok |-> ok, session |-> 0]}
    BY <1>1 DEF Reply
<1>3. KeyInv'
    <2>1. CallOwns' <=> CallOwns
        BY <1>1, <1>2 DEF CallOwns, Refused, NoCall
    <2> QED BY <2>1 DEF CInv, KeyInv, Active
<1>4. SessionInv'
    BY <1>2 DEF CInv, SessionInv, NoCall
<1>5. SerialInv'
    <2>1. \A ops : "none" \notin ops => (Asked(ops)' <=> Asked(ops))
        BY <1>1, <1>2 DEF Asked, NoCall
    <2>2. /\ Asked({"open"})' <=> Asked({"open"})
          /\ Asked({"clear", "abort"})' <=> Asked({"clear", "abort"})
        BY <2>1
    <2> QED BY <1>1, <1>2, <2>2 DEF CInv, SerialInv
<1>6. WaitInv'
    BY StillWaiting DEF CInv
<1> QED BY <1>3, <1>4, <1>5, <1>6 DEF CInv

\* A call that erases goes on: nothing runs, and nobody else holds the client.
LEMMA CallGoesOn ==
    ASSUME Typed, MInv, CInv, UNCHANGED <<run, client, key, replies, ui, readers, inbox>>,
           call.step \in {"check", "erase"}, NEW step \in {"erase", "reopen"},
           call' = [call EXCEPT !.step = step]
    PROVE  CInv'
<1>1. call'.op = call.op /\ call'.step = step /\ call.op \in {"clear", "abort"}
    BY DEF Typed, ClientTyped, Calls, MInv, CallInv
<1>2. run.phase = "none" /\ call # NoCall /\ call' # NoCall
    BY <1>1 DEF MInv, CallInv, NoCall
<1>3. KeyInv'
    BY <1>1, <1>2 DEF CInv, KeyInv, CallOwns, Refused, Active
<1>4. SessionInv'
    BY <1>1, <1>2 DEF CInv, SessionInv
<1>5. SerialInv'
    BY <1>1, <1>2 DEF CInv, SerialInv, Asked
<1>6. WaitInv'
    BY StillWaiting DEF CInv
<1> QED BY <1>3, <1>4, <1>5, <1>6 DEF CInv

LEMMA BeginConsistent ==
    ASSUME Typed, CInv, BeginClear, ~client.closed, UNCHANGED <<ui, readers, inbox>>
    PROVE  CInv'
<1>1. /\ call.op \in {"clear", "abort"} /\ call.step = "lock" /\ call # NoCall
      /\ call'.op = call.op /\ call'.step = "join" /\ call' # NoCall
      /\ UNCHANGED <<key, replies>>
    BY DEF BeginClear, Typed, ClientTyped, Calls, NoCall
<1>2. run'.phase = run.phase /\ ~run'.owns /\ run'.stop /\ run'.news = run.news
    BY DEF BeginClear, Typed, ClientTyped, Runs
<1>3. /\ client'.session = client.session /\ client'.closed = client.closed
      /\ client'.pending = IF client.session THEN run.owns ELSE client.pending
    BY DEF BeginClear, Typed, ClientTyped
<1>4. client.session => Active /\ run.owns
    <2>1. client.session => run.phase \in {"driving", "terminal", "failed", "ended"}
        BY DEF CInv, SessionInv, Typed, ClientTyped, Runs
    <2> QED BY <1>1, <2>1 DEF CInv, SessionInv, KeyInv, Active
<1>5. ~client.session => ~Active
    BY DEF CInv, SessionInv, Active
<1>6. (Active' <=> Active) /\ (CallOwns' <=> CallOwns)
    BY <1>1, <1>2 DEF Active, CallOwns, Refused
<1>7. KeyInv'
    BY <1>1, <1>2, <1>3, <1>4, <1>5, <1>6 DEF CInv, KeyInv
<1>8. SessionInv'
    BY <1>1, <1>2, <1>3 DEF CInv, SessionInv
<1>9. SerialInv'
    BY <1>1 DEF CInv, SerialInv, Asked
<1>10. WaitInv'
    BY StillWaiting DEF CInv
<1> QED BY <1>7, <1>8, <1>9, <1>10 DEF CInv

LEMMA JoinConsistent ==
    ASSUME Typed, MInv, CInv, JoinRun, UNCHANGED <<ui, readers, inbox>>
    PROVE  CInv'
<1>1. /\ call.op \in {"clear", "abort"} /\ call.step = "join" /\ call # NoCall
      /\ call'.op = call.op /\ call'.step \in {"check", "erase"} /\ call' # NoCall
      /\ UNCHANGED <<key, replies>>
    BY DEF JoinRun, Typed, ClientTyped, Calls, NoCall, MInv, CallInv
<1>2. run'.phase = "none" /\ ~run'.owns /\ ~run'.stop /\ run'.news = {}
    BY DEF JoinRun, NoRun
<1>3. ~client'.session /\ client'.closed = client.closed /\ client'.pending = client.pending
    BY DEF JoinRun, Typed, ClientTyped
<1>4. ~run.owns /\ ~Active
    BY DEF JoinRun, CInv, KeyInv, Active
<1>5. KeyInv'
    BY <1>1, <1>2, <1>3, <1>4 DEF CInv, KeyInv, CallOwns, Refused, Active
<1>6. SessionInv'
    BY <1>1, <1>2, <1>3 DEF CInv, SessionInv
<1>7. SerialInv'
    BY <1>1 DEF CInv, SerialInv, Asked
<1>8. WaitInv'
    BY StillWaiting DEF CInv
<1> QED BY <1>5, <1>6, <1>7, <1>8 DEF CInv

LEMMA CallStepsConsistent ==
    ASSUME Typed, MInv, CInv, CallSteps, UNCHANGED uiVars
    PROVE  CInv'
<1>1. UNCHANGED <<ui, readers, inbox>> /\ call \in Calls
    BY DEF uiVars, Typed, ClientTyped
<1>2. ASSUME Refuse, UNCHANGED key, call # NoCall, call.step # "join" PROVE CInv'
    BY <1>1, <1>2, ReplyConsistent DEF Refuse
<1>3. CASE OpenSession
    <2>1. call.op = "open" /\ call.step = "lock" /\ call # NoCall /\ UNCHANGED key
        BY <1>3 DEF OpenSession, NoCall
    <2> QED BY <1>1, <1>2, <1>3, <2>1, StartConsistent DEF OpenSession
<1>4. CASE BeginClear
    <2>1. CASE client.closed
        <3>1. Refuse /\ UNCHANGED key /\ call.step = "lock" /\ call # NoCall
            BY <1>4, <2>1 DEF BeginClear, NoCall
        <3> QED BY <1>2, <3>1
    <2> QED BY <1>1, <1>4, <2>1, BeginConsistent
<1>5. CASE JoinRun
    BY <1>1, <1>5, JoinConsistent
<1>6. CASE CheckUnfunded
    <2>1. call.step = "check" /\ call # NoCall /\ UNCHANGED key
        BY <1>6 DEF CheckUnfunded, NoCall
    <2>2. CASE Refuse
        BY <1>2, <2>1, <2>2
    <2>3. CASE ~Refuse
        BY <1>1, <1>6, <2>1, <2>3, CallGoesOn DEF CheckUnfunded
    <2> QED BY <2>2, <2>3
<1>7. CASE EraseLog
    <2>1. /\ call.step = "erase" /\ call # NoCall /\ UNCHANGED <<run, client, key>>
        BY <1>7 DEF EraseLog, NoCall
    <2>2. CASE Reply(call.op, FALSE, 0)
        BY <1>1, <2>1, <2>2, ReplyConsistent
    <2>3. CASE ~Reply(call.op, FALSE, 0)
        BY <1>1, <1>7, <2>1, <2>3, CallGoesOn DEF EraseLog
    <2> QED BY <2>2, <2>3
<1>8. CASE Reopen
    <2>1. /\ call.step = "reopen" /\ call # NoCall /\ UNCHANGED key
          /\ call.op \in {"clear", "abort"}
        BY <1>8 DEF Reopen, NoCall, MInv, CallInv
    <2>2. CASE client.pending
        BY <1>1, <1>2, <1>8, <2>1, <2>2, StartConsistent DEF Reopen
    <2>3. CASE ~client.pending
        BY <1>1, <1>8, <2>1, <2>3, ReplyConsistent DEF Reopen
    <2> QED BY <2>2, <2>3
<1> QED BY <1>3, <1>4, <1>5, <1>6, <1>7, <1>8 DEF CallSteps

(***************************************************************************)
(* The user and the messages.                                              *)
(***************************************************************************)
LEMMA ProcessConsistent ==
    ASSUME Typed, CInv, Quit \/ Restart
    PROVE  CInv'
<1>1. CASE Restart
    <2>1. /\ run' = NoRun /\ call' = NoCall /\ client' = NewClient /\ key' = "none"
          /\ replies' = {} /\ ui' = NewModel /\ readers' = {} /\ inbox' = {}
        BY <1>1 DEF Restart, Exit, Stop, FreshProcess, FreshModel
    <2>2. KeyInv'
        BY <2>1 DEF KeyInv, CallOwns, Refused, Active, NoRun, NoCall, NewClient, NewModel
    <2>3. SessionInv'
        BY <2>1 DEF SessionInv, NoRun, NoCall, NewClient
    <2>4. SerialInv'
        BY <2>1 DEF SerialInv, Asked, NoCall, NewModel
    <2>5. WaitInv'
        BY <2>1 DEF WaitInv, Awaiting, Arriving, NewModel
    <2> QED BY <2>2, <2>3, <2>4, <2>5 DEF CInv
<1>2. CASE Quit
    <2>1. /\ call' = call /\ replies' = replies /\ call.step \in {"none", "lock"}
          /\ readers' = {} /\ inbox' = {}
          /\ key' = IF client.pending THEN "destroyed" ELSE key
        BY <1>2 DEF Quit, CloseClient
    <2>2. client'.closed /\ ~client'.pending /\ client'.session = client.session
        BY <1>2 DEF Quit, CloseClient, Typed, ClientTyped
    <2>3. /\ run'.stop /\ run'.phase = run.phase /\ run'.owns = run.owns /\ run'.news = run.news
        BY <1>2 DEF Quit, CloseClient, Typed, ClientTyped, Runs
    <2>4. /\ ui'.quit /\ ~ui'.held /\ ~ui'.connecting /\ ~ui'.clearing /\ ui'.session = 0
        BY <1>2 DEF Quit, NewModel
    <2>5. KeyInv'
        BY <2>1, <2>2, <2>3, <2>4 DEF CInv, KeyInv, CallOwns, Refused, Active
    <2>6. SessionInv'
        BY <2>1, <2>2, <2>3 DEF CInv, SessionInv
    <2>7. SerialInv'
        BY <2>1, <2>4 DEF CInv, SerialInv
    <2>8. WaitInv'
        BY <2>1 DEF WaitInv, Awaiting, Arriving
    <2> QED BY <2>5, <2>6, <2>7, <2>8 DEF CInv
<1> QED BY <1>1, <1>2

LEMMA ImportConsistent ==
    ASSUME Typed, CInv, ImportKey
    PROVE  CInv'
<1>1. call = NoCall /\ replies = {} /\ ~ui.quit /\ ~ui.held
    <2>1. ~Asked({"open"}) /\ ~Asked({"clear", "abort"})
        BY DEF ImportKey, CInv, SerialInv
    <2>2. \A r \in replies : r.op \in Ops
        BY DEF Typed, ClientTyped
    <2> QED BY <2>1, <2>2 DEF ImportKey, Asked, Ops, CInv, SerialInv
<1>2. /\ key' = "live" /\ call' = [op |-> "open", step |-> "lock"]
      /\ UNCHANGED <<run, client, replies, readers, inbox>>
    BY DEF ImportKey
<1>3. /\ ui'.held /\ ui'.connecting /\ ui'.clearing = ui.clearing /\ ui'.quit = ui.quit
      /\ ui'.session = ui.session /\ ui'.generation = ui.generation
    BY DEF ImportKey, Typed, InterfaceTyped, Models
<1>4. KeyInv'
    BY <1>1, <1>2, <1>3 DEF CInv, KeyInv, CallOwns, Refused, Active
<1>5. SessionInv'
    BY <1>1, <1>2 DEF CInv, SessionInv, NoCall
<1>6. SerialInv'
    BY <1>1, <1>2, <1>3 DEF CInv, SerialInv, Asked, NoCall
<1>7. WaitInv'
    BY <1>2, <1>3, StillWaiting DEF CInv
<1> QED BY <1>4, <1>5, <1>6, <1>7 DEF CInv

LEMMA RemovalConsistent ==
    ASSUME Typed, CInv, NEW op \in {"clear", "abort"}, RemoveSavedGame(op)
    PROVE  CInv'
<1>1. call = NoCall /\ replies = {} /\ ~ui.quit /\ ~ui.connecting
    <2>1. ~ui.quit /\ ~ui.connecting /\ ~ui.clearing
        BY DEF RemoveSavedGame, CanAbortSetup, CanClearGame
    <2>2. ~Asked({"open"}) /\ ~Asked({"clear", "abort"})
        BY <2>1 DEF CInv, SerialInv
    <2>3. \A r \in replies : r.op \in Ops
        BY DEF Typed, ClientTyped
    <2> QED BY <2>1, <2>2, <2>3 DEF Asked, Ops, CInv, SerialInv
<1>2. /\ call' = [op |-> op, step |-> "lock"]
      /\ UNCHANGED <<run, client, key, replies, readers, inbox>>
    BY DEF RemoveSavedGame
<1>3. /\ ui'.held = ui.held /\ ui'.connecting = ui.connecting /\ ui'.clearing
      /\ ui'.quit = ui.quit /\ ui'.session = 0 /\ ui'.generation = ui.generation + 1
    BY DEF RemoveSavedGame, Typed, InterfaceTyped, Models
<1>4. KeyInv'
    BY <1>1, <1>2, <1>3 DEF CInv, KeyInv, CallOwns, Refused, Active, NoCall
<1>5. SessionInv'
    BY <1>1, <1>2 DEF CInv, SessionInv, NoCall
<1>6. SerialInv'
    BY <1>1, <1>2, <1>3 DEF CInv, SerialInv, Asked, NoCall
<1>7. WaitInv'
    <2>1. /\ ui.generation \in Nat /\ \A r \in readers : r.generation \in Nat
          /\ \A m \in inbox : m.generation \in Nat
        BY DEF Typed, InterfaceTyped, Models, Messages
    <2>2. Awaiting' = {} /\ Arriving' = {}
        BY <1>2, <1>3, <2>1 DEF CInv, WaitInv, Awaiting, Arriving
    <2> QED BY <1>2, <1>3, <2>1, <2>2 DEF CInv, WaitInv
<1> QED BY <1>4, <1>5, <1>6, <1>7 DEF CInv

LEMMA ReplyHandled ==
    ASSUME Typed, CInv, HandleReply
    PROVE  CInv'
<1>1. PICK reply \in replies : (Connected(reply) \/ Cleared(reply)) /\ replies' = replies \ {reply}
    BY DEF HandleReply
<1>2. /\ replies = {reply} /\ replies' = {} /\ call = NoCall /\ call' = NoCall /\ ~ui.quit
      /\ UNCHANGED <<run, client, inbox>>
      /\ reply.op = "open" /\ reply.ok => reply.session # 0
      /\ reply.session # 0 => reply.ok /\ ui.held
    BY <1>1 DEF HandleReply, CInv, SerialInv
<1>3. /\ ui \in Models /\ reply.session \in Nat
      /\ \A ops : "none" \notin ops => (Asked(ops) <=> reply.op \in ops) /\ ~Asked(ops)'
    BY <1>2 DEF Typed, ClientTyped, InterfaceTyped, Asked, NoCall
<1>4. /\ ui.connecting <=> reply.op = "open"
      /\ ui.clearing <=> reply.op \in {"clear", "abort"}
      /\ ~Asked({"open"})' /\ ~Asked({"clear", "abort"})'
    <2>1. /\ Asked({"open"}) <=> reply.op = "open"
          /\ Asked({"clear", "abort"}) <=> reply.op \in {"clear", "abort"}
          /\ ~Asked({"open"})' /\ ~Asked({"clear", "abort"})'
        BY <1>3
    <2> QED BY <1>2, <2>1 DEF CInv, SerialInv
<1>5. ui.session = 0 /\ (ui.held \/ reply.op # "open")
    BY <1>1, <1>4 DEF Connected, Cleared, CInv, SerialInv
<1>6. SessionInv'
    BY <1>2 DEF CInv, SessionInv
<1>7. /\ ~ui'.connecting /\ ~ui'.clearing /\ ~ui'.quit /\ ui'.generation = ui.generation
      /\ \/ /\ ui'.session = reply.session /\ reply.session # 0 /\ reply.ok
            /\ ui'.held = ui.held /\ key' = key
            /\ readers' = readers \cup {Reader(reply.session, ui.generation)}
         \/ /\ ui'.session = ui.session /\ readers' = readers
            /\ \/ reply.op = "open" /\ ~reply.ok /\ ~ui'.held /\ key' = "destroyed"
               \/ reply.op # "open" /\ ui'.held = ui.held /\ key' = key
    BY <1>1, <1>2, <1>3, <1>4 DEF Connected, Cleared, Models
<1>8. KeyInv'
    <2>1. ~Refused' /\ call'.op = "none" /\ (Refused <=> reply.op = "open" /\ ~reply.ok)
        BY <1>2 DEF Refused, NoCall
    <2> QED BY <1>2, <1>7, <2>1 DEF CInv, KeyInv, CallOwns, Active, NoCall
<1>9. SerialInv'
    BY <1>2, <1>4, <1>5, <1>7 DEF SerialInv
<1>10. WaitInv'
    <2>1. Awaiting = {} /\ Arriving = {}
        BY <1>5 DEF CInv, WaitInv
    <2>2. Arriving' = {}
        BY <1>2, <1>7, <2>1 DEF Arriving
    <2>3. \A r \in readers' : r.generation <= ui.generation
        BY <1>3, <1>7 DEF CInv, WaitInv, Reader, Models
    <2>4. \A m \in inbox' : m.kind = "refused" \/ m.generation <= ui.generation
        BY <1>2 DEF CInv, WaitInv
    <2>5. CASE readers' = readers
        <3>1. Awaiting' = {}
            BY <1>7, <2>1, <2>5 DEF Awaiting
        <3> QED BY <1>7, <2>2, <2>3, <2>4, <3>1 DEF WaitInv
    <2>6. CASE readers' = readers \cup {Reader(reply.session, ui.generation)} /\ ui'.session # 0
        <3>1. Awaiting' \subseteq {Reader(reply.session, ui.generation)}
            BY <1>7, <2>1, <2>6 DEF Awaiting
        <3> QED BY <1>7, <2>2, <2>3, <2>4, <2>6, <3>1 DEF WaitInv
    <2> QED BY <1>7, <2>5, <2>6
<1> QED BY <1>6, <1>8, <1>9, <1>10 DEF CInv

\* What a model shows is not what decides who may call.
SameDuties ==
    /\ ui'.held = ui.held /\ ui'.quit = ui.quit /\ ui'.connecting = ui.connecting
    /\ ui'.clearing = ui.clearing /\ ui'.session = ui.session /\ ui'.generation = ui.generation

LEMMA ShownConsistent ==
    ASSUME CInv, SameDuties, UNCHANGED runVars
    PROVE  KeyInv' /\ SessionInv' /\ SerialInv'
<1>1. UNCHANGED <<run, call, client, key, replies>>
    BY DEF runVars
<1>2. KeyInv'
    BY <1>1 DEF SameDuties, CInv, KeyInv, CallOwns, Refused, Active
<1>3. SessionInv'
    BY <1>1 DEF CInv, SessionInv
<1>4. SerialInv'
    BY <1>1 DEF SameDuties, CInv, SerialInv, Asked
<1> QED BY <1>2, <1>3, <1>4

LEMMA ReadConsistent ==
    ASSUME Typed, CInv, NEW reader \in readers, Read(reader)
    PROVE  CInv'
<1> DEFINE live == run.id = reader.session /\ run.phase # "ended"
<1>1. /\ readers' = readers \ {reader} /\ UNCHANGED <<call, client, key, replies, ui>>
      /\ run \in Runs
    BY DEF Read, Typed, ClientTyped
<1>2. RunGoesOn
    <2>1. CASE run' = [run EXCEPT !.news = {}]
        <3>1. /\ run'.phase = run.phase /\ run'.owns = run.owns /\ run'.stop = run.stop
              /\ run'.news = {}
            BY <1>1, <2>1 DEF Runs
        <3> QED BY <3>1 DEF RunGoesOn
    <2>2. CASE run' = run
        BY <2>2 DEF RunGoesOn, CInv, SessionInv
    <2> QED BY <2>1, <2>2 DEF Read
<1>3. PICK message : /\ inbox' = inbox \cup {message}
                     /\ message.generation = reader.generation /\ message.kind # "refused"
    <2> DEFINE Sent(message) == /\ inbox' = inbox \cup {message}
                                /\ message.generation = reader.generation
                                /\ message.kind # "refused"
    <2>1. ASSUME live PROVE \E message : Sent(message)
        <3>1. run.news # {} /\ \A u, v \in run.news : u = v
            BY <2>1 DEF Read, CInv, SessionInv
        <3>2. PICK u : run.news = {u}
            BY <3>1
        <3> DEFINE m == [kind |-> "update", generation |-> reader.generation, update |-> u]
        <3>3. inbox' = inbox \cup {m}
            BY <2>1, <3>2 DEF Read
        <3>4. m.generation = reader.generation /\ m.kind # "refused"
            OBVIOUS
        <3> HIDE DEF m
        <3> QED BY <3>3, <3>4
    <2>2. ASSUME ~live PROVE \E message : Sent(message)
        <3> DEFINE m == [kind |-> "closed", generation |-> reader.generation]
        <3>1. inbox' = inbox \cup {m}
            BY <2>2 DEF Read
        <3>2. m.generation = reader.generation /\ m.kind # "refused"
            OBVIOUS
        <3> HIDE DEF m
        <3> QED BY <3>1, <3>2
    <2> QED BY <2>1, <2>2
<1>4. WaitInv'
    <2>1. \A m \in inbox' : m.kind = "refused" \/ m.generation <= ui.generation
        BY <1>3 DEF CInv, WaitInv
    <2>2. \A r \in readers' : r.generation <= ui.generation
        BY <1>1 DEF CInv, WaitInv
    <2>3. CASE reader.generation = ui.generation
        <3>1. reader \in Awaiting
            BY <2>3 DEF Awaiting
        <3>2. Awaiting = {reader} /\ Arriving = {} /\ ui.session # 0
            BY <3>1 DEF CInv, WaitInv
        <3>3. Awaiting' = {} /\ Arriving' \subseteq {message}
            BY <1>1, <1>3, <3>2 DEF Awaiting, Arriving
        <3> QED BY <1>1, <2>1, <2>2, <3>2, <3>3 DEF WaitInv
    <2>4. CASE reader.generation # ui.generation
        <3>1. Awaiting' = Awaiting /\ Arriving' = Arriving
            BY <1>1, <1>3, <2>4 DEF Awaiting, Arriving
        <3> QED BY <1>1, <2>1, <2>2, <3>1 DEF CInv, WaitInv
    <2> QED BY <2>3, <2>4
<1> QED BY <1>1, <1>2, <1>4, RunStepsKeep DEF CInv

LEMMA MessageConsistent ==
    ASSUME Typed, CInv, NEW message \in inbox, HandleMessage(message)
    PROVE  CInv'
<1>1. inbox' = inbox \ {message} /\ UNCHANGED runVars
    BY DEF HandleMessage, keepClient
<1>2. SameDuties
    <2>2. ui \in Models
        BY DEF Typed, InterfaceTyped
    <2>3. CASE ui' = ui
        BY <2>3 DEF SameDuties
    <2>4. CASE ui' = [ui EXCEPT !.stopped = TRUE]
        BY <2>2, <2>4 DEF SameDuties, Models
    <2>5. CASE ui' = Updated(message.update)
        BY <2>2, <2>5 DEF SameDuties, Models, Updated
    <2> QED BY <2>3, <2>4, <2>5 DEF HandleMessage
<1>3. /\ \A m \in inbox' : m.kind = "refused" \/ m.generation <= ui.generation
      /\ ui.generation \in Nat
    BY <1>1 DEF CInv, WaitInv, Typed, InterfaceTyped, Models
<1>4. Arriving' \subseteq Arriving
    BY <1>1, <1>2 DEF Arriving, SameDuties
<1>5. CASE readers' = readers
    <2>1. Awaiting' = Awaiting
        BY <1>2, <1>5 DEF Awaiting, SameDuties
    <2>2. WaitInv'
        BY <1>2, <1>3, <1>4, <1>5, <2>1 DEF CInv, WaitInv, SameDuties
    <2> QED BY <1>1, <1>2, <2>2, ShownConsistent DEF CInv
<1>6. CASE /\ message.generation = ui.generation /\ message.kind = "update"
           /\ readers' = readers \cup {Reader(ui.session, ui.generation)}
    <2>1. message \in Arriving
        BY <1>6 DEF Arriving
    <2>2. Arriving = {message} /\ Awaiting = {} /\ ui.session # 0
        BY <2>1 DEF CInv, WaitInv
    <2>3. Arriving' = {}
        BY <1>1, <1>4, <2>2 DEF Arriving
    <2>4. Awaiting' \subseteq {Reader(ui.session, ui.generation)}
        BY <1>2, <1>6, <2>2 DEF Awaiting, SameDuties
    <2>5. \A r \in readers' : r.generation <= ui.generation
        BY <1>3, <1>6 DEF CInv, WaitInv, Reader
    <2>6. WaitInv'
        BY <1>2, <1>3, <2>2, <2>3, <2>4, <2>5 DEF WaitInv, SameDuties
    <2> QED BY <1>1, <1>2, <2>6, ShownConsistent DEF CInv
<1> QED BY <1>5, <1>6 DEF HandleMessage

LEMMA NextConsistent ==
    ASSUME Typed, MInv, CInv, [Next]_vars
    PROVE  CInv'
<1>1. CASE (DriverSteps \/ Poll(InputWaits) \/ Settle) /\ UNCHANGED uiVars
    <2>1. UNCHANGED <<ui, readers, inbox>> /\ WaitInv'
        BY <1>1, StillWaiting DEF uiVars, CInv
    <2> QED BY <1>1, <2>1, RunStepsGoOn, RunStepsKeep DEF CInv
<1>2. CASE (EndRun \/ CallSteps) /\ UNCHANGED uiVars
    BY <1>2, EndRunConsistent, CallStepsConsistent
<1>3. CASE UserStep
    <2>1. ASSUME NEW kind, Submit(kind) PROVE CInv'
        <3>1. SameDuties
            BY <2>1 DEF Submit, SameDuties, Typed, InterfaceTyped, Models
        <3>2. WaitInv'
            BY <2>1, <3>1, StillWaiting DEF Submit, CInv, SameDuties
        <3> QED BY <2>1, <3>1, <3>2, ShownConsistent DEF Submit, keepClient, CInv
    <2> QED BY <1>3, <2>1, ImportConsistent, RemovalConsistent, ProcessConsistent DEF UserStep
<1>4. CASE InterfaceStep
    <2>1. ASSUME NEW i \in 1..Len(commands), Take(i) PROVE CInv'
        <3>1. commands[i].kind \in {"new", "setup", "act"}
            BY <2>1, CommandsTyped DEF Take
        <3>2. UNCHANGED <<ui, readers, inbox>> /\ WaitInv'
            BY <2>1, StillWaiting DEF Take, CInv
        <3>3. NextGame \/ \E request \in {"setup", "act"} : TakeInput(request)
            BY <2>1, <3>1 DEF Take
        <3> QED BY <3>2, <3>3, RunStepsGoOn, RunStepsKeep DEF CInv
    <2>2. ASSUME NEW i \in 1..Len(commands), GiveUp(i) PROVE CInv'
        <3>1. /\ SameDuties /\ UNCHANGED <<runVars, ui, readers>>
              /\ inbox' = inbox \cup {[kind |-> "refused", generation |-> commands[i].generation]}
            BY <2>2 DEF GiveUp, SameDuties, keepClient
        <3>2. Awaiting' = Awaiting /\ Arriving' = Arriving
            BY <3>1 DEF Awaiting, Arriving
        <3>3. WaitInv'
            BY <3>1, <3>2 DEF CInv, WaitInv
        <3> QED BY <3>1, <3>3, ShownConsistent DEF CInv
    <2> QED BY <1>4, <2>1, <2>2, ReplyHandled, ReadConsistent, MessageConsistent DEF InterfaceStep
<1>5. CASE Restart
    BY <1>5, ProcessConsistent
<1>6. CASE UNCHANGED vars
    <2>1. SameDuties /\ UNCHANGED <<runVars, ui, readers, inbox>>
        BY <1>6 DEF vars, uiVars, SameDuties
    <2> QED BY <2>1, ShownConsistent, StillWaiting DEF CInv
<1> QED BY <1>1, <1>2, <1>3, <1>4, <1>5, <1>6 DEF Next

LEMMA AtMostOne ==
    ASSUME NEW S, \A x, y \in S : x = y
    PROVE  Cardinality(S) \in {0, 1} /\ (S = {} => Cardinality(S) = 0)
<1>1. CASE S = {}
    BY <1>1, FS_EmptySet
<1>2. CASE S # {}
    <2>1. PICK x : S = {x}
        BY <1>2
    <2> QED BY <2>1, FS_Singleton
<1> QED BY <1>1, <1>2

LEMMA ConsistencyFollows ==
    ASSUME Typed, MInv, CInv
    PROVE  InterfaceIsConsistent
<1>1. KeyHasOneOwner
    <2>1. key = "live" <=> KeyOwners # {}
        BY DEF CInv, KeyInv, KeyOwners, CallOwns, Refused
    <2>2. \A x, y \in KeyOwners : x = y
        BY DEF CInv, KeyInv, KeyOwners, CallOwns, Refused
    <2>3. Cardinality(KeyOwners) <= 1
        BY <2>2, AtMostOne
    <2>4. Active => key = "live"
        BY DEF CInv, KeyInv
    <2> QED BY <2>1, <2>3, <2>4 DEF KeyHasOneOwner, Active
<1>2. CallsAreSerial
    <2>1. ~ui.quit => (Expects <=> call # NoCall \/ replies # {})
        <3>1. Asked({"open"}) \/ Asked({"clear", "abort"}) <=> call # NoCall \/ replies # {}
            BY DEF CInv, SerialInv, Asked, NoCall, Typed, ClientTyped, Ops
        <3> QED BY <3>1 DEF CInv, SerialInv, Expects
    <2>2. Cardinality(Awaiting) + Cardinality(Arriving) <= 1
        BY AtMostOne DEF CInv, WaitInv
    <2> QED BY <2>1, <2>2 DEF CallsAreSerial, Awaiting, Arriving
<1> QED BY <1>1, <1>2, GamesAreReadable DEF InterfaceIsConsistent

\* The identity key has one owner while it is live and is never used destroyed, what
\* the interface read of the storage stays a log it can parse, and the interface has
\* one call and one awaited update at a time (src/internal/client/game.go, src/internal/ui/game.go).
THEOREM Consistency == Spec => []InterfaceIsConsistent
<1>1. Init => CInv
    BY InitConsistent
<1>2. Typed /\ MInv /\ CInv /\ [Next]_vars => CInv'
    BY NextConsistent
<1>3. Typed /\ MInv /\ CInv => InterfaceIsConsistent
    BY ConsistencyFollows
<1> QED BY <1>1, <1>2, <1>3, Legality, PTL DEF Spec

(***************************************************************************)
(* The invariant behind InputsMeetTheirPosition.  A choice that the        *)
(* interface shows, or that is on its way to it, is of the game that runs  *)
(* and no further behind it than the updates that are under way: a run     *)
(* waits for its update to be read before it tells the next one, and its   *)
(* next game for the last.  An input that waits was chosen in the position *)
(* that may still take it, or the run has passed that position for good.   *)
(***************************************************************************)
Playing == run.phase \in {"driving", "terminal"}
Pending == {commands[i] : i \in 1..Len(commands)}
Coming == {m \in inbox : m.kind = "update" /\ m.generation = ui.generation}
One(S) == IF S = {} THEN 0 ELSE 1

\* The snapshot u was taken where the run r over the log s waited for its user.
Position(r, s, u) ==
    /\ u.game = r.game /\ u.events \in 1..(Len(s) - r.offset)
    /\ \/ u.stage = "Init" /\ u.events = 1 /\ s[r.offset + 1] = "Configured"
       \/ /\ u.stage = "Hand" /\ s[r.offset + u.events] = "Deposit"
          /\ Len(s) > r.offset + u.events => s[Len(s)] # "Deposit"

\* The updates that the run has told since.
Behind(r, s, u) == Len(s) - r.offset - u.events + (IF r.phase = "terminal" THEN 1 ELSE 0)
Fits(r, s, u, n) == u.choice => Position(r, s, u) /\ Behind(r, s, u) <= n

ShowInv ==
    /\ Playing => \A u \in run.news : Fits(run, seen, u, 0)
    /\ Playing /\ ui.session = run.id /\ ui.session # 0 =>
          /\ \A m \in Coming : Fits(run, seen, m.update, One(run.news))
          /\ Fits(run, seen, ui.shows, One(run.news) + One(Coming))
    /\ run.phase = "driving" /\ run.polled => run.news = {}
    /\ ~ui.held \/ ui.connecting => ~ui.shows.choice

\* Sessions of a process are numbered, and a goroutine that waits for the session that
\* is followed does so for the interface as it is now.
FollowInv ==
    /\ \A r \in readers :
          /\ r.session <= count.sessions
          /\ r.generation = ui.generation => r.session = ui.session
          /\ ui.session # 0 /\ r.session = ui.session => r.generation = ui.generation
    /\ \A q \in replies :
          /\ q.session <= count.sessions
          /\ q.session # 0 => \A r \in readers : r.session # q.session
    /\ \A c \in Pending : c.session <= count.sessions
    /\ ui.session <= count.sessions
    /\ ui.quit => ui.session = 0

SetupFits(r, s, c) ==
    /\ r.phase = "driving" /\ c.shows.stage = "Init" /\ Position(r, s, c.shows)
    /\ r.polled => Len(s) - r.offset <= 2
ActFits(r, s, c) ==
    \/ c.shows.stage = "Hand" /\ Position(r, s, c.shows)
    \/ /\ r.phase = "driving"
       /\ \/ Len(s) = r.offset
          \/ ~r.polled /\ s[Len(s)] # "Deposit"
InputFits(r, s, c) ==
    /\ c.kind = "setup" => SetupFits(r, s, c)
    /\ c.kind = "act" => ActFits(r, s, c)
InputInv == Playing => \A c \in Pending : c.session = run.id => InputFits(run, seen, c)

PInv == ShowInv /\ FollowInv /\ InputInv

\* A game that is over has at least three records.
LEMMA GamesTakeThree ==
    ASSUME NEW s, Legal(s), NEW o \in Nat, o + 1 <= Len(s), s[o + 1] = "Configured",
           EndsIn(s, {"SetupAborted", "Result"})
    PROVE  Len(s) - o >= 3
<1>1. Len(s) \in Nat /\ o + 1 # Len(s)
    BY DEF Legal, EndsIn
<1>2. CASE Len(s) = o + 2
    <2>1. o + 1 \in 1..(Len(s) - 1) /\ (o + 1) + 1 = Len(s)
        BY <1>1, <1>2
    <2>2. <<s[o + 1], s[Len(s)]>> \in Successions
        BY <2>1 DEF Legal
    <2> QED BY <2>2 DEF EndsIn, Successions
<1> QED BY <1>1, <1>2

(***************************************************************************)
(* The ways in which a run goes on.                                        *)
(***************************************************************************)
SameRun ==
    /\ run'.phase = run.phase /\ run'.offset = run.offset /\ run'.game = run.game
    /\ run'.polled = run.polled /\ run'.news = run.news /\ seen' = seen

SameGame == run'.offset = run.offset /\ run'.game = run.game
Tells(phase) ==
    /\ SameGame /\ run.phase = "driving" /\ run.news = {} /\ run'.phase = phase

\* It repeats its snapshot, or rejects an input.
Told ==
    /\ Tells("driving") /\ ~run'.polled /\ seen' = seen
    /\ \A v \in run'.news : Fits(run, seen, v, 0)

\* It journals an event.
Grown ==
    /\ Tells("driving") /\ ~run'.polled
    /\ \A v \in run'.news : ~v.choice
    /\ run'.news # {}
    /\ \E kind \in Kinds :
          /\ seen' = Append(seen, kind)
          /\ kind = "Deposit" =>
                /\ run.polled /\ Len(seen) # run.offset
                /\ \A i \in 1..(Len(seen) - run.offset) : seen[run.offset + i] # "Deposit"

\* It returns with an outcome.
Over ==
    /\ Tells("terminal") /\ seen' = seen
    /\ \A v \in run'.news : ~v.choice
    /\ run'.news # {}
    /\ run.polled /\ Len(seen) # run.offset /\ EndsIn(seen, {"SetupAborted", "Result"})

\* It starts the next game.
Begun ==
    /\ run.phase = "terminal" /\ run.news = {} /\ run'.phase = "driving" /\ run'.news = {}
    /\ run'.offset = Len(seen) /\ seen' = seen
    /\ EndsIn(seen, {"SetupAborted", "Result"})

\* It finds no input.
Polled ==
    /\ Tells("driving") /\ run'.polled /\ run'.news = run.news /\ seen' = seen /\ ~InputWaits

GoesOn == SameRun \/ Told \/ Grown \/ Over \/ Begun \/ Polled
Continues == ~Playing' \/ (GoesOn /\ run'.id = run.id)

\* The records of a run's game.
LEMMA RunsGame ==
    ASSUME ClientTyped, MInv, run.phase = "driving"
    PROVE  /\ Legal(seen) /\ seen \in Seq(Kinds) /\ Len(seen) \in Nat /\ run.offset \in Nat
           /\ run.offset <= Len(seen)
           /\ Len(Game) = Len(seen) - run.offset
           /\ Game = <<>> <=> Len(seen) = run.offset
           /\ Game # <<>> => Last(Game) = seen[Len(seen)]
           /\ \A i \in 1..(Len(seen) - run.offset) : Game[i] = seen[run.offset + i]
<1>1. /\ Legal(seen) /\ seen \in Seq(Kinds) /\ Len(seen) \in Nat /\ run.offset \in Nat
    BY DEF MInv, LogInv, ClientTyped, Runs
<1>2. CASE Game = <<>> /\ run.offset = Len(seen)
    BY <1>1, <1>2
<1>3. CASE Game # <<>> /\ run.offset < Len(seen)
    <2>1. run.offset \in 0..(Len(seen) - 1)
        BY <1>1, <1>3
    <2>2. /\ Len(Game) = Len(seen) - run.offset /\ Last(Game) = seen[Len(seen)]
          /\ \A i \in 1..Len(Game) : Game[i] = seen[run.offset + i]
        BY <1>1, <2>1, GameOfLog DEF Game
    <2> QED BY <1>1, <1>3, <2>1, <2>2
<1> QED BY <1>2, <1>3, DrivenGame

LEMMA SnapshotFits ==
    ASSUME ClientTyped, MInv, run.phase = "driving"
    PROVE  Fits(run, seen, Snapshot(Game, Chooses(Game)), 0)
<1> DEFINE u == Snapshot(Game, Chooses(Game))
<1>1. u.game = run.game /\ u.events = Len(Game) /\ u.stage = StageShown(Game)
      /\ (u.choice => Chooses(Game))
    BY DEF Snapshot
<1> HIDE DEF u
<1>2. ASSUME Game = <<"Configured">> PROVE Position(run, seen, u) /\ Behind(run, seen, u) <= 0
    <2>1. Len(Game) = 1 /\ Game[1] = "Configured"
        BY <1>2
    <2>2. Len(seen) - run.offset = 1 /\ seen[run.offset + 1] = "Configured"
        BY <2>1, RunsGame
    <2>3. StageShown(Game) = "Init"
        <3>1. ~Terminal(Game)
            BY <2>1 DEF Terminal, Ends, Last
        <3>2. ~Holds(Game, "Deposit") /\ ~Holds(Game, "Setup")
            BY <2>1 DEF Holds
        <3> QED BY <3>1, <3>2 DEF StageShown
    <2> QED BY <1>1, <2>1, <2>2, <2>3, RunsGame DEF Position, Behind
<1>3. ASSUME Ends(Game, {"Deposit"}) PROVE Position(run, seen, u) /\ Behind(run, seen, u) <= 0
    <2>1. /\ Game # <<>> /\ Last(Game) = "Deposit" /\ seen[Len(seen)] = "Deposit"
          /\ Len(Game) = Len(seen) - run.offset /\ Len(Game) > 0 /\ Len(Game) \in Nat
        BY <1>3, RunsGame DEF Ends
    <2>2. Game[Len(Game)] = "Deposit"
        BY <2>1 DEF Last
    <2> DEFINE n == Len(Game)
    <2>3. n \in Nat /\ n > 0 /\ run.offset \in Nat /\ Len(seen) \in Nat /\ n = Len(seen) - run.offset
        BY <2>1, RunsGame
    <2> HIDE DEF n
    <2>4. n \in 1..n /\ run.offset + n = Len(seen) /\ n \in 1..(Len(seen) - run.offset)
        BY <2>3
    <2>5. StageShown(Game) = "Hand"
        <3>1. ~Terminal(Game)
            BY <2>1 DEF Terminal, Ends
        <3>2. Holds(Game, "Deposit")
            BY <2>2, <2>4 DEF Holds, n
        <3> QED BY <3>1, <3>2 DEF StageShown
    <2>6. u.events = n
        BY <1>1 DEF n
    <2>7. Position(run, seen, u)
        BY <1>1, <2>1, <2>5, <2>3, <2>4, <2>6 DEF Position
    <2>8. Behind(run, seen, u) <= 0
        BY <2>3, <2>6 DEF Behind
    <2> QED BY <2>7, <2>8
<1> QED BY <1>1, <1>2, <1>3 DEF Chooses, Fits, u

LEMMA RunFields ==
    ASSUME ClientTyped
    PROVE  /\ \A v : Tell(v) => /\ SameGame /\ run'.phase = run.phase /\ run'.id = run.id
                               /\ run'.news = {v} /\ ~run'.polled
           /\ Fail => run'.phase = "failed" /\ run'.id = run.id
    BY DEF ClientTyped, Runs, Tell, Fail, SameGame

LEMMA JournalGrows ==
    ASSUME ClientTyped, MInv, Driving, NEW kind \in Kinds, Journal(kind),
           kind = "Deposit" => run.polled /\ Game # <<>> /\ ~Holds(Game, "Deposit")
    PROVE  (~Playing' \/ Grown) /\ run'.id = run.id
<1>1. CASE /\ seen' = Append(seen, kind) /\ Tell(Snapshot(Append(Game, kind), FALSE))
    <2>1. /\ SameGame /\ run'.phase = "driving" /\ run'.id = run.id /\ ~run'.polled
          /\ run'.news = {Snapshot(Append(Game, kind), FALSE)}
        BY <1>1, RunFields DEF Driving
    <2>2. \A v \in run'.news : ~v.choice
        BY <2>1 DEF Snapshot
    <2>3. ASSUME kind = "Deposit"
          PROVE  /\ run.polled /\ Len(seen) # run.offset
                 /\ \A i \in 1..(Len(seen) - run.offset) : seen[run.offset + i] # "Deposit"
        BY <2>3, RunsGame DEF Holds, Driving
    <2> QED BY <1>1, <2>1, <2>2, <2>3 DEF Grown, Tells, Driving
<1>2. CASE Fail
    BY <1>2, RunFields DEF Playing
<1> QED BY <1>1, <1>2 DEF Journal

LEMMA RunStepsGoSomehow ==
    ASSUME Typed, MInv, \/ DriverSteps \/ Poll(InputWaits) \/ Settle \/ NextGame
                       \/ \E request \in {"setup", "act"} : TakeInput(request)
    PROVE  Continues /\ count'.sessions = count.sessions
<1>1. ClientTyped /\ run \in Runs /\ count \in [sessions : Nat, failures : Nat]
    BY DEF Typed, ClientTyped
<1>2. count'.sessions = count.sessions
    <2>1. UNCHANGED count \/ Failed
        BY DEF DriverSteps, DriverStep, Emit, Send, Return, Poll, Settle, NextGame, TakeInput,
               Journal, Fail
    <2> QED BY <1>1, <2>1 DEF Failed
<1>3. CASE DriverStep
    <2>1. PICK kind \in Follows(Game) : Journal(kind)
        BY <1>3 DEF DriverStep
    <2>2. kind \in Kinds
        BY FollowingKinds
    <2>3. Driving /\ run.polled
        BY <1>3 DEF DriverStep, Working
    <2>4. kind = "Deposit" => Game # <<>> /\ ~Holds(Game, "Deposit")
        BY DEF Follows
    <2> QED BY <1>1, <1>2, <2>1, <2>2, <2>3, <2>4, JournalGrows DEF GoesOn, Continues
<1>4. CASE Emit
    <2>1. Driving /\ Tell(Snapshot(Game, Chooses(Game))) /\ seen' = seen
        BY <1>4 DEF Emit, Working, keepLog, logVars
    <2>2. Fits(run, seen, Snapshot(Game, Chooses(Game)), 0)
        BY <1>1, <2>1, SnapshotFits DEF Driving
    <2>3. Told /\ run'.id = run.id
        BY <1>1, <2>1, <2>2, RunFields DEF Told, Tells, Driving
    <2> QED BY <1>2, <2>3 DEF GoesOn, Continues
<1>5. CASE Send \/ Settle
    BY <1>2, <1>5 DEF Send, Settle, keepLog, logVars, GoesOn, SameRun, Continues
<1>6. CASE Return
    <2>1. CASE Fail
        BY <1>1, <1>2, <2>1, RunFields DEF Playing, Continues
    <2>2. CASE ~Fail
        <3>1. /\ run' = [run EXCEPT !.phase = "terminal", !.news = {Snapshot(Game, FALSE)}]
              /\ Terminal(Game) /\ Driving /\ run.polled /\ seen' = seen
            BY <1>6, <2>2 DEF Return, Working, keepLog, logVars
        <3>2. /\ run'.phase = "terminal" /\ run'.news = {Snapshot(Game, FALSE)} /\ run'.id = run.id
              /\ SameGame
            BY <1>1, <3>1 DEF Runs, SameGame
        <3>3. \A v \in run'.news : ~v.choice
            BY <3>2 DEF Snapshot
        <3>4. Game # <<>> /\ Last(Game) \in {"SetupAborted", "Result"}
            BY <3>1 DEF Terminal, Ends
        <3>5. Len(seen) # run.offset /\ EndsIn(seen, {"SetupAborted", "Result"})
            BY <1>1, <3>1, <3>4, RunsGame DEF Driving, EndsIn
        <3> QED BY <1>2, <3>1, <3>2, <3>3, <3>5 DEF GoesOn, Over, Tells, Driving, Continues
    <2> QED BY <2>1, <2>2
<1>7. CASE Poll(InputWaits)
    <2>1. /\ run'.phase = run.phase /\ SameGame /\ run'.id = run.id /\ run'.polled
          /\ run'.news = run.news /\ seen' = seen /\ ~InputWaits /\ Driving
        BY <1>1, <1>7 DEF Poll, Runs, SameGame, keepLog, logVars
    <2> QED BY <1>2, <2>1 DEF GoesOn, Polled, Tells, Driving, Continues
<1>8. CASE NextGame
    <2>1. CASE Fail
        BY <1>1, <1>2, <2>1, RunFields DEF Playing, Continues
    <2>2. CASE ~Fail
        <3>1. /\ run' = [run EXCEPT !.phase = "driving", !.offset = Len(seen), !.game = @ + 1,
                                    !.polled = TRUE]
              /\ run.phase = "terminal" /\ run.news = {} /\ seen' = seen
            BY <1>8, <2>2 DEF NextGame, keepLog, logVars
        <3>2. /\ run'.phase = "driving" /\ run'.offset = Len(seen) /\ run'.id = run.id
              /\ run'.news = {}
            BY <1>1, <3>1 DEF Runs
        <3> QED BY <1>2, <3>1, <3>2 DEF GoesOn, Begun, MInv, RunInv, Continues
    <2> QED BY <2>1, <2>2
<1>9. ASSUME NEW request \in {"setup", "act"}, TakeInput(request)
      PROVE  Continues
    <2>1. Driving
        BY <1>9 DEF TakeInput
    <2>2. CASE Serves(request)
        <3>1. Journal(IF request = "setup" THEN "Setup" ELSE "Spend")
            BY <1>9, <2>2 DEF TakeInput
        <3>2. (IF request = "setup" THEN "Setup" ELSE "Spend") \in Kinds \ {"Deposit"}
            BY DEF Kinds
        <3> QED BY <1>1, <2>1, <3>1, <3>2, JournalGrows DEF GoesOn, Continues
    <2>3. CASE ~Serves(request)
        <3>1. Tell(ErrorUpdate("rejected")) /\ seen' = seen
            BY <1>9, <2>3 DEF TakeInput, keepLog, logVars
        <3>2. ~ErrorUpdate("rejected").choice
            BY DEF ErrorUpdate, Snapshot
        <3>3. Told /\ run'.id = run.id
            BY <1>1, <2>1, <3>1, <3>2, RunFields DEF Told, Tells, Driving, Fits
        <3> QED BY <3>3 DEF GoesOn, Continues
    <2> QED BY <2>2, <2>3
<1> QED BY <1>2, <1>3, <1>4, <1>5, <1>6, <1>7, <1>8, <1>9 DEF DriverSteps

LEMMA PositionKept ==
    ASSUME ClientTyped, NEW u, Position(run, seen, u), SameRun \/ Told \/ Grown \/ Over \/ Polled
    PROVE  Position(run', seen', u)
<1>1. /\ seen \in Seq(Kinds) /\ Len(seen) \in Nat /\ run.offset \in Nat
      /\ run'.offset = run.offset /\ run'.game = run.game
    BY DEF ClientTyped, Runs, SameRun, Told, Grown, Over, Polled, Tells, SameGame
<1>2. CASE seen' = seen
    BY <1>1, <1>2 DEF Position
<1>3. CASE Grown
    <2>1. PICK kind \in Kinds :
              /\ seen' = Append(seen, kind)
              /\ kind = "Deposit" =>
                    \A i \in 1..(Len(seen) - run.offset) : seen[run.offset + i] # "Deposit"
        BY <1>3 DEF Grown
    <2>2. /\ Len(seen') = Len(seen) + 1 /\ seen'[Len(seen')] = kind
          /\ \A i \in 1..Len(seen) : seen'[i] = seen[i]
        BY <1>1, <2>1
    <2>3. u.events \in 1..(Len(seen) - run.offset) /\ u.game = run.game
        BY DEF Position
    <2>4. /\ u.events \in 1..(Len(seen') - run.offset)
          /\ run.offset + u.events \in 1..Len(seen) /\ run.offset + 1 \in 1..Len(seen)
        BY <1>1, <2>2, <2>3
    <2>5. CASE u.stage = "Init" /\ u.events = 1 /\ seen[run.offset + 1] = "Configured"
        BY <1>1, <2>2, <2>3, <2>4, <2>5 DEF Position
    <2>6. CASE u.stage = "Hand" /\ seen[run.offset + u.events] = "Deposit"
        <3>1. kind # "Deposit"
            BY <2>1, <2>3, <2>6
        <3>2. seen'[run.offset + u.events] = "Deposit"
            BY <2>2, <2>4, <2>6
        <3> QED BY <1>1, <2>2, <2>3, <2>4, <2>6, <3>1, <3>2 DEF Position
    <2> QED BY <2>5, <2>6 DEF Position
<1> QED BY <1>2, <1>3 DEF SameRun, Told, Over, Polled

\* Each step takes a choice back by no more than the update that it tells, and the next
\* game begins when none is to be seen.
LEMMA FitsKept ==
    ASSUME ClientTyped, NEW u, NEW n \in Nat, NEW m \in Nat, Fits(run, seen, u, n)
    PROVE  /\ (SameRun \/ Told \/ Polled) /\ n <= m => Fits(run', seen', u, m)
           /\ (Grown \/ Over) /\ n + 1 <= m => Fits(run', seen', u, m)
           /\ Begun /\ n <= 1 => ~u.choice
<1>1. /\ seen \in Seq(Kinds) /\ Len(seen) \in Nat /\ run.offset \in Nat
    BY DEF ClientTyped, Runs
<1>2. ASSUME u.choice
      PROVE  /\ Position(run, seen, u) /\ Behind(run, seen, u) <= n
             /\ u.events \in 1..(Len(seen) - run.offset)
    BY <1>2 DEF Fits, Position
<1>3. ASSUME u.choice, SameRun \/ Told \/ Polled, n <= m PROVE Fits(run', seen', u, m)
    <2>1. Position(run', seen', u)
        BY <1>2, <1>3, PositionKept
    <2>2. run'.phase = run.phase /\ run'.offset = run.offset /\ seen' = seen
        BY <1>3 DEF SameRun, Told, Polled, Tells, SameGame
    <2>3. Behind(run', seen', u) = Behind(run, seen, u)
        BY <2>2 DEF Behind
    <2>4. Behind(run, seen, u) \in Int
        <3>1. CASE run.phase = "terminal"
            BY <1>1, <1>2, <1>3, <3>1 DEF Behind
        <3>2. CASE run.phase # "terminal"
            BY <1>1, <1>2, <1>3, <3>2 DEF Behind
        <3> QED BY <3>1, <3>2
    <2> QED BY <1>2, <1>3, <2>1, <2>3, <2>4 DEF Fits
<1>4. ASSUME u.choice, Grown \/ Over, n + 1 <= m PROVE Fits(run', seen', u, m)
    <2>1. Position(run', seen', u)
        BY <1>2, <1>4, PositionKept
    <2>2. run.phase = "driving" /\ run'.offset = run.offset
        BY <1>4 DEF Grown, Over, Tells, SameGame
    <2>3. Len(seen) - run.offset - u.events <= n
        BY <1>1, <1>2, <1>4, <2>2 DEF Behind
    <2>4. CASE Grown
        <3>1. Len(seen') = Len(seen) + 1 /\ run'.phase = "driving"
            BY <1>1, <2>4 DEF Grown, Tells
        <3>2. Behind(run', seen', u) <= m
            BY <1>1, <1>2, <1>4, <2>2, <2>3, <3>1 DEF Behind
        <3> QED BY <2>1, <3>2 DEF Fits
    <2>5. CASE Over
        <3>1. seen' = seen /\ run'.phase = "terminal"
            BY <2>5 DEF Over, Tells
        <3>2. Behind(run', seen', u) <= m
            BY <1>1, <1>2, <1>4, <2>2, <2>3, <3>1 DEF Behind
        <3> QED BY <2>1, <3>2 DEF Fits
    <2> QED BY <1>4, <2>4, <2>5
<1>5. ASSUME u.choice, Begun, n <= 1 PROVE FALSE
    <2>1. run.phase = "terminal" /\ EndsIn(seen, {"SetupAborted", "Result"})
        BY <1>5 DEF Begun
    <2>2. run.offset + u.events # Len(seen)
        <3>1. seen[run.offset + u.events] \in {"Configured", "Deposit"}
            BY <1>2, <1>5 DEF Position
        <3>2. seen[Len(seen)] \in {"SetupAborted", "Result"}
            BY <2>1 DEF EndsIn
        <3> QED BY <3>1, <3>2
    <2>3. Len(seen) - run.offset - u.events + 1 <= n
        BY <1>2, <1>5, <2>1 DEF Behind
    <2> QED BY <1>1, <1>2, <1>5, <2>2, <2>3
<1> QED BY <1>3, <1>4, <1>5 DEF Fits

LEMMA ShownAfter ==
    ASSUME Typed, MInv, ShowInv, UNCHANGED <<ui, inbox>>, Continues
    PROVE  ShowInv'
<1>1. ClientTyped /\ Coming' = Coming
    BY DEF Typed, Coming
<1>2. CASE ~Playing'
    BY <1>2 DEF ShowInv, Playing
<1>3. CASE Playing' /\ GoesOn /\ run'.id = run.id
    <2>1. Playing
        BY <1>3 DEF Playing, GoesOn, SameRun, Told, Grown, Over, Begun, Polled, Tells
    <2>2. ASSUME NEW v \in run'.news PROVE Fits(run', seen', v, 0)
        <3>1. CASE SameRun \/ Polled
            <4>1. v \in run.news
                BY <3>1 DEF SameRun, Polled
            <4>2. Fits(run, seen, v, 0)
                BY <2>1, <4>1 DEF ShowInv
            <4> QED BY <1>1, <3>1, <4>2, FitsKept
        <3>2. CASE Told
            <4>1. Fits(run, seen, v, 0)
                BY <3>2 DEF Told
            <4> QED BY <1>1, <3>2, <4>1, FitsKept
        <3>3. CASE Grown \/ Over \/ Begun
            BY <3>3 DEF Grown, Over, Begun, Fits
        <3> QED BY <1>3, <3>1, <3>2, <3>3 DEF GoesOn
    <2>3. run'.phase = "driving" /\ run'.polled => run'.news = {}
        BY <1>3 DEF ShowInv, GoesOn, SameRun, Told, Grown, Over, Begun, Polled, Tells
    <2>4. ASSUME ui.session = run.id, ui.session # 0
          PROVE  /\ \A m \in Coming : Fits(run', seen', m.update, One(run'.news))
                 /\ Fits(run', seen', ui.shows, One(run'.news) + One(Coming))
        <3>1. /\ \A m \in Coming : Fits(run, seen, m.update, One(run.news))
              /\ Fits(run, seen, ui.shows, One(run.news) + One(Coming))
            BY <2>1, <2>4 DEF ShowInv
        <3>2. /\ One(run.news) \in {0, 1} /\ One(run'.news) \in {0, 1} /\ One(Coming) \in {0, 1}
              /\ run.news = {} => One(run.news) = 0
              /\ run'.news # {} => One(run'.news) = 1
              /\ Coming # {} => One(Coming) = 1
            BY DEF One
        <3>3. CASE SameRun \/ Told \/ Polled
            <4>1. One(run.news) <= One(run'.news)
                BY <3>2, <3>3 DEF SameRun, Told, Polled, Tells
            <4>2. One(run.news) + One(Coming) <= One(run'.news) + One(Coming)
                BY <3>2, <4>1
            <4>3. /\ One(run.news) \in Nat /\ One(run'.news) \in Nat
                  /\ One(run.news) + One(Coming) \in Nat /\ One(run'.news) + One(Coming) \in Nat
                BY <3>2
            <4> QED BY <1>1, <3>1, <3>3, <4>1, <4>2, <4>3, FitsKept
        <3>4. CASE Grown \/ Over
            <4>1. One(run.news) + 1 <= One(run'.news)
                BY <3>2, <3>4 DEF Grown, Over, Tells
            <4>2. (One(run.news) + One(Coming)) + 1 <= One(run'.news) + One(Coming)
                BY <3>2, <4>1
            <4>3. /\ One(run.news) \in Nat /\ One(run'.news) \in Nat
                  /\ One(run.news) + One(Coming) \in Nat /\ One(run'.news) + One(Coming) \in Nat
                BY <3>2
            <4> QED BY <1>1, <3>1, <3>4, <4>1, <4>2, <4>3, FitsKept
        <3>5. CASE Begun
            <4>1. One(run.news) = 0
                BY <3>2, <3>5 DEF Begun
            <4>2. /\ One(run.news) \in Nat /\ One(run.news) <= 1
                  /\ One(run.news) + One(Coming) \in Nat /\ One(run.news) + One(Coming) <= 1
                BY <3>2, <4>1
            <4>3. ~ui.shows.choice /\ \A m \in Coming : ~m.update.choice
                BY <1>1, <3>1, <3>5, <4>2, FitsKept
            <4> QED BY <4>3 DEF Fits
        <3> QED BY <1>3, <3>3, <3>4, <3>5 DEF GoesOn
    <2> QED BY <1>1, <1>3, <2>1, <2>2, <2>3, <2>4 DEF ShowInv
<1> QED BY <1>2, <1>3 DEF Continues

LEMMA InputAfter ==
    ASSUME Typed, MInv, InputInv, Pending' \subseteq Pending, Continues
    PROVE  InputInv'
<1>1. /\ ClientTyped /\ Legal(seen) /\ seen \in Seq(Kinds) /\ Len(seen) \in Nat
      /\ run.offset \in Nat
    BY DEF Typed, ClientTyped, Runs, MInv, LogInv
<1>2. ASSUME GoesOn, run'.id = run.id, Playing', NEW c \in Pending, c.session = run.id
      PROVE  InputFits(run', seen', c)
    <2>1. Playing /\ InputFits(run, seen, c)
        BY <1>2 DEF InputInv, Playing, GoesOn, SameRun, Told, Grown, Over, Begun, Polled, Tells
    <2>2. CASE Polled
        <3>1. c.kind = "new"
            BY <1>2, <2>2 DEF Polled, InputWaits, Pending
        <3> QED BY <3>1 DEF InputFits
    <2>3. ASSUME c.kind = "setup", ~Polled PROVE SetupFits(run', seen', c)
        <3>1. /\ run.phase = "driving" /\ c.shows.stage = "Init" /\ Position(run, seen, c.shows)
              /\ run.polled => Len(seen) - run.offset <= 2
            BY <2>1, <2>3 DEF InputFits, SetupFits
        <3>2. ~Over
            <4>1. seen[run.offset + 1] = "Configured" /\ 1 <= Len(seen) - run.offset
                BY <1>1, <3>1 DEF Position
            <4>2. EndsIn(seen, {"SetupAborted", "Result"}) => Len(seen) - run.offset >= 3
                BY <1>1, <4>1, GamesTakeThree
            <4> QED BY <1>1, <3>1, <4>2 DEF Over
        <3>3. SameRun \/ Told \/ Grown
            BY <1>2, <2>3, <3>1, <3>2 DEF GoesOn, Begun
        <3>4. Position(run', seen', c.shows)
            BY <1>1, <3>1, <3>3, PositionKept
        <3>5. run'.phase = "driving" /\ (run'.polled => Len(seen') - run'.offset <= 2)
            BY <3>1, <3>3 DEF SameRun, Told, Grown, Tells
        <3> QED BY <3>1, <3>4, <3>5 DEF SetupFits
    <2>4. ASSUME c.kind = "act", ~Polled PROVE ActFits(run', seen', c)
        <3>1. CASE Begun
            BY <3>1 DEF ActFits, Begun
        <3>2. CASE ~Begun /\ c.shows.stage = "Hand" /\ Position(run, seen, c.shows)
            <4>1. Position(run', seen', c.shows)
                BY <1>1, <1>2, <3>2, PositionKept DEF GoesOn
            <4> QED BY <3>2, <4>1 DEF ActFits
        <3>3. CASE ~Begun /\ run.phase = "driving" /\ Len(seen) = run.offset
            <4>1. CASE SameRun \/ Told
                BY <3>3, <4>1 DEF ActFits, SameRun, Told, Tells, SameGame
            <4>2. CASE Grown
                <5>1. PICK kind \in Kinds : seen' = Append(seen, kind) /\ kind # "Deposit"
                    BY <3>3, <4>2 DEF Grown
                <5>2. seen'[Len(seen')] = kind
                    BY <1>1, <5>1
                <5> QED BY <4>2, <5>1, <5>2 DEF ActFits, Grown, Tells
            <4> QED BY <1>2, <2>4, <3>3, <4>1, <4>2 DEF GoesOn, Over
        <3>4. CASE ~Begun /\ run.phase = "driving" /\ ~run.polled /\ seen[Len(seen)] # "Deposit"
            <4>1. CASE SameRun \/ Told
                BY <3>4, <4>1 DEF ActFits, SameRun, Told, Tells
            <4>2. CASE Grown
                <5>1. PICK kind \in Kinds : seen' = Append(seen, kind) /\ kind # "Deposit"
                    BY <3>4, <4>2 DEF Grown
                <5>2. seen'[Len(seen')] = kind
                    BY <1>1, <5>1
                <5> QED BY <4>2, <5>1, <5>2 DEF ActFits, Grown, Tells
            <4> QED BY <1>2, <2>4, <3>4, <4>1, <4>2 DEF GoesOn, Over
        <3> QED BY <2>1, <2>4, <3>1, <3>2, <3>3, <3>4 DEF InputFits, ActFits
    <2> QED BY <2>2, <2>3, <2>4 DEF InputFits
<1> QED BY <1>2 DEF InputInv, Continues

(***************************************************************************)
(* The other steps.                                                        *)
(***************************************************************************)
LEMMA FewerPending ==
    ASSUME Typed, NEW i \in 1..Len(commands), commands' = RemoveAt(commands, i)
    PROVE  Pending' \subseteq Pending
<1>1. commands \in Seq(Pending)
    <2>1. PICK n \in Nat : commands \in [1..n -> Submissions]
        BY SeqDef DEF Typed, InterfaceTyped
    <2>2. Len(commands) = n
        BY <2>1 DEF Typed, InterfaceTyped
    <2>3. commands \in [1..n -> Pending]
        BY <2>1, <2>2 DEF Pending
    <2> QED BY <2>3, SeqDef
<1>2. commands' \in Seq(Pending)
    BY <1>1, Removal
<1>3. \A j \in 1..Len(commands') : commands'[j] \in Pending
    BY <1>2
<1> QED BY <1>3 DEF Pending

\* What the interface does while the run stands still.
LEMMA ShownStill ==
    ASSUME ShowInv, SameRun, run'.id = run.id,
           ui'.session # 0 =>
               ui'.session = ui.session /\ ui'.shows = ui.shows /\ Coming' = Coming,
           ~ui'.held \/ ui'.connecting => ~ui'.shows.choice
    PROVE  ShowInv'
<1>1. \A u, n : Fits(run', seen', u, n) <=> Fits(run, seen, u, n)
    BY DEF SameRun, Fits, Position, Behind
<1>2. (Playing' <=> Playing) /\ run'.news = run.news /\ run'.phase = run.phase
      /\ run'.polled = run.polled
    BY DEF SameRun, Playing
<1> QED BY <1>1, <1>2 DEF ShowInv

LEMMA FollowStill ==
    ASSUME FollowInv, UNCHANGED <<ui, readers>>, count'.sessions = count.sessions,
           count.sessions \in Nat, Pending' \subseteq Pending,
           \A q \in replies' : q \in replies \/ q.session = 0
    PROVE  FollowInv'
BY DEF FollowInv

LEMMA SessionNumbers ==
    ASSUME Typed
    PROVE  /\ count.sessions \in Nat /\ ui.session \in Nat /\ ui.generation \in Nat
           /\ \A r \in readers : r.session \in Nat /\ r.generation \in Nat
           /\ \A q \in replies : q.session \in Nat
           /\ \A c \in Pending : c.session \in Nat
           /\ ui \in Models /\ run \in Runs
<1>1. \A c \in Pending : c.session \in Nat
    <2>1. \A i \in 1..Len(commands) : commands[i] \in Submissions
        BY DEF Typed, InterfaceTyped
    <2> QED BY <2>1 DEF Pending, Submissions
<1>2. /\ ui \in Models /\ run \in Runs /\ count \in [sessions : Nat, failures : Nat]
      /\ readers \subseteq [session : Nat, generation : Nat]
      /\ replies \subseteq [op : Ops, ok : BOOLEAN, session : Nat]
    BY DEF Typed, ClientTyped, InterfaceTyped
<1>3. ui.session \in Nat /\ ui.generation \in Nat
    BY <1>2 DEF Models
<1> QED BY <1>1, <1>2, <1>3

LEMMA NobodyFollows ==
    ASSUME CInv, FollowInv, call # NoCall \/ replies # {}, Typed
    PROVE  ui.session = 0
<1>1. ~ui.quit => Asked({"open"}) \/ Asked({"clear", "abort"})
    BY DEF CInv, SerialInv, Asked, NoCall, Typed, ClientTyped, Ops
<1> QED BY <1>1 DEF CInv, SerialInv, FollowInv

LEMMA StartFits ==
    ASSUME Typed, CInv, PInv, StartRun, call # NoCall, UNCHANGED uiVars
    PROVE  PInv'
<1>1. /\ run'.id = count.sessions + 1 /\ run'.news = {} /\ count'.sessions = count.sessions + 1
      /\ replies' = replies \cup {[op |-> call.op, ok |-> TRUE, session |-> run'.id]}
      /\ UNCHANGED <<ui, readers, inbox, commands>>
    BY DEF StartRun, Reply, NoRun, Typed, ClientTyped, uiVars
<1>2. ui.session = 0 /\ replies = {}
    BY NobodyFollows DEF PInv, CInv, SerialInv
<1>3. ShowInv'
    BY <1>1, <1>2 DEF PInv, ShowInv
<1>4. FollowInv'
    <2>1. Pending' = Pending
        BY <1>1 DEF Pending
    <2> QED BY <1>1, <1>2, <2>1, SessionNumbers DEF PInv, FollowInv
<1>5. InputInv'
    <2>1. Pending' = Pending
        BY <1>1 DEF Pending
    <2>2. \A c \in Pending : c.session # run'.id
        BY <1>1, SessionNumbers DEF PInv, FollowInv
    <2> QED BY <2>1, <2>2 DEF InputInv
<1> QED BY <1>3, <1>4, <1>5 DEF PInv

LEMMA RunFits ==
    ASSUME Typed, MInv, PInv, Continues, UNCHANGED <<ui, inbox, readers>>,
           Pending' \subseteq Pending, count'.sessions = count.sessions,
           \A q \in replies' : q \in replies \/ q.session = 0
    PROVE  PInv'
<1>1. ShowInv' /\ InputInv'
    BY ShownAfter, InputAfter DEF PInv
<1>2. FollowInv'
    BY FollowStill, SessionNumbers DEF PInv
<1> QED BY <1>1, <1>2 DEF PInv

\* A call that starts no run leaves the one there is as it was, or without a game.
LEMMA CallsGoOn ==
    ASSUME Typed, MInv, CallSteps \/ EndRun, ~StartRun
    PROVE  /\ Continues /\ count'.sessions = count.sessions
           /\ \A q \in replies' : q \in replies \/ q.session = 0
<1>1. run \in Runs /\ call \in Calls /\ count \in [sessions : Nat, failures : Nat]
    BY DEF Typed, ClientTyped
<1>2. ASSUME run' = run, seen' = seen \/ ~Playing PROVE Continues
    BY <1>2 DEF Continues, GoesOn, SameRun, Playing
<1>3. ASSUME Refuse PROVE Continues /\ \A q \in replies' : q \in replies \/ q.session = 0
    BY <1>2, <1>3 DEF Refuse, Reply, keepLog, logVars
<1>4. ASSUME UNCHANGED count \/ Failed PROVE count'.sessions = count.sessions
    BY <1>1, <1>4 DEF Failed
<1>5. CASE OpenSession
    BY <1>3, <1>4, <1>5 DEF OpenSession
<1>6. CASE BeginClear
    <2>1. CASE client.closed
        BY <1>3, <1>4, <1>6, <2>1 DEF BeginClear
    <2>2. CASE ~client.closed
        <3>1. /\ SameRun /\ run'.id = run.id /\ UNCHANGED <<count, replies>>
            BY <1>1, <1>6, <2>2 DEF BeginClear, SameRun, Runs, keepLog, logVars
        <3> QED BY <3>1 DEF Continues, GoesOn
    <2> QED BY <2>1, <2>2
<1>7. CASE JoinRun
    BY <1>7 DEF JoinRun, NoRun, Continues, Playing
<1>8. CASE CheckUnfunded
    <2>1. CASE Refuse
        BY <1>3, <1>4, <1>8, <2>1 DEF CheckUnfunded
    <2>2. CASE ~Refuse
        BY <1>2, <1>8, <2>2 DEF CheckUnfunded, keepLog, logVars
    <2> QED BY <2>1, <2>2
<1>9. CASE EraseLog
    <2>1. run' = run /\ ~Playing
        BY <1>9 DEF EraseLog, MInv, CallInv, Playing
    <2>2. UNCHANGED count \/ Failed
        BY <1>9 DEF EraseLog
    <2>3. \A q \in replies' : q \in replies \/ q.session = 0
        BY <1>9 DEF EraseLog, Reply
    <2> QED BY <1>2, <1>4, <2>1, <2>2, <2>3
<1>10. CASE Reopen
    <2>1. CASE Refuse
        BY <1>3, <1>4, <1>10, <2>1 DEF Reopen
    <2>2. CASE ~Refuse
        BY <1>2, <1>10, <2>2 DEF Reopen, Reply, keepLog, logVars
    <2> QED BY <2>1, <2>2
<1>11. CASE EndRun
    <2>1. run'.phase = "ended" /\ UNCHANGED <<count, replies>>
        BY <1>1, <1>11 DEF EndRun, Runs
    <2> QED BY <2>1 DEF Continues, Playing
<1> QED BY <1>5, <1>6, <1>7, <1>8, <1>9, <1>10, <1>11 DEF CallSteps

LEMMA SubmissionFits ==
    ASSUME Typed, MInv, CInv, PInv, NEW kind \in {"setup", "act", "new"}, Submit(kind)
    PROVE  PInv'
<1> DEFINE c == [kind |-> kind, session |-> ui.session, generation |-> ui.generation,
                 shows |-> ui.shows]
<1>1. /\ ui.session # 0 /\ commands' = Append(commands, c) /\ commands \in Seq(Submissions)
      /\ UNCHANGED <<readers, inbox, run, seen, replies, count>>
      /\ ui' = [ui EXCEPT !.busy = TRUE] /\ Offered(kind)
    BY DEF Submit, keepClient, logVars, runVars, Typed, InterfaceTyped
<1>2. /\ ui'.session = ui.session /\ ui'.shows = ui.shows /\ ui'.generation = ui.generation
      /\ ui'.held = ui.held /\ ui'.connecting = ui.connecting /\ ui'.quit = ui.quit
    BY <1>1, SessionNumbers DEF Models
<1>3. Pending' \subseteq Pending \cup {c}
    <2> HIDE DEF c
    <2>1. \A i \in 1..Len(commands') : commands'[i] = c \/ commands'[i] \in Pending
        BY <1>1 DEF Pending
    <2> QED BY <2>1 DEF Pending
<1>4. ShowInv'
    <2>1. Coming' = Coming
        BY <1>1, <1>2 DEF Coming
    <2> QED BY <1>1, <1>2, <2>1 DEF PInv, ShowInv, Playing
<1>5. FollowInv'
    BY <1>1, <1>2, <1>3 DEF PInv, FollowInv
<1>6. ASSUME Playing, c.session = run.id, kind \in {"setup", "act"} PROVE InputFits(run, seen, c)
    <2>1. /\ Fits(run, seen, ui.shows, One(run.news) + One(Coming))
          /\ run.phase = "driving" /\ run.polled => run.news = {}
        BY <1>1, <1>6 DEF PInv, ShowInv
    <2>2. /\ ui.shows.choice /\ c.shows = ui.shows /\ c.kind = kind
          /\ ui.shows.stage = IF kind = "setup" THEN "Init" ELSE "Hand"
        BY <1>1, <1>6 DEF Offered
    <2>3. Position(run, seen, ui.shows) /\ Behind(run, seen, ui.shows) <= One(run.news) + One(Coming)
        BY <2>1, <2>2 DEF Fits
    <2> HIDE DEF c
    <2>4. ASSUME kind = "setup" PROVE SetupFits(run, seen, c)
        <3>1. /\ Legal(seen) /\ Len(seen) \in Nat /\ run.offset \in Nat
              /\ One(run.news) \in {0, 1} /\ One(Coming) \in {0, 1}
              /\ run.news = {} => One(run.news) = 0
            BY SessionNumbers DEF MInv, LogInv, Legal, Runs, One
        <3>2. ui.shows.events = 1 /\ 1 <= Len(seen) - run.offset /\ seen[run.offset + 1] = "Configured"
            BY <2>2, <2>3, <2>4, <3>1 DEF Position
        <3>3. run.phase # "terminal"
            <4>1. ASSUME run.phase = "terminal" PROVE FALSE
                <5>1. EndsIn(seen, {"SetupAborted", "Result"})
                    BY <4>1 DEF MInv, RunInv
                <5>2. Len(seen) - run.offset >= 3
                    BY <3>1, <3>2, <5>1, GamesTakeThree
                <5>3. Len(seen) - run.offset - 1 + 1 <= One(run.news) + One(Coming)
                    BY <2>3, <3>2, <4>1 DEF Behind
                <5> QED BY <3>1, <5>2, <5>3
            <4> QED BY <4>1
        <3>4. run.phase = "driving"
            BY <1>6, <3>3 DEF Playing
        <3>5. ASSUME run.polled PROVE Len(seen) - run.offset <= 2
            <4>1. Len(seen) - run.offset - 1 <= One(run.news) + One(Coming)
                BY <2>3, <3>1, <3>2, <3>4 DEF Behind
            <4> QED BY <2>1, <3>1, <3>4, <3>5, <4>1
        <3> QED BY <2>2, <2>3, <2>4, <3>4, <3>5 DEF SetupFits
    <2>5. kind = "act" => ActFits(run, seen, c)
        BY <2>2, <2>3 DEF ActFits
    <2> QED BY <2>2, <2>4, <2>5 DEF InputFits
<1>7. InputInv'
    <2>1. kind = "new" => InputFits(run, seen, c)
        BY DEF InputFits
    <2> HIDE DEF c
    <2> QED BY <1>1, <1>3, <1>6, <2>1 DEF PInv, InputInv, Playing
<1> QED BY <1>4, <1>5, <1>7 DEF PInv

LEMMA UserFits ==
    ASSUME Typed, MInv, CInv, PInv, UserStep
    PROVE  PInv'
<1>1. CASE ImportKey
    <2>1. /\ ui'.held /\ ui'.connecting /\ ui'.session = ui.session /\ ui'.shows = ui.shows
          /\ ui'.generation = ui.generation /\ ui'.quit = ui.quit /\ ~ui.held
          /\ UNCHANGED <<run, seen, readers, inbox, commands, replies, count>>
        BY <1>1, SessionNumbers DEF ImportKey, Models, keepLog, logVars
    <2>2. ShowInv'
        <3>1. Coming' = Coming /\ SameRun
            BY <2>1 DEF Coming, SameRun
        <3> QED BY <2>1, <3>1, ShownStill DEF PInv, ShowInv
    <2>3. FollowInv' /\ InputInv'
        BY <2>1 DEF PInv, FollowInv, InputInv, Pending, Playing
    <2> QED BY <2>2, <2>3 DEF PInv
<1>2. ASSUME NEW op \in {"abort", "clear"}, RemoveSavedGame(op) PROVE PInv'
    <2>1. /\ ui'.held = ui.held /\ ui'.connecting = ui.connecting /\ ui'.session = 0
          /\ ui'.shows.choice => ui.shows.choice
          /\ ui'.generation = ui.generation + 1
          /\ UNCHANGED <<run, seen, readers, inbox, commands, replies, count>>
        BY <1>2, SessionNumbers DEF RemoveSavedGame, Models, NoSnapshot, keepLog, logVars
    <2>2. ShowInv'
        BY <2>1, ShownStill DEF PInv, ShowInv, SameRun
    <2>3. FollowInv'
        <3>1. \A r \in readers : r.generation # ui'.generation
            BY <2>1, SessionNumbers DEF CInv, WaitInv
        <3> QED BY <2>1, <3>1, SessionNumbers DEF PInv, FollowInv, Pending
    <2>4. InputInv'
        BY <2>1 DEF PInv, InputInv, Pending, Playing
    <2> QED BY <2>2, <2>3, <2>4 DEF PInv
<1>3. CASE Quit
    <2>1. /\ ui'.session = 0 /\ ~ui'.shows.choice /\ readers' = {} /\ commands' = <<>>
          /\ UNCHANGED <<seen, replies, count>>
        BY <1>3 DEF Quit, CloseClient, NewModel, NoSnapshot, keepLog, logVars
    <2>2. SameRun /\ run'.id = run.id
        BY <1>3, <2>1, SessionNumbers DEF Quit, CloseClient, Runs, SameRun
    <2>3. ShowInv'
        BY <2>1, <2>2, ShownStill DEF PInv
    <2>4. Pending' = {}
        BY <2>1 DEF Pending
    <2>5. FollowInv' /\ InputInv'
        BY <2>1, <2>4, SessionNumbers DEF PInv, FollowInv, InputInv
    <2> QED BY <2>3, <2>5 DEF PInv
<1> QED BY <1>1, <1>2, <1>3, SubmissionFits DEF UserStep

LEMMA ReplyFits ==
    ASSUME Typed, CInv, PInv, HandleReply
    PROVE  PInv'
<1>1. PICK reply \in replies : (Connected(reply) \/ Cleared(reply)) /\ replies' = replies \ {reply}
    BY DEF HandleReply
<1>2. /\ replies' = {} /\ ui.session = 0 /\ reply.session \in Nat /\ ~ui.quit
      /\ reply.op = "open" /\ reply.ok => reply.session # 0
      /\ UNCHANGED <<run, seen, inbox, commands, count>>
    BY <1>1, NobodyFollows, SessionNumbers DEF HandleReply, CInv, SerialInv, PInv, keepLog, logVars
<1>3. Arriving = {} /\ Awaiting = {}
    BY <1>2 DEF CInv, WaitInv
<1>4. /\ ui'.generation = ui.generation /\ ui'.quit = ui.quit
      /\ \/ /\ ui'.session = reply.session /\ reply.session # 0
            /\ readers' = readers \cup {Reader(reply.session, ui.generation)}
         \/ ui'.session = 0 /\ readers' = readers
    BY <1>1, <1>2, SessionNumbers DEF Connected, Cleared, Models
<1>5. /\ ui'.session # 0 => ~ui'.shows.choice
      /\ ~ui'.held \/ ui'.connecting => ~ui'.shows.choice
    <2>1. CASE Connected(reply)
        <3>1. ui.connecting
            <4>1. reply.op = "open"
                BY <2>1 DEF Connected
            <4> QED BY <1>2, <4>1 DEF CInv, SerialInv, Asked
        <3>2. ~ui.shows.choice
            BY <3>1 DEF PInv, ShowInv
        <3>3. ui'.shows = ui.shows
            BY <2>1, SessionNumbers DEF Connected, Models
        <3> QED BY <3>2, <3>3
    <2>2. CASE Cleared(reply)
        <3>1. CASE ui'.shows = NoSnapshot
            BY <3>1 DEF NoSnapshot
        <3>2. CASE /\ ui'.shows = ui.shows /\ ui'.held = ui.held /\ ui'.connecting = ui.connecting
                   /\ ui'.session = ui.session
            BY <1>2, <3>2 DEF PInv, ShowInv
        <3> QED BY <2>2, <3>1, <3>2, SessionNumbers DEF Cleared, Models
    <2> QED BY <1>1, <2>1, <2>2
<1>6. ShowInv'
    <2>1. Coming' = {}
        BY <1>2, <1>3, <1>4 DEF Coming, Arriving
    <2> QED BY <1>2, <1>5, <2>1 DEF PInv, ShowInv, Playing, Fits
<1>7. FollowInv'
    <2>1. \A r \in readers : r.generation # ui.generation
        BY <1>3 DEF Awaiting
    <2>2. /\ reply.session <= count.sessions
          /\ reply.session # 0 => \A r \in readers : r.session # reply.session
        BY DEF PInv, FollowInv
    <2>3. Pending' = Pending
        BY <1>2 DEF Pending
    <2> QED BY <1>2, <1>4, <2>1, <2>2, <2>3, SessionNumbers DEF PInv, FollowInv, Reader
<1>8. InputInv'
    BY <1>2 DEF PInv, InputInv, Pending, Playing
<1> QED BY <1>6, <1>7, <1>8 DEF PInv

LEMMA ReadFits ==
    ASSUME Typed, CInv, PInv, NEW reader \in readers, Read(reader)
    PROVE  PInv'
<1>1. /\ readers' = readers \ {reader} /\ UNCHANGED <<ui, commands, replies, count, seen>>
      /\ run \in Runs
    BY SessionNumbers DEF Read, keepLog, logVars
<1>2. /\ run'.phase = run.phase /\ run'.id = run.id /\ run'.offset = run.offset
      /\ run'.game = run.game /\ run'.polled = run.polled
      /\ run'.news = run.news \/ run'.news = {}
    BY <1>1 DEF Read, Runs
<1>3. \A u, n : Fits(run', seen', u, n) <=> Fits(run, seen, u, n)
    BY <1>1, <1>2 DEF Fits, Position, Behind
<1>4. FollowInv'
    BY <1>1 DEF PInv, FollowInv, Pending
<1>5. InputInv'
    BY <1>1, <1>2 DEF PInv, InputInv, Pending, Playing, InputFits, SetupFits, ActFits, Position
<1>6. ASSUME Playing, ui.session = run.id, ui.session # 0
      PROVE  /\ \A m \in Coming' : Fits(run, seen, m.update, One(run'.news))
             /\ Fits(run, seen, ui.shows, One(run'.news) + One(Coming'))
    <2>1. /\ \A m \in Coming : Fits(run, seen, m.update, One(run.news))
          /\ Fits(run, seen, ui.shows, One(run.news) + One(Coming))
          /\ \A v \in run.news : Fits(run, seen, v, 0)
        BY <1>6 DEF PInv, ShowInv
    <2>2. CASE reader.generation = ui.generation
        <3>1. reader.session = run.id /\ run.phase # "ended"
            BY <1>6, <2>2 DEF PInv, FollowInv, Playing
        <3>2. /\ run.news # {} /\ run'.news = {}
              /\ inbox' = inbox \cup {[kind |-> "update", generation |-> reader.generation,
                                       update |-> u] : u \in run.news}
            BY <1>1, <3>1 DEF Read, Runs
        <3>3. Arriving = {}
            <4>1. reader \in Awaiting
                BY <2>2 DEF Awaiting
            <4> QED BY <4>1 DEF CInv, WaitInv
        <3>4. Coming = {} /\ Coming' = {[kind |-> "update", generation |-> reader.generation,
                                         update |-> u] : u \in run.news}
            BY <1>1, <2>2, <3>2, <3>3 DEF Coming, Arriving
        <3>5. /\ One(run.news) = 1 /\ One(run'.news) = 0 /\ One(Coming) = 0 /\ One(Coming') = 1
            BY <3>2, <3>4 DEF One
        <3>6. \A m \in Coming' : Fits(run, seen, m.update, 0)
            BY <2>1, <3>4
        <3> QED BY <2>1, <3>5, <3>6
    <2>3. CASE reader.generation # ui.generation
        <3>1. reader.session # run.id
            BY <1>6, <2>3 DEF PInv, FollowInv
        <3>2. run' = run /\ inbox' = inbox \cup {[kind |-> "closed", generation |-> reader.generation]}
            BY <3>1 DEF Read
        <3>3. Coming' = Coming
            BY <1>1, <3>2 DEF Coming
        <3> QED BY <2>1, <3>2, <3>3
    <2> QED BY <2>2, <2>3
<1>7. ShowInv'
    BY <1>1, <1>2, <1>3, <1>6 DEF PInv, ShowInv, Playing
<1> QED BY <1>4, <1>5, <1>7 DEF PInv

LEMMA MessageFits ==
    ASSUME Typed, CInv, PInv, NEW message \in inbox, HandleMessage(message)
    PROVE  PInv'
<1>1. /\ inbox' = inbox \ {message} /\ ~ui.quit
      /\ UNCHANGED <<run, seen, commands, replies, count>>
    BY DEF HandleMessage, keepClient, logVars, runVars
<1>2. InputInv'
    BY <1>1 DEF PInv, InputInv, Pending, Playing
<1>3. CASE message.generation = ui.generation /\ message.kind = "update"
    <2>1. /\ ui' = Updated(message.update)
          /\ readers' = readers \cup {Reader(ui.session, ui.generation)}
        BY <1>3 DEF HandleMessage
    <2>2. /\ SameDuties /\ ui'.shows = Shown(message.update)
        BY <2>1, SessionNumbers DEF SameDuties, Models, Updated
    <2>3. message \in Arriving /\ message \in Coming
        BY <1>3 DEF Arriving, Coming
    <2>4. Arriving = {message} /\ Awaiting = {} /\ ui.session # 0
        BY <2>3 DEF CInv, WaitInv
    <2>5. Coming' = {} /\ Coming # {}
        BY <1>1, <2>2, <2>3, <2>4 DEF Coming, Arriving, SameDuties
    <2>6. ui.held /\ ~ui.connecting /\ replies = {}
        BY <2>4, NobodyFollows DEF CInv, SerialInv, PInv
    <2>7. ShowInv'
        <3>1. ASSUME Playing, ui.session = run.id
              PROVE  Fits(run, seen, Shown(message.update), One(run.news) + One(Coming'))
            <4>1. Fits(run, seen, message.update, One(run.news))
                BY <2>3, <2>4, <3>1 DEF PInv, ShowInv
            <4>2. Fits(run, seen, Shown(message.update), One(run.news))
                BY <4>1 DEF Fits, Position, Behind, Shown
            <4>3. One(run.news) + One(Coming') = One(run.news)
                BY <2>5 DEF One
            <4> QED BY <4>2, <4>3
        <3> QED BY <1>1, <2>2, <2>5, <2>6, <3>1 DEF PInv, ShowInv, Playing, SameDuties
    <2>8. FollowInv'
        <3>1. Pending' = Pending
            BY <1>1 DEF Pending
        <3> QED BY <1>1, <2>1, <2>2, <2>4, <2>6, <3>1 DEF PInv, FollowInv, Reader, SameDuties
    <2> QED BY <1>2, <2>7, <2>8 DEF PInv
<1>4. CASE ~(message.generation = ui.generation /\ message.kind = "update")
    <2>1. readers' = readers /\ (ui' = ui \/ ui' = [ui EXCEPT !.stopped = TRUE])
        BY <1>4 DEF HandleMessage
    <2>2. SameDuties /\ ui'.shows = ui.shows
        BY <2>1, SessionNumbers DEF SameDuties, Models
    <2>3. Coming' = Coming
        BY <1>1, <1>4, <2>2 DEF Coming, SameDuties
    <2>4. ShowInv'
        BY <1>1, <2>2, <2>3 DEF PInv, ShowInv, Playing, SameDuties
    <2>5. FollowInv'
        BY <1>1, <2>1, <2>2 DEF PInv, FollowInv, Pending, SameDuties
    <2> QED BY <1>2, <2>4, <2>5 DEF PInv
<1> QED BY <1>3, <1>4

LEMMA NextFits ==
    ASSUME Typed, MInv, CInv, PInv, [Next]_vars
    PROVE  PInv'
<1>1. CASE (DriverSteps \/ Poll(InputWaits) \/ Settle) /\ UNCHANGED uiVars
    <2>1. UNCHANGED <<ui, inbox, readers, replies>> /\ Pending' = Pending
        BY <1>1, RunStepsGoOn DEF uiVars, Pending
    <2> QED BY <1>1, <2>1, RunStepsGoSomehow, RunFits
<1>2. CASE (EndRun \/ CallSteps) /\ UNCHANGED uiVars
    <2>1. UNCHANGED <<ui, inbox, readers>> /\ Pending' = Pending
        BY <1>2 DEF uiVars, Pending
    <2>2. CallSteps => call # NoCall
        <3>1. OpenSession \/ BeginClear => call.step = "lock"
            BY DEF OpenSession, BeginClear
        <3>2. JoinRun => call.step = "join"
            BY DEF JoinRun
        <3>3. CheckUnfunded => call.step = "check"
            BY DEF CheckUnfunded
        <3>4. EraseLog => call.step = "erase"
            BY DEF EraseLog
        <3>5. Reopen => call.step = "reopen"
            BY DEF Reopen
        <3> QED BY <3>1, <3>2, <3>3, <3>4, <3>5 DEF CallSteps, NoCall
    <2>3. EndRun => ~StartRun
        <3>1. EndRun => run'.phase = "ended"
            BY SessionNumbers DEF EndRun, Runs
        <3>2. StartRun => run'.phase = "driving"
            BY DEF StartRun, NoRun
        <3> QED BY <3>1, <3>2
    <2> QED BY <1>2, <2>1, <2>2, <2>3, StartFits, CallsGoOn, RunFits
<1>3. CASE UserStep
    BY <1>3, UserFits
<1>4. CASE InterfaceStep
    <2>1. ASSUME NEW i \in 1..Len(commands), Take(i) PROVE PInv'
        <3>1. commands[i].kind \in {"new", "setup", "act"} /\ Pending' \subseteq Pending
            BY <2>1, CommandsTyped, FewerPending DEF Take
        <3>2. NextGame \/ \E request \in {"setup", "act"} : TakeInput(request)
            BY <2>1, <3>1 DEF Take
        <3>3. UNCHANGED <<ui, inbox, readers, replies>>
            BY <2>1, <3>2 DEF Take, NextGame, TakeInput
        <3> QED BY <3>1, <3>2, <3>3, RunStepsGoSomehow, RunFits
    <2>2. ASSUME NEW i \in 1..Len(commands), GiveUp(i) PROVE PInv'
        <3>1. /\ UNCHANGED <<run, seen, replies, count, ui, readers>> /\ Pending' \subseteq Pending
              /\ inbox' = inbox \cup {[kind |-> "refused", generation |-> commands[i].generation]}
            BY <2>2, FewerPending DEF GiveUp, keepClient, logVars, runVars
        <3>2. Coming' = Coming
            BY <3>1 DEF Coming
        <3> QED BY <3>1, <3>2 DEF PInv, ShowInv, FollowInv, InputInv, Playing
    <2> QED BY <1>4, <2>1, <2>2, ReplyFits, ReadFits, MessageFits DEF InterfaceStep
<1>5. CASE Restart
    <2>1. /\ run' = NoRun /\ replies' = {} /\ ui' = NewModel /\ readers' = {} /\ commands' = <<>>
          /\ count'.sessions = 0
        BY <1>5 DEF Restart, Exit, Stop, FreshProcess, FreshModel, Typed, ClientTyped
    <2>2. Pending' = {}
        BY <2>1 DEF Pending
    <2> QED BY <2>1, <2>2
            DEF PInv, ShowInv, FollowInv, InputInv, Playing, NoRun, NewModel, NoSnapshot
<1>6. CASE UNCHANGED vars
    <2>1. UNCHANGED <<run, seen, replies, count, ui, readers, inbox, commands>>
        BY <1>6 DEF vars, uiVars, logVars, runVars
    <2> QED BY <2>1 DEF PInv, ShowInv, FollowInv, InputInv, Playing, Pending, Coming
<1> QED BY <1>1, <1>2, <1>3, <1>4, <1>5, <1>6 DEF Next

LEMMA InitFits == Init => PInv
<1> SUFFICES ASSUME Init PROVE PInv
    OBVIOUS
<1>1. /\ run = NoRun /\ replies = {} /\ ui = NewModel /\ readers = {} /\ commands = <<>>
      /\ count.sessions = 0
    BY DEF Init, ClientInit
<1>2. Pending = {}
    BY <1>1 DEF Pending
<1> QED BY <1>1, <1>2
        DEF PInv, ShowInv, FollowInv, InputInv, Playing, NoRun, NewModel, NoSnapshot

\* An input that a run serves was chosen in the position of the game that it is in.
LEMMA ServedInPosition ==
    ASSUME Typed, MInv, PInv, NEW i \in 1..Len(commands), Take(i), commands[i].kind # "new",
           seen' # seen
    PROVE  commands[i].shows.game = run.game /\ commands[i].shows.events = Len(Game)
<1> DEFINE c == commands[i]
<1>1. c \in Pending /\ c.session = run.id /\ c.kind \in {"setup", "act"} /\ TakeInput(c.kind)
    BY CommandsTyped DEF Take, IsNext, Pending
<1> HIDE DEF c
<1>2. run.phase = "driving" /\ ~run.polled /\ Serves(c.kind)
    BY <1>1 DEF TakeInput, Driving, keepLog, logVars
<1>3. InputFits(run, seen, c)
    BY <1>1, <1>2 DEF PInv, InputInv, Playing
<1>4. /\ Len(Game) = Len(seen) - run.offset /\ Len(seen) \in Nat /\ run.offset \in Nat
      /\ Game = <<>> <=> Len(seen) = run.offset
      /\ Game # <<>> => Last(Game) = seen[Len(seen)]
    BY <1>2, RunsGame DEF Typed
<1>5. CASE c.kind = "setup"
    <2>1. c.shows.stage = "Init" /\ Position(run, seen, c.shows)
        BY <1>3, <1>5 DEF InputFits, SetupFits
    <2>2. Len(Game) = 1
        BY <1>2, <1>5 DEF Serves
    <2> QED BY <2>1, <2>2 DEF Position, c
<1>6. CASE c.kind = "act"
    <2>1. Game # <<>> /\ seen[Len(seen)] = "Deposit"
        BY <1>2, <1>4, <1>6 DEF Serves, Ends
    <2>2. c.shows.stage = "Hand" /\ Position(run, seen, c.shows)
        BY <1>2, <1>3, <1>4, <1>6, <2>1 DEF InputFits, ActFits
    <2>3. /\ c.shows.game = run.game /\ c.shows.events \in 1..(Len(seen) - run.offset)
          /\ ~(Len(seen) > run.offset + c.shows.events)
        BY <2>1, <2>2 DEF Position
    <2> QED BY <1>4, <2>3 DEF c
<1> QED BY <1>1, <1>5, <1>6

\* Whatever the interface showed when its user chose, however long the input waited and
\* whatever else came first: what the driver journals for an input was asked for in the
\* position of the game it is in; anything else it rejects
\* ("Close a stale form before its input can be applied to a different opponent wager",
\* src/internal/ui/game.go:61).
THEOREM InputsArePlacedRight == Spec => InputsMeetTheirPosition
<1>1. Init => Typed /\ MInv /\ CInv /\ PInv
    BY InitTyped, InitKeeps, InitConsistent, InitFits
<1>2. Typed /\ MInv /\ CInv /\ PInv /\ [Next]_vars => (Typed /\ MInv /\ CInv /\ PInv)'
    BY NextTyped, NextKeeps, NextConsistent, NextFits DEF MInv, LogInv
<1>3. Typed /\ MInv /\ PInv =>
          \A i \in 1..Len(commands) :
              Take(i) /\ commands[i].kind # "new" /\ seen' # seen =>
                  commands[i].shows.game = run.game /\ commands[i].shows.events = Len(Game)
    BY ServedInPosition
<1> QED BY <1>1, <1>2, <1>3, PTL DEF Spec, InputsMeetTheirPosition
=============================================================================
