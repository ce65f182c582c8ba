------------------------------- MODULE Client -------------------------------
(***************************************************************************)
(* The life of a wallet session (src/internal/client/client.go, abort.go,  *)
(* log.go): one goroutine runs the games of a session over the wallet's    *)
(* log, while calls of the user open a session, abort its setup, clear its *)
(* history and close the client.  The log is one that DurableLog promises; *)
(* a game is the sequence of its journaled events, one of a kind.          *)
(***************************************************************************)
EXTENDS Sequences, SequencesExt, Integers, FiniteSets

CONSTANTS
    MaxGames,       \* bound: games started in one log
    MaxSessions,    \* bound: sessions opened by one process
    MaxFailures     \* bound: failed calls, failed appends and stops of the process

ASSUME BoundsAssumption == {MaxGames, MaxSessions, MaxFailures} \subseteq Nat

VARIABLES
    kept,       \* the log: the records that no failure may take away
    seen,       \* the log: the records that a reader finds
    wiping,     \* the log: a clear has begun and is not confirmed
    run,        \* the goroutine of the session (Client.run) and its driver
    call,       \* the user's call in progress: it holds Client.mu after "lock"
    client,     \* the fields of Client: session, pendingKey, closed
    key,        \* the imported secret: "none", "live" or "destroyed"
    stake,      \* the player's money: "none", "sent" into a covenant, "settled"
    replies,    \* results of calls on their way to the user interface
    count       \* sessions of this process, failures so far

logVars == <<kept, seen, wiping>>
runVars == <<run, call, client, key, stake, replies, count>>
keepLog == UNCHANGED logVars

\* run.news holds the update that waits to be read from the channel, if any;
\* run.polled says that the driver found no input and is taking its next step.
NoRun == [phase |-> "none", id |-> 0, offset |-> 0, game |-> 0, stop |-> FALSE,
          owns |-> FALSE, news |-> {}, polled |-> TRUE]
NoCall == [op |-> "none", step |-> "none"]
NewClient == [session |-> FALSE, pending |-> FALSE, closed |-> FALSE]

ClientInit ==
    /\ kept = <<>> /\ seen = <<>> /\ wiping = FALSE
    /\ run = NoRun /\ call = NoCall /\ client = NewClient
    /\ key = "none" /\ stake = "none" /\ replies = {}
    /\ count = [sessions |-> 0, failures |-> 0]

MayFail == count.failures < MaxFailures
Failed == MayFail /\ count' = [count EXCEPT !.failures = @ + 1]

\* A process as it starts.
FreshProcess ==
    /\ run' = NoRun /\ call' = NoCall /\ client' = NewClient
    /\ replies' = {} /\ key' = "none"

(***************************************************************************)
(* The wallet's log: games one after another (log.go).                     *)
(***************************************************************************)
Starts(records) == {i \in 1..Len(records) : records[i] = "Configured"}
LastStart(records) == CHOOSE i \in Starts(records) : \A j \in Starts(records) : j <= i
Ends(game, kinds) == game # <<>> /\ Last(game) \in kinds
Terminal(game) == Ends(game, {"SetupAborted", "Result"})
Holds(game, kind) == \E i \in 1..Len(game) : game[i] = kind

\* currentSession: a new start may follow only a complete game.
Readable(records) ==
    /\ records # <<>> => records[1] = "Configured"
    /\ \A i \in Starts(records) : i > 1 => records[i - 1] \in {"SetupAborted", "Result"}
CurrentOffset(records) == IF records = <<>> THEN 0 ELSE LastStart(records) - 1

CurrentGame == SubSeq(seen, CurrentOffset(seen) + 1, Len(seen))

\* The game that a driver replays through its sessionLog.
Game == SubSeq(seen, run.offset + 1, Len(seen))

\* What a snapshot shows of a game.  A saved deposit is still setup until it is
\* observed.
StageShown(game) ==
    IF Terminal(game) THEN "Outcome"
    ELSE IF Holds(game, "Deposit") THEN "Hand"
    ELSE IF Holds(game, "Setup") THEN "Setup" ELSE "Init"

\* Choices are exposed while the driver waits for its user.
Snapshot(game, choice) ==
    [game |-> run.game, events |-> Len(game), stage |-> StageShown(game),
     choice |-> choice, error |-> "none"]
ErrorUpdate(kind) == [Snapshot(Game, FALSE) EXCEPT !.error = kind]

(***************************************************************************)
(* The session's goroutine.  Each update waits until somebody reads it.    *)
(***************************************************************************)
Driving == run.phase = "driving" /\ run.news = {}
Working == Driving /\ run.polled
Tell(update) == run' = [run EXCEPT !.news = {update}, !.polled = FALSE]
Fail == Failed /\ run' = [run EXCEPT !.phase = "failed", !.news = {ErrorUpdate("stopped")}]

\* The events that follow without the user.
Follows(game) ==
    IF game = <<>> THEN {"Configured"}
    ELSE IF Ends(game, {"Setup"}) THEN {"SetupAborted", "Spend"}
    ELSE IF Ends(game, {"Spend"}) /\ ~Holds(game, "Deposit") /\ stake # "none" THEN {"Deposit"}
    ELSE IF Holds(game, "Deposit") /\ ~Terminal(game) /\ stake = "settled" THEN {"Result"}
    ELSE {}

\* journal.append: the event is durable before the game goes on; after an error it may
\* be in the log or not, and the driver stops for good.
Journal(kind) ==
    \/ /\ kept' = Append(seen, kind) /\ seen' = kept' /\ wiping' = FALSE
       /\ Tell(Snapshot(Append(Game, kind), FALSE))
       /\ stake' = IF kind = "Result" THEN "none" ELSE stake
       /\ UNCHANGED count
    \/ /\ Fail
       /\ seen' \in {seen, Append(seen, kind)} /\ UNCHANGED <<kept, wiping, stake>>

DriverStep ==
    /\ Working
    /\ \E kind \in Follows(Game) : Journal(kind)
    /\ UNCHANGED <<call, client, key, replies>>

\* The driver repeats its snapshot while it waits.
Chooses(game) == game = <<"Configured">> \/ Ends(game, {"Deposit"})

Emit ==
    /\ Working /\ Follows(Game) = {} /\ ~Terminal(Game)
    /\ Tell(Snapshot(Game, Chooses(Game)))
    /\ UNCHANGED <<call, client, key, stake, replies, count>> /\ keepLog

\* Between any two steps the driver looks at its channel.  It takes what is waiting
\* there; otherwise it takes the next step, and sees no input until that is done.
Poll(waiting) ==
    /\ Driving /\ ~run.polled /\ ~waiting
    /\ run' = [run EXCEPT !.polled = TRUE]
    /\ UNCHANGED <<call, client, key, stake, replies, count>> /\ keepLog

\* The driver does what its user asks for if that is one of the choices; after an
\* outcome nothing is.
Serves(kind) ==
    \/ kind = "setup" /\ Game = <<"Configured">>
    \/ kind = "act" /\ Ends(Game, {"Deposit"})

TakeInput(kind) ==
    /\ Driving /\ ~run.polled
    /\ IF Serves(kind)
       THEN Journal(IF kind = "setup" THEN "Setup" ELSE "Spend")
       ELSE Tell(ErrorUpdate("rejected")) /\ UNCHANGED <<stake, count>> /\ keepLog
    /\ UNCHANGED <<call, client, key, replies>>

\* A journaled spend is signed and submitted; the operation may already be cancelled.
Send ==
    /\ run.phase = "driving" /\ stake = "none" /\ Ends(Game, {"Spend"})
    /\ stake' = "sent"
    /\ UNCHANGED <<run, call, client, key, replies, count>> /\ keepLog

\* The covenant pays out, whoever is watching.
Settle ==
    /\ stake = "sent" /\ stake' = "settled"
    /\ UNCHANGED <<run, call, client, key, replies, count>> /\ keepLog

\* The driver returns: with an outcome, or with an error after which the goroutine
\* only holds on to the wallet until it is stopped.
Return ==
    /\ Working
    /\ \/ /\ Terminal(Game) /\ UNCHANGED count
          /\ run' = [run EXCEPT !.phase = "terminal", !.news = {Snapshot(Game, FALSE)}]
       \/ Fail
    /\ UNCHANGED <<call, client, key, stake, replies>> /\ keepLog

\* The next game starts behind everything the log holds.
NextGame ==
    /\ run.phase = "terminal" /\ run.news = {} /\ Cardinality(Starts(seen)) < MaxGames
    /\ \/ run' = [run EXCEPT !.phase = "driving", !.offset = Len(seen), !.game = @ + 1,
                                 !.polled = TRUE]
          /\ UNCHANGED count
       \/ Fail
    /\ UNCHANGED <<call, client, key, stake, replies>> /\ keepLog

\* Slip: the goroutine destroys the key whoever has it now.
EndRunDestroys ==
    /\ run.stop /\ run.phase \in {"driving", "terminal", "failed"}
    /\ run' = [run EXCEPT !.phase = "ended", !.owns = FALSE, !.news = {}]
    /\ key' = "destroyed"
    /\ UNCHANGED <<call, client, stake, replies, count>> /\ keepLog

\* The goroutine sees that it was stopped, closes the store and destroys the key if it
\* is still its own.
EndRun ==
    /\ run.stop /\ run.phase \in {"driving", "terminal", "failed"}
    /\ run' = [run EXCEPT !.phase = "ended", !.owns = FALSE, !.news = {}]
    /\ key' = IF run.owns THEN "destroyed" ELSE key
    /\ UNCHANGED <<call, client, stake, replies, count>> /\ keepLog

(***************************************************************************)
(* The user's calls.                                                       *)
(***************************************************************************)
Reply(op, ok, session) ==
    /\ replies' = replies \cup {[op |-> op, ok |-> ok, session |-> session]}
    /\ call' = NoCall

\* open: the store, the services and the saved game must all be in order.  What is
\* replayed is taken to be on the disk (see README: power loss).
CanOpen == Readable(seen) /\ count.sessions < MaxSessions

StartRun ==
    /\ CanOpen
    /\ run' = [NoRun EXCEPT !.phase = "driving", !.id = count.sessions + 1, !.game = 1,
                            !.offset = CurrentOffset(seen), !.owns = TRUE]
    /\ client' = [client EXCEPT !.session = TRUE, !.pending = FALSE]
    /\ Reply(call.op, TRUE, run'.id)
    /\ count' = [count EXCEPT !.sessions = @ + 1]
    /\ kept' = seen /\ seen' = seen /\ wiping' = FALSE
    /\ stake' = IF Ends(CurrentGame, {"Result"}) THEN "none" ELSE stake

Refuse == Reply(call.op, FALSE, 0) /\ UNCHANGED <<run, client, stake>> /\ keepLog

OpenSession ==
    /\ call = [op |-> "open", step |-> "lock"]
    /\ IF client.closed \/ client.session \/ client.pending \/ ~CanOpen
       THEN Refuse /\ UNCHANGED count
       ELSE StartRun \/ (Failed /\ Refuse)
    /\ UNCHANGED key

\* clearSavedGame takes the key from the session before it stops it.
BeginClear ==
    /\ call.op \in {"clear", "abort"} /\ call.step = "lock"
    /\ IF client.closed
       THEN Refuse
       ELSE /\ client' = IF client.session THEN [client EXCEPT !.pending = run.owns] ELSE client
            /\ run' = [run EXCEPT !.owns = FALSE, !.stop = TRUE]
            /\ call' = [call EXCEPT !.step = "join"]
            /\ UNCHANGED <<stake, replies>> /\ keepLog
    /\ UNCHANGED <<key, count>>

JoinRun ==
    /\ call.step = "join" /\ run.phase \in {"none", "ended"}
    /\ client' = [client EXCEPT !.session = FALSE]
    /\ run' = NoRun
    /\ call' = [call EXCEPT !.step = IF call.op = "abort" THEN "check" ELSE "erase"]
    /\ UNCHANGED <<key, stake, replies, count>> /\ keepLog

\* Slip: a deposit is taken for a part of setup.
SetupKindsAndDeposit == {"Configured", "Setup", "SetupAborted", "Spend"}

\* checkUnfundedSetup: nothing but setup since the last start.
SetupKinds == {"Configured", "Setup", "SetupAborted"}
Unfunded(records) ==
    records # <<>> =>
        /\ Starts(records) # {}
        /\ \A i \in LastStart(records)..Len(records) : records[i] \in SetupKinds

CheckUnfunded ==
    /\ call.step = "check"
    /\ \/ /\ Unfunded(seen) /\ call' = [call EXCEPT !.step = "erase"]
          /\ UNCHANGED <<run, client, stake, replies, count>> /\ keepLog
       \/ ~Unfunded(seen) /\ Refuse /\ UNCHANGED count
       \/ Failed /\ Refuse
    /\ UNCHANGED key

\* A user who clears the history gives up what is at stake in it.
EraseLog ==
    /\ call.step = "erase"
    /\ kept' = <<>>
    /\ stake' = IF call.op = "clear" THEN "none" ELSE stake
    /\ \/ /\ seen' = <<>> /\ wiping' = FALSE
          /\ call' = [call EXCEPT !.step = "reopen"]
          /\ UNCHANGED <<replies, count>>
       \/ /\ Failed /\ Reply(call.op, FALSE, 0)
          /\ wiping' = TRUE /\ \E n \in 0..Len(seen) : seen' = SubSeq(seen, 1, n)
    /\ UNCHANGED <<run, client, key>>

\* A key that was imported goes on with a fresh session; if that fails it is kept for
\* another attempt to clear.
Reopen ==
    /\ call.step = "reopen"
    /\ IF client.pending
       THEN StartRun \/ (Refuse /\ IF CanOpen THEN Failed ELSE UNCHANGED count)
       ELSE /\ Reply(call.op, TRUE, 0)
            /\ UNCHANGED <<run, client, stake, count>> /\ keepLog
    /\ UNCHANGED key

\* Close marks the client and destroys a key that no session owns.
CloseClient ==
    /\ ~client.closed /\ call.step \in {"none", "lock"}
    /\ client' = [client EXCEPT !.closed = TRUE, !.pending = FALSE]
    /\ run' = [run EXCEPT !.stop = TRUE]
    /\ key' = IF client.pending THEN "destroyed" ELSE key
    /\ UNCHANGED <<call, stake, replies, count>> /\ keepLog

\* The process dies, with or without the machine.
Stop ==
    /\ MayFail /\ count' = [sessions |-> 0, failures |-> count.failures + 1]
    /\ seen' \in {SubSeq(seen, 1, n) : n \in Len(kept)..Len(seen)} /\ UNCHANGED <<kept, wiping>>
    /\ FreshProcess /\ UNCHANGED stake

\* Main returns once Close has joined the session.
Exit ==
    /\ client.closed /\ run.phase \in {"none", "ended"} /\ call = NoCall
    /\ count' = [count EXCEPT !.sessions = 0]
    /\ FreshProcess /\ UNCHANGED stake /\ keepLog

DriverSteps == DriverStep \/ Emit \/ Send \/ Return
CallSteps == OpenSession \/ BeginClear \/ JoinRun \/ CheckUnfunded \/ EraseLog \/ Reopen
=============================================================================
