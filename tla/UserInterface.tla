--------------------------- MODULE UserInterface ---------------------------
(***************************************************************************)
(* The user interface over a client (src/internal/ui/model.go, game.go,    *)
(* clear.go).  One goroutine owns the model and handles messages; every    *)
(* call, every submission and every wait for an update is a goroutine of   *)
(* its own, and their messages arrive in any order.                        *)
(***************************************************************************)
EXTENDS Client

VARIABLES
    ui,         \* the fields of Model that decide what it does
    readers,    \* the goroutines that wait for an update of a session
    inbox,      \* their messages
    commands    \* submissions that nobody has taken yet, in order

uiVars == <<ui, readers, inbox, commands>>
vars == <<logVars, runVars, uiVars>>
keepClient == UNCHANGED <<logVars, runVars>>

NoSnapshot == [game |-> 0, events |-> 0, stage |-> "Init", choice |-> FALSE]
NewModel ==
    [held |-> FALSE, public |-> FALSE, connecting |-> FALSE, clearing |-> FALSE, session |-> 0,
     busy |-> FALSE, stopped |-> FALSE, generation |-> 0, shows |-> NoSnapshot, quit |-> FALSE]

FreshModel == ui' = NewModel /\ readers' = {} /\ inbox' = {} /\ commands' = <<>>

Init ==
    /\ ClientInit
    /\ ui = NewModel /\ readers = {} /\ inbox = {} /\ commands = <<>>

Reader(session, generation) == [session |-> session, generation |-> generation]

(***************************************************************************)
(* The wallet and its saved game.                                          *)
(***************************************************************************)
ImportKey ==
    /\ ~ui.quit /\ ~ui.held /\ ~ui.connecting /\ ~ui.clearing
    /\ key' = "live" /\ call' = [op |-> "open", step |-> "lock"]
    /\ ui' = [ui EXCEPT !.held = TRUE, !.public = TRUE, !.connecting = TRUE]
    /\ UNCHANGED <<run, client, stake, replies, count, readers, inbox, commands>> /\ keepLog

CanAbortSetup ==
    /\ ui.public /\ ui.session # 0 /\ ~ui.connecting /\ ~ui.clearing
    /\ \/ ui.shows.stage = "Setup"
       \/ ui.shows.stage = "Init" /\ ui.shows.choice /\ ui.busy

CanClearGame ==
    /\ ui.public /\ ~ui.connecting /\ ~ui.clearing
    /\ ui.session = 0 \/ ui.stopped

\* Messages of the session that is being closed are ignored from here on.  (The bound
\* on sessions leaves room for the one that follows.)
RemoveSavedGame(op) ==
    /\ ~ui.quit /\ count.sessions < MaxSessions
    /\ IF op = "abort" THEN CanAbortSetup ELSE CanClearGame
    /\ call' = [op |-> op, step |-> "lock"]
    /\ ui' = [ui EXCEPT !.generation = @ + 1, !.clearing = TRUE, !.session = 0, !.busy = FALSE,
                        !.stopped = FALSE, !.shows = IF op = "abort" THEN @ ELSE NoSnapshot]
    /\ UNCHANGED <<run, client, key, stake, replies, count, readers, inbox, commands>> /\ keepLog

\* connectedMsg: a session is followed; without one the key is destroyed.
Connected(reply) ==
    /\ reply.op = "open"
    /\ IF reply.ok
       THEN /\ ui' = [ui EXCEPT !.connecting = FALSE, !.session = reply.session]
            /\ readers' = readers \cup {Reader(reply.session, ui.generation)}
            /\ UNCHANGED key
       ELSE /\ ui' = [ui EXCEPT !.connecting = FALSE, !.held = FALSE]
            /\ key' = "destroyed" /\ UNCHANGED readers

\* clearedGameMsg.
Cleared(reply) ==
    /\ reply.op \in {"abort", "clear"} /\ UNCHANGED key
    /\ IF reply.ok /\ reply.session # 0
       THEN /\ ui' = [ui EXCEPT !.clearing = FALSE, !.shows = NoSnapshot, !.session = reply.session]
            /\ readers' = readers \cup {Reader(reply.session, ui.generation)}
       ELSE /\ ui' = IF reply.ok
                     THEN [ui EXCEPT !.clearing = FALSE, !.shows = NoSnapshot, !.public = FALSE]
                     ELSE [ui EXCEPT !.clearing = FALSE, !.stopped = @ \/ reply.op = "abort"]
            /\ UNCHANGED readers

HandleReply ==
    /\ ~ui.quit
    /\ \E reply \in replies :
          /\ Connected(reply) \/ Cleared(reply)
          /\ replies' = replies \ {reply}
    /\ UNCHANGED <<run, call, client, stake, count, inbox, commands>> /\ keepLog

(***************************************************************************)
(* Updates of the game.                                                    *)
(***************************************************************************)
\* waitUpdate: the next update of the channel, or its end.
Read(reader) ==
    /\ reader \in readers /\ readers' = readers \ {reader}
    /\ IF run.id = reader.session /\ run.phase # "ended"
       THEN /\ run.news # {} /\ run' = [run EXCEPT !.news = {}]
            /\ inbox' = inbox \cup {[kind |-> "update", generation |-> reader.generation,
                                     update |-> u] : u \in run.news}
       ELSE /\ inbox' = inbox \cup {[kind |-> "closed", generation |-> reader.generation]}
            /\ UNCHANGED run
    /\ UNCHANGED <<call, client, key, stake, replies, count, ui, commands>> /\ keepLog

\* driverUpdate: a different snapshot ends the wait for the last submission, an error
\* that is not about the input stops the game.
Shown(update) ==
    [game |-> update.game, events |-> update.events, stage |-> update.stage, choice |-> update.choice]
WithoutChoice(snapshot) == [snapshot EXCEPT !.choice = FALSE]

Updated(update) ==
    [ui EXCEPT
        !.busy = @ /\ update.error = "none" /\ WithoutChoice(ui.shows) = WithoutChoice(Shown(update)),
        !.shows = Shown(update),
        !.stopped = @ \/ update.error = "stopped"]

\* Slip: an update is handled without waiting for the next one.
HandleLastMessage(message) ==
    /\ ~ui.quit /\ message \in inbox /\ inbox' = inbox \ {message}
    /\ ui' = IF message.generation # ui.generation THEN ui
             ELSE IF message.kind = "update" THEN Updated(message.update)
             ELSE [ui EXCEPT !.stopped = TRUE]
    /\ UNCHANGED <<readers, commands>> /\ keepClient

\* sentMsg carries an error when the session was over before anybody took the input.
HandleMessage(message) ==
    /\ ~ui.quit /\ message \in inbox /\ inbox' = inbox \ {message}
    /\ IF message.generation # ui.generation
       THEN UNCHANGED <<ui, readers>>
       ELSE IF message.kind = "update"
            THEN /\ ui' = Updated(message.update)
                 /\ readers' = readers \cup {Reader(ui.session, ui.generation)}
            ELSE /\ ui' = [ui EXCEPT !.stopped = TRUE]
                 /\ UNCHANGED readers
    /\ UNCHANGED commands /\ keepClient

(***************************************************************************)
(* Submissions.                                                            *)
(***************************************************************************)
\* The actions of a table: a new game after an outcome, what the driver exposes before.
Offered(kind) ==
    CASE kind = "new" -> ui.shows.stage = "Outcome" /\ Cardinality(Starts(seen)) < MaxGames
      [] kind = "setup" -> ui.shows.stage = "Init" /\ ui.shows.choice
      [] kind = "act" -> ui.shows.stage = "Hand" /\ ui.shows.choice

Submit(kind) ==
    /\ ~ui.quit /\ ui.session # 0 /\ ~ui.busy /\ ~ui.stopped /\ Offered(kind)
    /\ ui' = [ui EXCEPT !.busy = TRUE]
    /\ commands' = Append(commands, [kind |-> kind, session |-> ui.session,
                                     generation |-> ui.generation, shows |-> ui.shows])
    /\ UNCHANGED <<readers, inbox>> /\ keepClient

\* Slip: the channels outlive their session.
IsNextOfAnySession(i) ==
    \A j \in 1..(i - 1) : (commands[j].kind = "new") # (commands[i].kind = "new")

\* Two channels of a session, one for inputs and one for new games, each first in,
\* first out.
IsNext(i) ==
    /\ commands[i].session = run.id
    /\ \A j \in 1..(i - 1) :
          commands[j].session = run.id => (commands[j].kind = "new") # (commands[i].kind = "new")

Take(i) ==
    /\ IsNext(i) /\ commands' = RemoveAt(commands, i)
    /\ IF commands[i].kind = "new" THEN NextGame ELSE TakeInput(commands[i].kind)
    /\ UNCHANGED <<ui, readers, inbox>>

\* What the driver of the session would find.
InputWaits == \E i \in 1..Len(commands) : commands[i].session = run.id /\ commands[i].kind # "new"

\* The session is over: sentMsg reports ErrDriverStopped.
GiveUp(i) ==
    /\ commands[i].session # run.id \/ run.phase = "ended"
    /\ commands' = RemoveAt(commands, i)
    /\ inbox' = inbox \cup {[kind |-> "refused", generation |-> commands[i].generation]}
    /\ UNCHANGED <<ui, readers>> /\ keepClient

(***************************************************************************)
(* The process.                                                            *)
(***************************************************************************)
\* Confirmed exit ends the interface; main then closes the client.
Quit ==
    /\ CloseClient /\ ~ui.quit
    /\ ui' = [NewModel EXCEPT !.quit = TRUE] /\ readers' = {} /\ inbox' = {} /\ commands' = <<>>

Restart == (Exit \/ Stop) /\ FreshModel

UserStep ==
    \/ ImportKey \/ RemoveSavedGame("abort") \/ RemoveSavedGame("clear") \/ Quit
    \/ \E kind \in {"setup", "act", "new"} : Submit(kind)

InterfaceStep ==
    \/ HandleReply
    \/ \E reader \in readers : Read(reader)
    \/ \E message \in inbox : HandleMessage(message)
    \/ \E i \in 1..Len(commands) : Take(i) \/ GiveUp(i)

Next ==
    \/ (DriverSteps \/ Poll(InputWaits) \/ EndRun \/ CallSteps \/ Settle) /\ UNCHANGED uiVars
    \/ UserStep \/ InterfaceStep \/ Restart

Spec == Init /\ [][Next]_vars
=============================================================================
