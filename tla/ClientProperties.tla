------------------------- MODULE ClientProperties --------------------------
(***************************************************************************)
(* What the client promises its user, stated over UserInterface.           *)
(***************************************************************************)
EXTENDS UserInterface

(***************************************************************************)
(* Safety.                                                                 *)
(***************************************************************************)
\* "Spending is journaled before signing or submission, so only a current journal
\* containing setup facts may be erased" (src/internal/client/abort.go:13): money that
\* left for a covenant is in the saved game, and that game is the one to be resumed,
\* until the user clears it explicitly - whatever the interface was showing when an
\* abort was asked for, and wherever the process stopped.
MoneyIsAccountedFor ==
    /\ stake # "none" => Holds(CurrentGame, "Spend") /\ ~Ends(CurrentGame, {"SetupAborted"})
    /\ stake = "sent" => ~Ends(CurrentGame, {"Result"})

\* A live key has one owner - the call that opens a session, the session, or the
\* client between two of them - and none of them holds a destroyed one.
KeyOwners ==
    (IF run.owns THEN {"session"} ELSE {})
    \cup (IF client.pending THEN {"client"} ELSE {})
    \cup (IF call.op = "open" \/ \E r \in replies : r.op = "open" /\ ~r.ok THEN {"call"} ELSE {})
KeyHasOneOwner ==
    /\ key = "live" <=> KeyOwners # {}
    /\ Cardinality(KeyOwners) <= 1
    /\ run.phase \in {"driving", "terminal", "failed"} => key = "live"

\* The log can always be restored, and a running driver plays the last game in it or
\* one that has yet to start.
SavedGamesStayReadable ==
    /\ Readable(seen)
    /\ run.phase = "driving" => run.offset \in {CurrentOffset(seen), Len(seen)}

\* The interface has one call under way at a time, and waits for exactly one update
\* of the session it follows.
Expects == ui.connecting \/ ui.clearing
CallsAreSerial ==
    ~ui.quit =>
        /\ Expects <=> call # NoCall \/ replies # {}
        /\ ui.session # 0 =>
              Cardinality({r \in readers : r.generation = ui.generation})
              + Cardinality({m \in inbox : m.generation = ui.generation /\ m.kind # "refused"}) <= 1

InterfaceIsConsistent == KeyHasOneOwner /\ SavedGamesStayReadable /\ CallsAreSerial

\* What the driver does for its user was asked for in exactly the position of exactly
\* the game it does it in ("Close a stale form before its input can be applied to a
\* different opponent wager", src/internal/ui/game.go:61).
InputsMeetTheirPosition ==
    [][\A i \in 1..Len(commands) :
          Take(i) /\ commands[i].kind # "new" /\ seen' # seen =>
              commands[i].shows.game = run.game /\ commands[i].shows.events = Len(Game)]_vars

(***************************************************************************)
(* Liveness: goroutines run, channels that are ready are eventually        *)
(* chosen.  Users and failures need not do anything.                       *)
(***************************************************************************)
Fairness ==
    /\ WF_vars((DriverSteps \/ Poll(InputWaits)) /\ UNCHANGED uiVars)
    /\ WF_vars(EndRun /\ UNCHANGED uiVars)
    /\ WF_vars(CallSteps /\ UNCHANGED uiVars)
    /\ WF_vars(HandleReply)
    /\ WF_vars(\E reader \in readers : Read(reader))
    /\ WF_vars(\E message \in inbox : HandleMessage(message))
    /\ WF_vars(\E i \in 1..Len(commands) : Take(i))
    /\ WF_vars(\E i \in 1..Len(commands) : GiveUp(i))
FairSpec == Spec /\ Fairness

\* The interface never waits for ever: a submission leads to a new position, a refusal
\* or a stop, and a call of the client returns.
InterfaceAnswers ==
    /\ (ui.busy /\ ~ui.quit) ~> (~ui.busy \/ ui.stopped \/ ui.quit)
    /\ Expects ~> (~Expects \/ ui.quit)
=============================================================================
