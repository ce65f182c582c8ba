------------------------------- MODULE Watch -------------------------------
(***************************************************************************)
(* The two readers of a script's changes.  The game driver relays hints    *)
(* through a goroutine of its own and inspects the index around each wait  *)
(* (src/internal/game/driver_watch.go, driver_observe.go, driver.go); the  *)
(* balance of the wallet is queried after every event of its stream        *)
(* (src/internal/client/balance.go).  Init chooses which of the two runs.  *)
(***************************************************************************)
EXTENDS ScriptStream

CONSTANT HintSize       \* hints that wait for the driver

ASSUME HintAssumption == HintSize \in Nat \ {0}

VARIABLES
    reader,         \* the loop: its kind, its phase, where it goes once attached,
                    \* and the hint in its hand
    watch,          \* driverWatch, with the phase of its goroutine
    known,          \* changes the reader has recorded or shown
    unavailable     \* the balance shown is an error

vars == <<streamVars, reader, watch, known, unavailable>>
shownVars == <<known, unavailable>>

NoWatch == [phase |-> "none", changed |-> FALSE, hints |-> <<>>, gap |-> FALSE, fault |-> FALSE]

Init ==
    /\ StreamInit
    /\ reader \in [kind : {"driver", "balance"}, phase : {"step"}, goal : {"none"}, hint : {0}]
    /\ watch = NoWatch /\ known = 0 /\ unavailable = FALSE

Driver(phase) == reader.kind = "driver" /\ reader.phase = phase
Balance(phase) == reader.kind = "balance" /\ reader.phase = phase
GoTo(phase) == reader' = [reader EXCEPT !.phase = phase, !.goal = "none", !.hint = 0]

(***************************************************************************)
(* The goroutine of ensureWatch: every event wakes the driver after what   *)
(* it says has been stored.                                                *)
(***************************************************************************)
Stored(event) ==
    CASE event.kind = "gap" -> [watch EXCEPT !.gap = TRUE]
      [] event.kind = "error" -> [watch EXCEPT !.fault = TRUE]
      [] event.kind = "changed" ->
            IF Len(watch.hints) < HintSize
            THEN [watch EXCEPT !.hints = Append(@, event.change)]
            ELSE [watch EXCEPT !.gap = TRUE]
      [] OTHER -> watch

Relay ==
    /\ watch.phase = "reading"
    /\ \E event \in {Gap, Error, Started} \cup {Changed(k) : k \in 1..MaxChanges} :
          ReadNext(event) /\ watch' = [Stored(event) EXCEPT !.phase = "waking"]
    /\ UNCHANGED <<changes, wire, failures, reader, shownVars>>

\* Slip: only hints wake the driver.
WakeForHints ==
    /\ watch.phase = "waking"
    /\ watch' = [watch EXCEPT !.changed = @ \/ watch.hints # <<>>,
                              !.phase = IF watch.fault THEN "ended" ELSE "reading"]
    /\ UNCHANGED <<streamVars, reader, shownVars>>

Wake ==
    /\ watch.phase = "waking"
    /\ watch' = [watch EXCEPT !.changed = TRUE,
                              !.phase = IF watch.fault THEN "ended" ELSE "reading"]
    /\ UNCHANGED <<streamVars, reader, shownVars>>

(***************************************************************************)
(* ensureWatch: a gap or a fault is mended by a fresh attachment.          *)
(***************************************************************************)
Healthy == watch.phase # "none" /\ ~watch.gap /\ ~watch.fault

\* Goes on to `phase` with a watch, attaching one first where there is none.
Ensure(phase) ==
    IF Healthy
    THEN GoTo(phase) /\ UNCHANGED <<wire, stream, watch>>
    ELSE /\ Subscribe /\ watch' = NoWatch
         /\ reader' = [reader EXCEPT !.phase = "attach", !.goal = phase, !.hint = 0]

Attaching(phase) == Driver("attach") /\ reader.goal = phase

Attached(phase) ==
    /\ Attaching(phase) /\ Ready
    /\ watch' = [NoWatch EXCEPT !.phase = "reading"] /\ GoTo(phase)
    /\ UNCHANGED <<streamVars, shownVars>>

\* The driver stops with the error of the attachment.
AttachmentFailed(phase) ==
    /\ Attaching(phase) /\ Refused
    /\ Unsubscribe /\ GoTo("halted")
    /\ UNCHANGED <<changes, failures, watch, shownVars>>

Waits == {"inspect", "select", "look again"}

(***************************************************************************)
(* The driver.  Players alternate: after an even number of changes it      *)
(* waits for the opponent, after an odd one for its own user.              *)
(***************************************************************************)
OpponentsTurn == known % 2 = 0

BeginStep ==
    /\ Driver("step")
    /\ IF OpponentsTurn THEN Ensure("inspect") ELSE GoTo("inspect") /\ UNCHANGED <<wire, stream, watch>>
    /\ UNCHANGED <<changes, failures, shownVars>>

\* commit: an observed spend ends the watch as well.
Learn ==
    /\ known' = known + 1 /\ GoTo("step")
    /\ Unsubscribe /\ watch' = NoWatch

\* waitForSource: the first inspection.  With nothing new the driver waits for a hint,
\* unless the opponent's deadline is over; on its user's turn it only waits for input.
Inspect ==
    /\ Driver("inspect")
    /\ IF known < changes
       THEN Learn
       ELSE /\ UNCHANGED known
            /\ \/ OpponentsTurn /\ Ensure("select")
               \/ GoTo("rest") /\ UNCHANGED <<wire, stream, watch>>
    /\ UNCHANGED <<changes, failures, unavailable>>

\* waitHint: at most one hint; the wakeup and the hint are two channels.
TakeHint ==
    /\ Driver("select") \/ Driver("poll")
    /\ watch.hints # <<>>
    /\ reader' = [reader EXCEPT !.phase = "check", !.hint = Head(watch.hints)]
    /\ watch' = [watch EXCEPT !.hints = Tail(@)]
    /\ UNCHANGED <<streamVars, shownVars>>

NoHint ==
    /\ Driver("poll") /\ watch.hints = <<>>
    /\ GoTo("check")
    /\ UNCHANGED <<streamVars, watch, shownVars>>

\* The select of waitHint, or that of Run: woken by the watch or by a timer of 250 ms.
AfterWaiting == IF reader.phase = "select" THEN "poll" ELSE "step"
WaitingForWatch == (Driver("select") /\ watch.hints = <<>>) \/ Driver("rest")

Woken ==
    /\ WaitingForWatch /\ watch.changed
    /\ watch' = [watch EXCEPT !.changed = FALSE] /\ GoTo(AfterWaiting)
    /\ UNCHANGED <<streamVars, shownVars>>

Timer ==
    /\ WaitingForWatch
    /\ GoTo(AfterWaiting)
    /\ UNCHANGED <<streamVars, watch, shownVars>>

\* A hint of an incomplete stream is discarded; a hint of a spend of the source is
\* looked up before the second inspection.
CheckHint ==
    /\ Driver("check")
    /\ IF ~Healthy THEN Ensure("look again") /\ UNCHANGED known
       ELSE IF reader.hint = known + 1 THEN Learn
       ELSE GoTo("look again") /\ UNCHANGED <<wire, stream, watch, known>>
    /\ UNCHANGED <<changes, failures, unavailable>>

LookAgain ==
    /\ Driver("look again")
    /\ IF known < changes THEN Learn ELSE GoTo("rest") /\ UNCHANGED <<wire, stream, watch, known>>
    /\ UNCHANGED <<changes, failures, unavailable>>

DriverSteps ==
    \/ BeginStep \/ Inspect \/ TakeHint \/ NoHint \/ Woken \/ CheckHint \/ LookAgain
    \/ \E phase \in Waits : Attached(phase) \/ AttachmentFailed(phase)

(***************************************************************************)
(* watchBalance: attach, then query, then query again after every change;  *)
(* after a gap or an error, begin anew a second later.                     *)
(***************************************************************************)
Attach ==
    /\ Balance("step")
    /\ Subscribe /\ GoTo("attaching")
    /\ UNCHANGED <<changes, failures, watch, shownVars>>

Unavailable == Unsubscribe /\ unavailable' = TRUE /\ GoTo("retry") /\ UNCHANGED <<changes, known, watch>>

AttachEnds ==
    /\ Balance("attaching")
    /\ \/ Ready /\ GoTo("refresh") /\ UNCHANGED <<streamVars, watch, shownVars>>
       \/ Refused /\ Unavailable /\ UNCHANGED failures

\* The latest balance replaces one that was not read yet.
Refresh ==
    /\ Balance("refresh")
    /\ known' = changes /\ unavailable' = FALSE
    /\ GoTo("next")
    /\ UNCHANGED <<streamVars, watch>>

RefreshFails == Balance("refresh") /\ MayFail /\ failures' = failures + 1 /\ Unavailable

ReadEvent ==
    /\ Balance("next")
    /\ \/ /\ ReadNext(Started)
          /\ UNCHANGED <<changes, wire, failures, reader, watch, shownVars>>
       \/ /\ \E k \in 1..MaxChanges : ReadNext(Changed(k))
          /\ GoTo("refresh")
          /\ UNCHANGED <<changes, wire, failures, watch, shownVars>>
       \/ Terminated /\ Unavailable /\ UNCHANGED failures

Retry ==
    /\ Balance("retry")
    /\ GoTo("step")
    /\ UNCHANGED <<streamVars, watch, shownVars>>

BalanceSteps == Attach \/ AttachEnds \/ Refresh \/ ReadEvent \/ Retry

Next ==
    \/ (Change \/ Register \/ Recv \/ Break) /\ UNCHANGED <<reader, watch, shownVars>>
    \/ Relay \/ Wake \/ DriverSteps \/ Timer
    \/ BalanceSteps \/ RefreshFails

Spec == Init /\ [][Next]_vars

(***************************************************************************)
(* Goroutines run, and the balance's timer of a second fires.  The timer   *)
(* of 250 ms is relied upon only where the driver keeps no watch, on its   *)
(* user's turn: elsewhere it only shortens a wait that would end anyway.   *)
(***************************************************************************)
Fairness ==
    /\ WF_vars((Register \/ Recv) /\ UNCHANGED <<reader, watch, shownVars>>)
    /\ WF_vars(Relay) /\ WF_vars(Wake)
    /\ WF_vars(DriverSteps) /\ WF_vars(BalanceSteps)
    /\ WF_vars(Timer /\ ~OpponentsTurn)
FairSpec == Spec /\ Fairness

Current == known = changes /\ ~unavailable

\* A change that nobody has looked at finds its reader awake, or is going to wake it:
\* whatever order attaching, storing, waking and inspecting come in, no reader waits
\* without one of them ahead.  Only what has happened is recorded.
Announced == Terminated \/ stream.events # <<>> \/ wire.frames # <<>>
ChangeAnnounced ==
    \/ Terminated
    \/ \E i \in DOMAIN stream.events : stream.events[i].kind = "changed"
    \/ \E i \in DOMAIN wire.frames : wire.frames[i].kind = "changed"
NoWakeupIsLost ==
    /\ (Driver("select") \/ Driver("rest")) /\ OpponentsTurn /\ known < changes =>
          watch.changed \/ watch.phase = "waking" \/ (watch.phase = "reading" /\ Announced)
    /\ Balance("next") /\ ~Current => ChangeAnnounced
    /\ known <= changes

\* "Attach before querying so a change during the fetch stays queued"
\* (src/internal/client/balance.go:63), "A bounded queue cannot silently lose ...
\* hints" (driver_watch.go:79): whatever overflows, breaks or arrives between two
\* steps, the reader ends up with the latest change - the driver without waiting
\* for its timer while it expects the opponent - or has stopped with an error.
EveryChangeIsNoticed == ~Current ~> (Current \/ Driver("halted"))
=============================================================================
