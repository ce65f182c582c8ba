-------------------------------- MODULE Setup -------------------------------
(***************************************************************************)
(* Setup (src/internal/game: reduce.go, decide.go, setup_admission.go,     *)
(* driver_effects.go; src/internal/nostr: transport.go): the creator of an *)
(* invitation and those who accepted it exchange four messages through a   *)
(* relay.  Each message is saved, then signed into a carrier which is      *)
(* saved, then published, then recorded as published.  A process may stop  *)
(* between any two of these; its log survives and the relay replays what   *)
(* it stores, in any order and any number of times.                        *)
(*                                                                         *)
(* An invitation may reach several joiners.  Proofs of shuffles and of key *)
(* ownership are valid when they are bound to what the verifier expects; a *)
(* shuffled deck is the number of the process generation that drew it.     *)
(***************************************************************************)
EXTENDS Integers, FiniteSets

CONSTANTS Creator,          \* Player 1
          Joiners,          \* everyone who accepts the invitation as Player 2
          Timeout,          \* initialFundingTimeout: 300 s
          Margin,           \* must be left for funding: 30 s
          SkewAllowed,      \* clock skew the deadline window tolerates: 30 s
          Skews,            \* by how much a joiner's clock may be ahead
          MaxClock,         \* model bound: the clock stops here
          MaxStops          \* model bound: stops of all processes together

ASSUME PartiesAssumption == Creator \notin Joiners /\ IsFiniteSet(Joiners)
ASSUME WindowAssumption ==
    /\ {Timeout, Margin, SkewAllowed, MaxClock, MaxStops} \subseteq Nat
    /\ Margin <= Timeout /\ Skews \subseteq Int

VARIABLES
    log,        \* durable, per party: what replaying its journal yields
    proc,       \* volatile, per party: the driver and its transport
    relay,      \* the carriers the relay stores
    clock,      \* the creator's clock
    ahead,      \* how far each joiner's clock is ahead of it
    stops

vars == <<log, proc, relay, clock, ahead, stops>>

Parties == {Creator} \cup Joiners
Now(p) == IF p = Creator THEN clock ELSE clock + ahead[p]

\* The stages each role passes through; a publication, a reception, or a shuffle
\* leads from one to the next.
CreatorNext ==
    [SessionPrepared |-> "AwaitOpponentKeys", AwaitOpponentKeys |-> "KeysPrepared",
     KeysPrepared |-> "AwaitInitialShuffle", AwaitInitialShuffle |-> "FinalShuffle",
     FinalShuffle |-> "FinalShufflePrepared", FinalShufflePrepared |-> "Agreed"]
JoinerNext ==
    [SessionPrepared |-> "KeysPrepared", KeysPrepared |-> "AwaitOpponentKeys",
     AwaitOpponentKeys |-> "InitialShuffle", InitialShuffle |-> "InitialShufflePrepared",
     InitialShufflePrepared |-> "AwaitFinalShuffle", AwaitFinalShuffle |-> "Agreed"]

Stage(p) == log[p].stage
NextStage(p) == IF p = Creator THEN CreatorNext[Stage(p)] ELSE JoinerNext[Stage(p)]
Publishing(p) == Stage(p) \in {"KeysPrepared", "InitialShufflePrepared", "FinalShufflePrepared"}
Awaiting(p) == Stage(p) \in {"AwaitOpponentKeys", "AwaitInitialShuffle", "AwaitFinalShuffle"}
Over(p) == Stage(p) \in {"Agreed", "Expired", "Invalid"}

EmptyLog ==
    [stage |-> "SessionPrepared", peer |-> {}, nextSend |-> 0, nextReceive |-> 0,
     publication |-> {}, pending |-> {}, initial |-> {}, final |-> {}]

\* A process that has opened nothing yet, with what its transport knows.
Fresh == [up |-> TRUE, opened |-> FALSE, pin |-> {}, cursor |-> 0, received |-> {},
          written |-> FALSE, fault |-> "none"]
Down(fault) == [Fresh EXCEPT !.up = FALSE, !.fault = fault]

\* SessionPrepared has been saved: keys drawn, invitation made or accepted.
Init ==
    /\ log = [p \in Parties |-> EmptyLog]
    /\ proc = [p \in Parties |-> Fresh]
    /\ relay = {}
    /\ clock = 0
    /\ ahead \in [Joiners -> Skews]
    /\ stops = 0

Tick ==
    /\ clock < MaxClock
    /\ clock' = clock + 1
    /\ UNCHANGED <<log, proc, relay, ahead, stops>>

(***************************************************************************)
(* Messages and carriers.                                                  *)
(***************************************************************************)
\* shuffleContext: both complete key messages, in order.  The creator's never vary.
Binding(p) == IF p = Creator THEN log[p].peer ELSE {p}

KeyMessage(p) ==
    [from |-> p, seq |-> 0, kind |-> IF p = Creator THEN "KeyReply" ELSE "KeyOffer",
     binding |-> {}, deck |-> 0, over |-> 0, deadline |-> 0]
DeckOf(messages) == (CHOOSE m \in messages : TRUE).deck

\* PendingMessage: the saved shuffle, or else the key message.
PendingMessage(p) == IF log[p].pending = {} THEN {KeyMessage(p)} ELSE log[p].pending

\* peerRequest: a joiner knows the creator from the invitation.
KnownPeer(p) == IF p = Creator THEN log[p].peer ELSE {Creator}

Running(p) == proc[p].up /\ ~Over(p)

(***************************************************************************)
(* Sending.                                                                *)
(***************************************************************************)
\* Slip: a reopened transport is pinned by what it hears, not by the log.
OpenedUnpinned(p) == [proc[p] EXCEPT !.opened = TRUE, !.pin = IF p = Creator THEN @ ELSE {Creator}]

\* openTransport: connects, and pins the peer the log names.
Opened(p) == [proc[p] EXCEPT !.opened = TRUE, !.pin = @ \cup KnownPeer(p)]

Open(p) ==
    /\ Running(p) /\ proc[p] # Opened(p)
    /\ proc' = [proc EXCEPT ![p] = Opened(p)]
    /\ log' = [log EXCEPT ![p].stage = IF @ = "SessionPrepared" THEN NextStage(p) ELSE @]
    /\ UNCHANGED <<relay, clock, ahead, stops>>

Ready(p) == Running(p) /\ proc[p] = Opened(p)

\* Slip: the message is signed again when its publication is retried.
PreparePublicationAgain(p) ==
    /\ Ready(p) /\ Publishing(p) /\ ~proc[p].written
    /\ \E m \in PendingMessage(p) :
          log' = [log EXCEPT ![p].publication =
                    {[to |-> proc[p].pin, at |-> Now(p), message |-> m]}]
    /\ UNCHANGED <<proc, relay, clock, ahead, stops>>

\* PublicationPrepared: the signed carrier is saved before it is sent.
PreparePublication(p) ==
    /\ Ready(p) /\ Publishing(p) /\ log[p].publication = {}
    /\ \E m \in PendingMessage(p) :
          log' = [log EXCEPT ![p].publication =
                    {[to |-> proc[p].pin, at |-> Now(p), message |-> m]}]
    /\ UNCHANGED <<proc, relay, clock, ahead, stops>>

\* The saved carrier is written to the relay, which will acknowledge it.
Publish(p) ==
    /\ Ready(p) /\ Publishing(p) /\ log[p].publication # {} /\ ~proc[p].written
    /\ relay' = relay \cup log[p].publication
    /\ proc' = [proc EXCEPT ![p].written = TRUE]
    /\ UNCHANGED <<log, clock, ahead, stops>>

\* MessagePublished.
RecordPublished(p) ==
    /\ Ready(p) /\ proc[p].written
    /\ log' = [log EXCEPT ![p] = [@ EXCEPT !.nextSend = log[p].nextSend + 1, !.publication = {},
                                           !.pending = {}, !.stage = NextStage(p)]]
    /\ proc' = [proc EXCEPT ![p].written = FALSE]
    /\ UNCHANGED <<relay, clock, ahead, stops>>

(***************************************************************************)
(* The transport hears a stored carrier: Transport.pump and admit.         *)
(***************************************************************************)
\* The received messages keep their digests after they were consumed.
Admitted(p, m) ==
    LET earlier == {r \in proc[p].received : r.seq = m.seq}
        intruder == proc[p].pin = {} /\ (m.seq # 0 \/ m.kind # "KeyOffer")
    IN CASE intruder -> Down("session")
         [] ~intruder /\ earlier \notin {{}, {m}} -> Down("equivocation")
         [] ~intruder /\ earlier = {} /\ m.seq >= proc[p].cursor ->
                [proc[p] EXCEPT !.received = @ \cup {m}, !.pin = {m.from}]
         [] OTHER -> proc[p]

\* Slip: carriers are not selected by their recipient.
HeardByAll(p, c) ==
    /\ c.message.from \notin {p}
    /\ proc[p].pin \in {{}, {c.message.from}}

\* The subscription selects carriers addressed to p; an author who is p itself, or
\* is not the pinned peer, is passed over.
Heard(p, c) ==
    /\ p \in c.to /\ c.message.from # p
    /\ proc[p].pin \in {{}, {c.message.from}}

Deliver(p, c) ==
    /\ Running(p) /\ proc[p].opened /\ Heard(p, c)
    /\ Admitted(p, c.message) # proc[p]
    /\ proc' = [proc EXCEPT ![p] = Admitted(p, c.message)]
    /\ UNCHANGED <<log, relay, clock, ahead, stops>>

(***************************************************************************)
(* Receiving: receiveMessage, and the reducer's admission.                 *)
(***************************************************************************)
\* Slip: the window takes no account of clock skew.
WindowWithoutSkew(now, deadline) == deadline >= now + Margin /\ deadline <= now + Timeout

DeadlineWindow(now, deadline) ==
    deadline >= now + Margin /\ deadline <= now + Timeout + SkewAllowed

InContext(p, m) ==
    /\ log[p].peer \in {{}, {m.from}}
    /\ p = Creator \/ m.from = Creator
    /\ p = Creator /\ log[p].peer = {} => m.seq = 0 /\ m.kind = "KeyOffer"

AdmittedPeer(p, m) ==
    IF m.kind = (IF p = Creator THEN "KeyOffer" ELSE "KeyReply")
    THEN [log[p] EXCEPT !.peer = {m.from}, !.nextReceive = @ + 1, !.stage = NextStage(p)]
    ELSE [log[p] EXCEPT !.stage = "Invalid"]

AdmittedInitial(p, m) ==
    IF m.kind = "InitialShuffle" /\ m.binding = Binding(p)
    THEN [log[p] EXCEPT !.initial = {m}, !.nextReceive = @ + 1, !.stage = NextStage(p)]
    ELSE [log[p] EXCEPT !.stage = "Invalid"]

AdmittedFinal(p, m) ==
    IF ~DeadlineWindow(Now(p), m.deadline) THEN [log[p] EXCEPT !.stage = "Expired"]
    ELSE IF m.kind = "FinalShuffle" /\ m.binding = Binding(p) /\ m.over = DeckOf(log[p].initial)
    THEN [log[p] EXCEPT !.final = {m}, !.nextReceive = @ + 1, !.stage = NextStage(p)]
    ELSE [log[p] EXCEPT !.stage = "Invalid"]

AdmittedMessage(p, m) ==
    CASE Stage(p) = "AwaitOpponentKeys" -> AdmittedPeer(p, m)
      [] Stage(p) = "AwaitInitialShuffle" -> AdmittedInitial(p, m)
      [] OTHER -> AdmittedFinal(p, m)

Arrived(p) == {m \in proc[p].received : m.seq = log[p].nextReceive}

Receive(p) ==
    /\ Ready(p) /\ Awaiting(p)
    /\ \E m \in Arrived(p) :
          /\ log' = [log EXCEPT ![p] = IF InContext(p, m) THEN AdmittedMessage(p, m) ELSE @]
          /\ proc' = [proc EXCEPT ![p] = IF InContext(p, m) THEN [@ EXCEPT !.cursor = log[p].nextReceive]
                                        ELSE Down("context")]
    /\ UNCHANGED <<relay, clock, ahead, stops>>

\* Slip: asking for a message already passes over it.
PollSkips(p) ==
    /\ Ready(p) /\ Awaiting(p) /\ Arrived(p) = {} /\ proc[p].cursor = log[p].nextReceive
    /\ proc' = [proc EXCEPT ![p].cursor = log[p].nextReceive + 1]
    /\ UNCHANGED <<log, relay, clock, ahead, stops>>

\* Nothing has arrived in time; earlier messages will from now on be passed over.
Poll(p) ==
    /\ Ready(p) /\ Awaiting(p) /\ Arrived(p) = {} /\ proc[p].cursor # log[p].nextReceive
    /\ proc' = [proc EXCEPT ![p].cursor = log[p].nextReceive]
    /\ UNCHANGED <<log, relay, clock, ahead, stops>>

(***************************************************************************)
(* Shuffling.                                                              *)
(***************************************************************************)
Shuffle(p, kind, over, deadline) ==
    [from |-> p, seq |-> log[p].nextSend, kind |-> kind, binding |-> Binding(p),
     deck |-> stops + 1, over |-> over, deadline |-> deadline]

ShuffleInitial(p) ==
    /\ Ready(p) /\ Stage(p) = "InitialShuffle"
    /\ LET m == Shuffle(p, "InitialShuffle", 0, 0)
       IN log' = [log EXCEPT ![p] = [@ EXCEPT !.pending = {m}, !.initial = {m}, !.stage = NextStage(p)]]
    /\ UNCHANGED <<proc, relay, clock, ahead, stops>>

\* The creator reads its clock after the proof is made.
ShuffleFinal(p) ==
    /\ Ready(p) /\ Stage(p) = "FinalShuffle"
    /\ LET m == Shuffle(p, "FinalShuffle", DeckOf(log[p].initial), Now(p) + Timeout)
       IN log' = [log EXCEPT ![p] = [@ EXCEPT !.pending = {m}, !.final = {m}, !.stage = NextStage(p)]]
    /\ UNCHANGED <<proc, relay, clock, ahead, stops>>

(***************************************************************************)
(* A process ends, with an error or without; a new one replays the log.    *)
(***************************************************************************)
Stop(p) ==
    /\ Running(p) /\ stops < MaxStops
    /\ stops' = stops + 1
    /\ proc' = [proc EXCEPT ![p] = Down("none")]
    /\ UNCHANGED <<log, relay, clock, ahead>>

\* Slip: a restarted process shuffles again what it had not seen published.
StartReshuffles(p) ==
    /\ ~proc[p].up
    /\ proc' = [proc EXCEPT ![p] = Fresh]
    /\ log' = [log EXCEPT ![p] = IF Stage(p) = "FinalShufflePrepared"
                                 THEN [@ EXCEPT !.stage = "FinalShuffle", !.pending = {},
                                                !.publication = {}, !.final = {}]
                                 ELSE @]
    /\ UNCHANGED <<relay, clock, ahead, stops>>

Start(p) ==
    /\ ~proc[p].up
    /\ proc' = [proc EXCEPT ![p] = Fresh]
    /\ UNCHANGED <<log, relay, clock, ahead, stops>>

PartyStep(p) ==
    \/ Open(p) \/ PreparePublication(p) \/ Publish(p) \/ RecordPublished(p)
    \/ Receive(p) \/ Poll(p) \/ ShuffleInitial(p) \/ ShuffleFinal(p)

\* Every process that still runs waits for a message nobody will send.
Quiet ==
    /\ \A p \in Parties : Over(p) \/ (Awaiting(p) /\ proc[p].up)
    /\ UNCHANGED vars

Next ==
    \/ Tick \/ Quiet
    \/ \E p \in Parties : PartyStep(p) \/ Stop(p) \/ Start(p)
    \/ \E p \in Parties, c \in relay : Deliver(p, c)

Spec == Init /\ [][Next]_vars
=============================================================================
