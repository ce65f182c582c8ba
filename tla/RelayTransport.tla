--------------------------- MODULE RelayTransport ----------------------------
(***************************************************************************)
(* The transport of one process (src/internal/nostr/transport.go,          *)
(* stream.go) and the driver's goroutine that uses it                      *)
(* (src/internal/game/driver_effects.go): a reader that fills a bounded    *)
(* queue of frames, calls that empty it while they wait for an answer or a *)
(* message, and a connection that may end at any time, after which the     *)
(* relay sends everything it stores again.                                 *)
(*                                                                         *)
(* What a message means is Setup's business; here it has an author, a      *)
(* number and a body.                                                      *)
(***************************************************************************)
EXTENDS Integers, FiniteSets, Sequences

CONSTANTS
    Peers,          \* authors whose messages reach this process
    Rounds,         \* messages of each side: 2
    QueueLimit,     \* frames between reader and calls: 8
    RetainLimit,    \* MaxPendingMessages: 8
    MaxFaults       \* model bound: failures of all kinds together

ASSUME LimitsAssumption ==
    /\ {Rounds, QueueLimit, RetainLimit} \subseteq Nat \ {0}
    /\ MaxFaults \in Nat

VARIABLES
    invitation,     \* the creator's key for one who joined; nothing for the creator
    posted,         \* the messages for this process that the relay stores
    stored,         \* the carriers of this process that the relay stores
    game,           \* durable: messages taken, number sent, carrier saved
    transport,      \* volatile: Transport's fields
    stream,         \* the connection: frames under way, frames queued, why it ended
    call,           \* what the driver's goroutine is doing
    faults

transportVars == <<invitation, posted, stored, game, transport, stream, call, faults>>

NoStream == [cause |-> "closed", authors |-> {}, coming |-> {}, frames |-> <<>>]
Ended(cause) == [NoStream EXCEPT !.cause = cause]
Fresh == [ready |-> FALSE, pin |-> {}, cursor |-> 0, received |-> {}]

Init ==
    /\ invitation \in {{}} \cup {{p} : p \in Peers}
    /\ posted = {} /\ stored = {}
    /\ game = [taken |-> <<>>, sent |-> 0, publication |-> {}]
    /\ transport = Fresh /\ stream = NoStream
    /\ call = "idle"
    /\ faults = 0

Over == game.sent = Rounds /\ Len(game.taken) = Rounds

\* The creator answers what it has heard, the joiner speaks first.
Publishing ==
    /\ game.sent < Rounds
    /\ IF invitation = {} THEN game.sent < Len(game.taken) ELSE game.sent = Len(game.taken)

\* An error of a call ends the process; its log stays.
ProcessEnds == call' = "down" /\ transport' = Fresh /\ stream' = NoStream

Fault == faults < MaxFaults /\ faults' = faults + 1

(***************************************************************************)
(* Frames.                                                                 *)
(***************************************************************************)
EventFrame(m) == [kind |-> "EVENT", body |-> m]
Acknowledgement(c, ok) == [kind |-> "OK", body |-> c, accepted |-> ok]
EndOfStored == [kind |-> "EOSE"]
SubscriptionClosed == [kind |-> "CLOSED"]

Selects(authors, m) == authors = {} \/ m.from \in authors
\* Slip: only what is sent from now on is asked for.
SubscriptionSince(authors) ==
    [cause |-> "none", authors |-> authors, frames |-> <<>>, coming |-> {EndOfStored}]

\* No since, until or limit: the relay sends all it stores.
Subscription(authors) ==
    [cause |-> "none", authors |-> authors, frames |-> <<>>,
     coming |-> {EndOfStored} \cup {EventFrame(m) : m \in {e \in posted : Selects(authors, e)}}]

Connected == stream.cause = "none"
Sends(frame) == IF Connected THEN [stream EXCEPT !.coming = @ \cup {frame}] ELSE stream

\* The peer goes on as far as it was answered; no setup message follows another unasked.
Asked(a, n) ==
    LET answers == Cardinality({c \in stored : c.to = a})
    IN IF invitation = {} THEN n <= answers ELSE {a} = invitation /\ n < answers

\* A second body under one number is a failure of its author's.
Post(a, n) ==
    LET earlier == {e \in posted : e.from = a /\ e.seq = n}
        m == [from |-> a, seq |-> n, body |-> Cardinality(earlier)]
    IN
    /\ Asked(a, n)
    /\ IF earlier = {} THEN UNCHANGED faults ELSE Fault
    /\ posted' = posted \cup {m}
    /\ stream' = IF Selects(stream.authors, m) THEN Sends(EventFrame(m)) ELSE stream
    /\ UNCHANGED <<invitation, stored, game, transport, call>>

\* A relay marks the end of what it stores after the last of it.
IsNext(frame) ==
    /\ frame \in stream.coming
    /\ frame = EndOfStored => \A f \in stream.coming : f.kind # "EVENT"

\* Slip: a full queue drops the frame.
ReadDrops(frame) ==
    /\ Connected /\ IsNext(frame)
    /\ stream' = IF Len(stream.frames) < QueueLimit
                 THEN [stream EXCEPT !.coming = @ \ {frame}, !.frames = Append(@, frame)]
                 ELSE [stream EXCEPT !.coming = @ \ {frame}]
    /\ UNCHANGED <<invitation, posted, stored, game, transport, call, faults>>

\* The lifetime reader: what does not fit the queue ends the connection.
Read(frame) ==
    /\ Connected /\ IsNext(frame)
    /\ stream' = IF Len(stream.frames) < QueueLimit
                 THEN [stream EXCEPT !.coming = @ \ {frame}, !.frames = Append(@, frame)]
                 ELSE Ended("limit")
    /\ UNCHANGED <<invitation, posted, stored, game, transport, call, faults>>

ConnectionLost ==
    /\ Connected /\ Fault
    /\ stream' = Ended("lost")
    /\ UNCHANGED <<invitation, posted, stored, game, transport, call>>

RelayClosesSubscription ==
    /\ Connected /\ Fault
    /\ SubscriptionClosed \notin stream.coming
    /\ \A i \in DOMAIN stream.frames : stream.frames[i] # SubscriptionClosed
    /\ stream' = Sends(SubscriptionClosed)
    /\ UNCHANGED <<invitation, posted, stored, game, transport, call>>

(***************************************************************************)
(* Opening: before every call, a new connection only where there is none.  *)
(***************************************************************************)
KnownPeer == IF game.taken = <<>> THEN invitation ELSE {game.taken[1].from}
Healthy == transport.ready /\ Connected
PinKnown == transport.pin \cup KnownPeer

\* Slip: every Open subscribes again, on the connection it has.
OpenSubscribesAgain ==
    /\ call = "idle" /\ ~Over
    /\ transport' = [transport EXCEPT !.ready = TRUE, !.pin = PinKnown]
    /\ stream' = IF Healthy THEN [stream EXCEPT !.coming = @ \cup Subscription(PinKnown).coming]
                 ELSE Subscription(PinKnown)
    /\ call' = "opened"
    /\ UNCHANGED <<invitation, posted, stored, game, faults>>

Open ==
    /\ call = "idle" /\ ~Over
    /\ transport' = [transport EXCEPT !.ready = TRUE, !.pin = PinKnown]
    /\ stream' = IF Healthy THEN stream ELSE Subscription(PinKnown)
    /\ call' = "opened"
    /\ UNCHANGED <<invitation, posted, stored, game, faults>>

OpenFails ==
    /\ call = "idle" /\ ~Over /\ ~Healthy /\ Fault
    /\ ProcessEnds
    /\ UNCHANGED <<invitation, posted, stored, game>>

\* requireReady, when the connection ended since.
FindsItEnded ==
    /\ call = "opened" /\ ~Connected /\ ~(Publishing /\ game.publication = {})
    /\ ProcessEnds
    /\ UNCHANGED <<invitation, posted, stored, game, faults>>

(***************************************************************************)
(* Publishing.                                                             *)
(***************************************************************************)
\* The carrier is signed for the pinned peer and saved.
Prepare ==
    /\ call = "opened" /\ Publishing /\ game.publication = {}
    /\ game' = [game EXCEPT !.publication = {[seq |-> game.sent, to |-> p] : p \in transport.pin}]
    /\ call' = "idle"
    /\ UNCHANGED <<invitation, posted, stored, transport, stream, faults>>

\* The saved carrier is written; the relay keeps it, or not, and answers.
WriteCarrier ==
    /\ call = "opened" /\ Publishing /\ Connected
    /\ \E c \in game.publication :
          /\ c.to \in transport.pin
          /\ \/ /\ stored' = stored \cup {c} /\ stream' = Sends(Acknowledgement(c, TRUE))
                /\ UNCHANGED faults
             \/ /\ stream' = Sends(Acknowledgement(c, FALSE)) /\ Fault
                /\ UNCHANGED stored
    /\ transport' = [transport EXCEPT !.ready = FALSE]
    /\ call' = "publishing"
    /\ UNCHANGED <<invitation, posted, game>>

RecordPublished ==
    /\ call = "acknowledged"
    /\ game' = [game EXCEPT !.sent = @ + 1, !.publication = {}]
    /\ call' = "idle"
    /\ UNCHANGED <<invitation, posted, stored, transport, stream, faults>>

PublishTimesOut ==
    /\ call = "publishing" /\ Fault
    /\ ProcessEnds
    /\ UNCHANGED <<invitation, posted, stored, game>>

(***************************************************************************)
(* Receiving.                                                              *)
(***************************************************************************)
Cached == {m \in transport.received : m.seq = transport.cursor}

BeginReceive ==
    /\ call = "opened" /\ ~Publishing /\ Connected
    /\ transport' = [transport EXCEPT !.cursor = Len(game.taken)]
    /\ call' = "receiving"
    /\ UNCHANGED <<invitation, posted, stored, game, stream, faults>>

\* The driver admits the message and saves it.
Deliver ==
    /\ call = "receiving"
    /\ \E m \in Cached : game' = [game EXCEPT !.taken = Append(@, m)]
    /\ call' = "idle"
    /\ UNCHANGED <<invitation, posted, stored, transport, stream, faults>>

\* A quiet wait; one whose connection ended meanwhile leaves the reopening to the next.
QuietWait ==
    /\ call = "receiving"
    /\ transport' = [transport EXCEPT !.ready = Connected]
    /\ call' = "idle"
    /\ UNCHANGED <<invitation, posted, stored, game, stream, faults>>

(***************************************************************************)
(* Transport.pump: a call that waits takes the next frame.                 *)
(***************************************************************************)
Pumping ==
    /\ Connected /\ stream.frames # <<>>
    /\ call \in {"publishing", "receiving"}
    /\ call = "receiving" => Cached = {}
Frame == Head(stream.frames)
Drained == [stream EXCEPT !.frames = Tail(@)]

\* An author other than the pinned one is passed over, and what was consumed before.
Known(m) == {r \in transport.received : r.seq = m.seq}
Ignored(m) ==
    \/ transport.pin # {} /\ m.from \notin transport.pin
    \/ m \in transport.received
    \/ Known(m) = {} /\ m.seq < transport.cursor
Refused(m) ==
    /\ ~Ignored(m)
    /\ \/ transport.pin = {} /\ m.seq # 0
       \/ Known(m) # {}
       \/ Cardinality(transport.received) >= RetainLimit

PumpEvent ==
    /\ Pumping /\ Frame.kind = "EVENT" /\ ~Refused(Frame.body)
    /\ transport' = IF Ignored(Frame.body) THEN transport
                    ELSE [transport EXCEPT !.received = @ \cup {Frame.body},
                                           !.pin = {Frame.body.from}]
    /\ stream' = Drained
    /\ UNCHANGED <<invitation, posted, stored, game, call, faults>>

\* Another call's acknowledgement and the end of what was stored mean nothing.
Answers == call = "publishing" /\ Frame.kind = "OK" /\ Frame.body \in game.publication

PumpOther ==
    /\ Pumping /\ Frame.kind \in {"OK", "EOSE"} /\ ~Answers
    /\ stream' = Drained
    /\ UNCHANGED <<invitation, posted, stored, game, transport, call, faults>>

\* Slip: any answer of the relay completes the publication.
PumpAnyAnswer ==
    /\ Pumping /\ Answers
    /\ stream' = Drained
    /\ transport' = [transport EXCEPT !.ready = TRUE]
    /\ call' = "acknowledged"
    /\ UNCHANGED <<invitation, posted, stored, game, faults>>

PumpAcknowledgement ==
    /\ Pumping /\ Answers /\ Frame.accepted
    /\ stream' = Drained
    /\ transport' = [transport EXCEPT !.ready = TRUE]
    /\ call' = "acknowledged"
    /\ UNCHANGED <<invitation, posted, stored, game, faults>>

\* A refused message or carrier, a closed subscription, an ended connection.
PumpFails ==
    /\ call \in {"publishing", "receiving"}
    /\ \/ ~Connected
       \/ /\ Pumping
          /\ \/ Frame.kind = "EVENT" /\ Refused(Frame.body)
             \/ Answers /\ ~Frame.accepted
             \/ Frame.kind = "CLOSED"
    /\ ProcessEnds
    /\ UNCHANGED <<invitation, posted, stored, game, faults>>

(***************************************************************************)
(* The process.                                                            *)
(***************************************************************************)
Stop ==
    /\ call # "down" /\ Fault
    /\ ProcessEnds
    /\ UNCHANGED <<invitation, posted, stored, game>>

Restart ==
    /\ call = "down"
    /\ call' = "idle"
    /\ UNCHANGED <<invitation, posted, stored, game, transport, stream, faults>>

\* The hand goes on without the transport.
Agreed == Over /\ UNCHANGED transportVars

Pump == PumpEvent \/ PumpOther \/ PumpAcknowledgement \/ PumpFails
DriverStep ==
    \/ Open \/ FindsItEnded \/ Prepare \/ WriteCarrier \/ RecordPublished
    \/ BeginReceive \/ Restart
Reading == \E frame \in stream.coming : Read(frame)
Posting == \E a \in Peers, n \in 0..(Rounds - 1) : Post(a, n)

Next ==
    \/ DriverStep \/ Pump \/ Deliver \/ QuietWait
    \/ Reading \/ Posting
    \/ OpenFails \/ PublishTimesOut \/ ConnectionLost \/ RelayClosesSubscription \/ Stop
    \/ Agreed

Spec == Init /\ [][Next]_transportVars

\* The goroutines run and the peer answers.  A wait lasts a quarter of a second, in which
\* a queued frame is taken and a cached message returned.
Fairness ==
    /\ WF_transportVars(DriverStep) /\ WF_transportVars(Reading) /\ WF_transportVars(Posting)
    /\ SF_transportVars(Pump) /\ SF_transportVars(Deliver)

FairSpec == Spec /\ Fairness
=============================================================================
