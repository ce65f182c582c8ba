--------------------------- MODULE TransportProofs ---------------------------
(***************************************************************************)
(* Theorems about the transport for every set of authors, any number of    *)
(* messages and failures, and any limits.  What the process holds in       *)
(* memory is bound to one peer, and whatever connection or process ends,   *)
(* the log and the relay name the same one.                                *)
(***************************************************************************)
EXTENDS TransportProperties, FiniteSetTheorems, TLAPS

(***************************************************************************)
(* The inductive invariant.                                                *)
(***************************************************************************)
Messages == [from : Peers, seq : Nat, body : Nat]
Carriers == [seq : Nat, to : Peers]

\* An event's body is at the relay, and so is a carrier the relay says it took.
Frames ==
    {EventFrame(m) : m \in posted}
    \cup {Acknowledgement(c, TRUE) : c \in stored}
    \cup {Acknowledgement(c, FALSE) : c \in Carriers}
    \cup {EndOfStored, SubscriptionClosed}

Streams == [cause : {"none", "closed", "lost", "limit"}, authors : SUBSET Peers,
            coming : SUBSET Frames, frames : Seq(Frames)]
Games == [taken : Seq(posted), sent : Nat, publication : SUBSET Carriers]
Transports == [ready : BOOLEAN, pin : SUBSET Peers, cursor : Nat, received : SUBSET posted]
Calls == {"idle", "opened", "publishing", "acknowledged", "receiving", "down"}

Typed ==
    /\ invitation \in {{}} \cup {{p} : p \in Peers}
    /\ posted \subseteq Messages /\ IsFiniteSet(posted)
    /\ stored \subseteq Carriers
    /\ game \in Games
    /\ transport \in Transports
    /\ stream \in Streams
    /\ call \in Calls

\* One peer: its messages were taken, and carriers are prepared and stored for it.
OnePeer ==
    /\ \A i \in DOMAIN game.taken : KnownPeer = {game.taken[i].from}
    /\ \A c \in stored : KnownPeer = {c.to}
    /\ \A c \in game.publication : KnownPeer = {c.to} /\ c.seq = game.sent

\* The process keeps to the peer it pinned: the known one, once a call has begun.
Pinned ==
    /\ \A m \in transport.received : transport.pin = {m.from}
    /\ KnownPeer # {} => transport.pin \subseteq KnownPeer
    /\ \A a, b \in transport.pin : a = b
    /\ call \in {"opened", "publishing", "acknowledged", "receiving"} =>
          KnownPeer \subseteq transport.pin

\* A wait is for the next message; a message before the last wait is not needed.
Waits ==
    /\ transport.cursor <= Len(game.taken)
    /\ call = "receiving" => transport.cursor = Len(game.taken)
    /\ call = "acknowledged" => \E c \in stored : c.seq = game.sent

Bound == OnePeer /\ Pinned /\ Waits

LEMMA SeqGrows ==
    ASSUME NEW S, NEW T, S \subseteq T, NEW q \in Seq(S)
    PROVE  q \in Seq(T)
  OBVIOUS

\* What the stream becomes keeps its type while the relay's stores only grow.
LEMMA FramesGrow ==
    ASSUME posted \subseteq posted', stored \subseteq stored'
    PROVE  Frames \subseteq Frames'
  BY DEF Frames

LEMMA FrameRange ==
    /\ \A m \in posted : EventFrame(m) \in Frames
    /\ \A c \in stored : Acknowledgement(c, TRUE) \in Frames
    /\ \A c \in Carriers : Acknowledgement(c, FALSE) \in Frames
    /\ EndOfStored \in Frames /\ SubscriptionClosed \in Frames
  BY DEF Frames

\* The kind of a frame says what its body is.
LEMMA FrameShape ==
    ASSUME NEW f \in Frames
    PROVE  /\ f.kind = "EVENT" => f.body \in posted /\ f = EventFrame(f.body)
           /\ f.kind = "OK" /\ f.accepted => f.body \in stored
  BY DEF Frames, EventFrame, Acknowledgement, EndOfStored, SubscriptionClosed

LEMMA StreamsGrow ==
    ASSUME posted \subseteq posted', stored \subseteq stored'
    PROVE  Streams \subseteq Streams'
<1>1. Frames \subseteq Frames'
  BY FramesGrow
<1>2. Seq(Frames) \subseteq Seq(Frames')
  BY <1>1, SeqGrows
<1> QED BY <1>1, <1>2 DEF Streams

LEMMA StreamParts ==
    /\ \A cause \in {"closed", "lost", "limit"} : Ended(cause) \in Streams
    /\ NoStream \in Streams
    /\ \A authors \in SUBSET Peers : Subscription(authors) \in Streams
    /\ Typed => \A frame \in Frames : Sends(frame) \in Streams
    /\ Typed /\ stream.frames # <<>> => Drained \in Streams /\ Frame \in Frames
    /\ Typed => \A frame \in stream.coming :
          [stream EXCEPT !.coming = @ \ {frame}, !.frames = Append(@, frame)] \in Streams
<1>1. NoStream \in Streams
  BY DEF Streams, NoStream
<1>2. \A cause \in {"closed", "lost", "limit"} : Ended(cause) \in Streams
  BY <1>1 DEF Streams, Ended
<1>3. \A authors \in SUBSET Peers : Subscription(authors) \in Streams
  BY FrameRange DEF Streams, Subscription
<1>4. Typed => stream \in Streams
  BY DEF Streams, Typed
<1>5. Typed => \A frame \in Frames : Sends(frame) \in Streams
  BY <1>4 DEF Streams, Sends
<1>6. ASSUME Typed, stream.frames # <<>>
      PROVE  Drained \in Streams /\ Frame \in Frames
  <2>1. stream.frames \in Seq(Frames)
    BY <1>4, <1>6 DEF Streams
  <2>2. Tail(stream.frames) \in Seq(Frames) /\ Frame \in Frames
    BY <1>6, <2>1 DEF Frame
  <2> QED BY <1>4, <1>6, <2>2 DEF Streams, Drained
<1>7. ASSUME Typed, NEW frame \in stream.coming
      PROVE  [stream EXCEPT !.coming = @ \ {frame}, !.frames = Append(@, frame)] \in Streams
  <2>1. stream.frames \in Seq(Frames) /\ frame \in Frames
    BY <1>4, <1>7 DEF Streams
  <2>2. Append(stream.frames, frame) \in Seq(Frames)
    BY <2>1
  <2> QED BY <1>4, <1>7, <2>2 DEF Streams
<1> QED BY <1>1, <1>2, <1>3, <1>5, <1>6, <1>7


\* What every action must show of the parts it changes.
LEMMA TypedParts ==
    ASSUME Typed, UNCHANGED invitation,
           posted \subseteq posted', posted' \subseteq Messages, IsFiniteSet(posted'),
           stored \subseteq stored', stored' \subseteq Carriers,
           game' = game \/ game' \in Games,
           transport' = transport \/ transport' \in Transports,
           stream' = stream \/ stream' \in Streams \/ stream' \in Streams',
           call' \in Calls
    PROVE  Typed'
<1>1. game' \in Games'
  <2>1. Seq(posted) \subseteq Seq(posted')
    BY SeqGrows
  <2>2. game' \in Games
    BY DEF Typed
  <2> QED BY <2>1, <2>2 DEF Games
<1>2. transport' \in Transports'
  <2>1. transport' \in Transports
    BY DEF Typed
  <2> QED BY <2>1 DEF Transports
<1>3. stream' \in Streams'
  BY StreamsGrow DEF Typed
<1> QED BY <1>1, <1>2, <1>3 DEF Typed

\* Most actions leave what is posted and stored alone.
LEMMA StoresKept ==
    ASSUME Typed, UNCHANGED <<posted, stored>>
    PROVE  /\ posted \subseteq posted' /\ posted' \subseteq Messages /\ IsFiniteSet(posted')
           /\ stored \subseteq stored' /\ stored' \subseteq Carriers
  BY DEF Typed

LEMMA EndsTyped ==
    ASSUME Typed, ProcessEnds, UNCHANGED <<invitation, posted, stored, game>>
    PROVE  Typed'
<1>1. Fresh \in Transports
  BY DEF Fresh, Transports
<1> QED BY <1>1, StoresKept, StreamParts, TypedParts DEF ProcessEnds, Calls

LEMMA PostTyped ==
    ASSUME Typed, NEW a \in Peers, NEW n \in Nat, Post(a, n)
    PROVE  Typed'
<1> DEFINE earlier == {e \in posted : e.from = a /\ e.seq = n}
           m == [from |-> a, seq |-> n, body |-> Cardinality(earlier)]
<1>1. Cardinality(earlier) \in Nat
  <2>1. earlier \in SUBSET posted /\ IsFiniteSet(posted)
    BY DEF Typed
  <2> HIDE DEF earlier
  <2> QED BY <2>1, FS_Subset, FS_CardinalityType
<1>2. m \in Messages /\ posted' = posted \cup {m}
  BY <1>1 DEF Messages, Post
<1>3. /\ posted \subseteq posted' /\ posted' \subseteq Messages /\ IsFiniteSet(posted')
      /\ stored' = stored /\ stored \subseteq Carriers
  <2> HIDE DEF m
  <2>1. IsFiniteSet(posted \cup {m}) /\ posted \subseteq Messages /\ stored \subseteq Carriers
    BY FS_AddElement DEF Typed
  <2> QED BY <1>2, <2>1 DEF Post
<1>4. stream' \in Streams'
  <2>1. stream \in Streams'
    BY <1>3, StreamsGrow DEF Typed
  <2>2. EventFrame(m) \in Frames'
    <3> HIDE DEF m
    <3> QED BY <1>2 DEF Frames
  <2>3. stream' = stream \/ stream' = [stream EXCEPT !.coming = @ \cup {EventFrame(m)}]
    BY DEF Post, Sends
  <2> HIDE DEF m
  <2> QED BY <2>1, <2>2, <2>3 DEF Streams
<1> QED BY <1>3, <1>4, TypedParts DEF Post, Typed

LEMMA WriteTyped == Typed /\ WriteCarrier => Typed'
<1> SUFFICES ASSUME Typed, WriteCarrier PROVE Typed'
  OBVIOUS
<1>1. PICK c \in game.publication :
          /\ c.to \in transport.pin
          /\ \/ stored' = stored \cup {c} /\ stream' = Sends(Acknowledgement(c, TRUE))
             \/ stream' = Sends(Acknowledgement(c, FALSE)) /\ stored' = stored
  BY DEF WriteCarrier
<1>2. c \in Carriers /\ transport \in Transports /\ stored \subseteq Carriers
  BY DEF Typed, Games
<1>3. transport' \in Transports
  BY <1>2 DEF WriteCarrier, Transports
<1>4. posted' = posted /\ stored \subseteq stored' /\ stored' \subseteq Carriers
  BY <1>1, <1>2 DEF WriteCarrier
<1>5. stream \in Streams'
  BY <1>4, StreamsGrow DEF Typed
<1>6. \E f \in Frames' : stream' = Sends(f)
  BY <1>1, <1>2 DEF Frames
<1>7. stream' \in Streams'
  BY <1>5, <1>6 DEF Sends, Streams
<1> QED BY <1>3, <1>4, <1>7, TypedParts DEF WriteCarrier, Typed, Calls

LEMMA StreamTyped ==
    ASSUME Typed, (\E frame \in stream.coming : Read(frame)) \/ ConnectionLost
                  \/ RelayClosesSubscription \/ PumpOther
    PROVE  Typed'
<1>1. stream' \in Streams /\ call' \in Calls
  BY StreamParts, FrameRange
     DEF Typed, Read, ConnectionLost, RelayClosesSubscription, PumpOther, Pumping
<1> QED BY <1>1, StoresKept, TypedParts
        DEF Read, ConnectionLost, RelayClosesSubscription, PumpOther

LEMMA CallTyped ==
    ASSUME Typed, Open \/ Prepare \/ RecordPublished \/ BeginReceive \/ Deliver \/ QuietWait
                  \/ PumpEvent \/ PumpAcknowledgement \/ Restart
    PROVE  Typed'
<1> USE DEF Open, Prepare, RecordPublished, BeginReceive, Deliver, QuietWait,
            PumpEvent, PumpAcknowledgement, Restart
<1>1. /\ transport \in Transports /\ game \in Games /\ game.taken \in Seq(posted)
      /\ transport.pin \subseteq Peers /\ posted \subseteq Messages
      /\ game.sent \in Nat /\ invitation \subseteq Peers
  BY DEF Typed, Transports, Games
<1>2. KnownPeer \subseteq Peers
  <2>1. game.taken # <<>> => game.taken[1] \in Messages
    BY <1>1
  <2> QED BY <1>1, <2>1 DEF KnownPeer, Messages
<1>3. UNCHANGED <<posted, stored, invitation>> /\ call' \in Calls
  BY DEF Calls, Typed
<1>4. stream' = stream \/ stream' \in Streams
  BY <1>1, <1>2, StreamParts DEF PinKnown, Pumping
<1>5. game' = game \/ game' \in Games
  <2>1. CASE Prepare
    <3>1. {[seq |-> game.sent, to |-> p] : p \in transport.pin} \subseteq Carriers
      BY <1>1 DEF Carriers
    <3> QED BY <1>1, <2>1, <3>1 DEF Games
  <2>2. CASE RecordPublished
    <3>1. game' = [game EXCEPT !.sent = @ + 1, !.publication = {}]
      BY <2>2
    <3>2. game.sent + 1 \in Nat /\ {} \subseteq Carriers
      BY <1>1
    <3> QED BY <1>1, <3>1, <3>2 DEF Games
  <2>3. CASE Deliver
    <3>1. PICK m \in Cached : game' = [game EXCEPT !.taken = Append(@, m)]
      BY <2>3
    <3>2. m \in posted
      BY <1>1 DEF Cached, Transports
    <3>3. Append(game.taken, m) \in Seq(posted)
      BY <1>1, <3>2
    <3> QED BY <1>1, <3>1, <3>3 DEF Games
  <2> QED BY <2>1, <2>2, <2>3
<1>6. transport' = transport \/ transport' \in Transports
  <2>1. CASE Open
    BY <1>1, <1>2, <2>1 DEF Transports, PinKnown
  <2>2. CASE BeginReceive
    BY <1>1, <2>2 DEF Transports
  <2>3. CASE QuietWait \/ PumpAcknowledgement
    BY <1>1, <2>3 DEF Transports, Connected
  <2>4. CASE PumpEvent
    <3>1. Frame.body \in posted /\ Frame.body.from \in Peers
      BY <1>1, <2>4, StreamParts, FrameShape DEF Pumping, Messages
    <3> QED BY <1>1, <2>4, <3>1 DEF Transports
  <2> QED BY <2>1, <2>2, <2>3, <2>4
<1> QED BY <1>3, <1>4, <1>5, <1>6, StoresKept, TypedParts

LEMMA TypedStep == Typed /\ [Next]_transportVars => Typed'
<1> SUFFICES ASSUME Typed, [Next]_transportVars PROVE Typed'
  OBVIOUS
<1>1. CASE Next
  <2>1. CASE FindsItEnded \/ OpenFails \/ PublishTimesOut \/ PumpFails \/ Stop
    BY <2>1, EndsTyped DEF FindsItEnded, OpenFails, PublishTimesOut, PumpFails, Stop
  <2>2. CASE Posting
    BY <2>2, PostTyped, LimitsAssumption DEF Posting
  <2>3. CASE UNCHANGED transportVars
    BY <2>3 DEF transportVars, Typed, Frames, Streams, Transports, Games
  <2> QED BY <1>1, <2>1, <2>2, <2>3, WriteTyped, StreamTyped, CallTyped
          DEF Next, DriverStep, Pump, Reading, Agreed
<1>2. CASE UNCHANGED transportVars
  BY <1>2 DEF transportVars, Typed, Frames, Streams, Transports, Games
<1> QED BY <1>1, <1>2

(***************************************************************************)
(* One peer.                                                               *)
(***************************************************************************)
\* What the invariant says when only the stream, or also the process, changes.
LEMMA StreamBound ==
    ASSUME Bound, UNCHANGED <<invitation, stored, game, transport, call>>
    PROVE  Bound'
  BY DEF Bound, OnePeer, Pinned, Waits, KnownPeer

LEMMA EndsBound ==
    ASSUME Typed, Bound, ProcessEnds, UNCHANGED <<invitation, posted, stored, game>>
    PROVE  Bound'
<1>1. Len(game.taken) \in Nat
  BY DEF Typed, Games
<1>2. transport' = Fresh /\ call' = "down" /\ KnownPeer' = KnownPeer
  BY DEF ProcessEnds, KnownPeer
<1> QED BY <1>1, <1>2 DEF Bound, OnePeer, Pinned, Waits, Fresh

\* At most one peer is known.
LEMMA OneKnown ==
    ASSUME Typed
    PROVE  /\ \A a, b \in KnownPeer : a = b
           /\ invitation # {} /\ game.taken = <<>> => KnownPeer = invitation
  BY DEF Typed, KnownPeer

LEMMA OpenBound == Typed /\ Bound /\ Open => Bound'
<1> SUFFICES ASSUME Typed, Bound, Open PROVE Bound'
  OBVIOUS
<1>1. /\ transport'.pin = transport.pin \cup KnownPeer
      /\ transport'.received = transport.received /\ transport'.cursor = transport.cursor
      /\ call' = "opened" /\ UNCHANGED <<game, invitation, stored>>
  BY DEF Open, PinKnown, Typed, Transports
<1>2. KnownPeer' = KnownPeer
  BY <1>1 DEF KnownPeer
<1>3. OnePeer' /\ Waits'
  BY <1>1, <1>2 DEF Bound, OnePeer, Waits
<1>4. \A m \in transport.received : transport'.pin = {m.from}
  BY <1>1, OneKnown DEF Bound, Pinned
<1>5. \A a, b \in transport'.pin : a = b
  BY <1>1, OneKnown DEF Bound, Pinned
<1> QED BY <1>1, <1>2, <1>3, <1>4, <1>5 DEF Bound, Pinned

\* Whoever has something to send knows to whom.
LEMMA PublisherKnows == Typed /\ Publishing => KnownPeer # {}
  BY DEF Typed, Games, Publishing, KnownPeer

LEMMA PrepareBound == Typed /\ Bound /\ Prepare => Bound'
<1> SUFFICES ASSUME Typed, Bound, Prepare PROVE Bound'
  OBVIOUS
<1>1. KnownPeer # {} /\ call = "opened"
  BY PublisherKnows DEF Prepare
<1>2. transport.pin = KnownPeer
  BY <1>1 DEF Bound, Pinned
<1>3. /\ game'.taken = game.taken /\ game'.sent = game.sent
      /\ game'.publication = {[seq |-> game.sent, to |-> p] : p \in transport.pin}
      /\ UNCHANGED <<invitation, stored, transport>> /\ call' = "idle"
  BY DEF Prepare, Typed, Games
<1>4. KnownPeer' = KnownPeer
  BY <1>3 DEF KnownPeer
<1>5. \A c \in game'.publication : KnownPeer = {c.to} /\ c.seq = game.sent
  BY <1>2, <1>3, OneKnown
<1> QED BY <1>3, <1>4, <1>5 DEF Bound, OnePeer, Pinned, Waits

LEMMA WriteBound == Typed /\ Bound /\ WriteCarrier => Bound'
<1> SUFFICES ASSUME Typed, Bound, WriteCarrier PROVE Bound'
  OBVIOUS
<1>1. /\ \A c \in stored' : c \in stored \/ c \in game.publication
      /\ call = "opened" /\ call' = "publishing" /\ UNCHANGED <<invitation, game>>
  BY DEF WriteCarrier
<1>2. /\ transport'.pin = transport.pin /\ transport'.received = transport.received
      /\ transport'.cursor = transport.cursor
  BY DEF WriteCarrier, Typed, Transports
<1>3. KnownPeer' = KnownPeer
  BY <1>1 DEF KnownPeer
<1> QED BY <1>1, <1>2, <1>3 DEF Bound, OnePeer, Pinned, Waits

LEMMA AcknowledgedBound == Typed /\ Bound /\ PumpAcknowledgement => Bound'
<1> SUFFICES ASSUME Typed, Bound, PumpAcknowledgement PROVE Bound'
  OBVIOUS
<1>1. /\ Frame \in Frames /\ Frame.kind = "OK" /\ Frame.accepted
      /\ Frame.body \in game.publication /\ call = "publishing"
  BY StreamParts DEF PumpAcknowledgement, Pumping, Answers
<1>2. Frame.body \in stored /\ Frame.body.seq = game.sent
  BY <1>1, FrameShape DEF Bound, OnePeer
<1>3. /\ transport'.pin = transport.pin /\ transport'.received = transport.received
      /\ transport'.cursor = transport.cursor /\ call' = "acknowledged"
      /\ UNCHANGED <<invitation, stored, game>>
  BY DEF PumpAcknowledgement, Typed, Transports
<1>4. KnownPeer' = KnownPeer
  BY <1>3 DEF KnownPeer
<1> QED BY <1>1, <1>2, <1>3, <1>4 DEF Bound, OnePeer, Pinned, Waits

LEMMA RecordBound == Typed /\ Bound /\ RecordPublished => Bound'
<1> SUFFICES ASSUME Typed, Bound, RecordPublished PROVE Bound'
  OBVIOUS
<1>1. /\ game'.taken = game.taken /\ game'.publication = {}
      /\ UNCHANGED <<invitation, stored, transport>> /\ call' = "idle"
  BY DEF RecordPublished, Typed, Games
<1>2. KnownPeer' = KnownPeer
  BY <1>1 DEF KnownPeer
<1> QED BY <1>1, <1>2 DEF Bound, OnePeer, Pinned, Waits

LEMMA ReceiveBound ==
    ASSUME Typed, Bound, BeginReceive \/ QuietWait \/ Restart
    PROVE  Bound'
<1> USE DEF BeginReceive, QuietWait, Restart
<1>1. /\ transport'.pin = transport.pin /\ transport'.received = transport.received
      /\ transport'.cursor \in {transport.cursor, Len(game.taken)}
      /\ BeginReceive => transport'.cursor = Len(game.taken) /\ call = "opened"
      /\ UNCHANGED <<invitation, stored, game>>
      /\ (call' = "receiving" /\ BeginReceive) \/ call' = "idle"
  BY DEF Typed, Transports
<1>2. KnownPeer' = KnownPeer /\ Len(game.taken) \in Nat
  BY <1>1 DEF KnownPeer, Typed, Games
<1> QED BY <1>1, <1>2 DEF Bound, OnePeer, Pinned, Waits

LEMMA EventBound == Typed /\ Bound /\ PumpEvent => Bound'
<1> SUFFICES ASSUME Typed, Bound, PumpEvent PROVE Bound'
  OBVIOUS
<1> DEFINE m == Frame.body
<1>1. UNCHANGED <<invitation, stored, game, call>> /\ KnownPeer' = KnownPeer
  BY DEF PumpEvent, KnownPeer
<1>2. OnePeer'
  BY <1>1 DEF Bound, OnePeer
<1>3. CASE transport' = transport
  BY <1>1, <1>3, StreamBound
<1>4. CASE transport' # transport
  <2>1. /\ ~Ignored(m) /\ call \in {"publishing", "receiving"}
        /\ transport' = [transport EXCEPT !.received = @ \cup {m}, !.pin = {m.from}]
    BY <1>4 DEF PumpEvent, Pumping
  <2>2. transport.pin = {} \/ transport.pin = {m.from}
    BY <2>1 DEF Ignored, Bound, Pinned
  <2>3. /\ transport'.received = transport.received \cup {m} /\ transport'.pin = {m.from}
        /\ transport'.cursor = transport.cursor
    BY <2>1 DEF Typed, Transports
  <2>4. Waits'
    BY <1>1, <2>3 DEF Bound, Waits
  <2>5. \A r \in transport'.received : transport'.pin = {r.from}
    BY <2>2, <2>3 DEF Bound, Pinned
  <2>6. KnownPeer # {} => transport.pin = KnownPeer
    BY <2>1 DEF Bound, Pinned
  <2> QED BY <1>1, <1>2, <2>2, <2>3, <2>4, <2>5, <2>6 DEF Bound, Pinned
<1> QED BY <1>3, <1>4

\* The message of a delivery is the pinned peer's, and the next one.
LEMMA Delivered ==
    ASSUME Typed, Bound, call = "receiving", NEW m \in Cached
    PROVE  /\ m \in posted /\ m.seq = Len(game.taken) /\ transport.pin = {m.from}
           /\ KnownPeer = {} \/ KnownPeer = {m.from}
           /\ \A i \in DOMAIN game.taken : game.taken[i].from = m.from
           /\ \A c \in stored : c.to = m.from
<1>1. m \in transport.received /\ m.seq = Len(game.taken)
  BY DEF Cached, Bound, Waits
<1>2. m \in posted /\ transport.pin = {m.from}
  BY <1>1 DEF Typed, Transports, Bound, Pinned
<1>3. KnownPeer = {} \/ KnownPeer = {m.from}
  BY <1>2 DEF Bound, Pinned
<1> QED BY <1>1, <1>2, <1>3 DEF Bound, OnePeer

LEMMA DeliverBound == Typed /\ Bound /\ Deliver => Bound'
<1> SUFFICES ASSUME Typed, Bound, Deliver PROVE Bound'
  OBVIOUS
<1>1. PICK m \in Cached : game' = [game EXCEPT !.taken = Append(@, m)]
  BY DEF Deliver
<1>2. call = "receiving" /\ call' = "idle" /\ UNCHANGED <<invitation, stored, transport>>
  BY DEF Deliver
<1>3. /\ m \in posted /\ transport.pin = {m.from}
      /\ KnownPeer = {} \/ KnownPeer = {m.from}
      /\ \A i \in DOMAIN game.taken : game.taken[i].from = m.from
  BY <1>2, Delivered
<1>4. /\ game'.taken = Append(game.taken, m) /\ game'.sent = game.sent
      /\ game'.publication = game.publication /\ game.taken \in Seq(posted)
  BY <1>1 DEF Typed, Games
<1>5. \A i \in DOMAIN game'.taken : game'.taken[i].from = m.from
  BY <1>3, <1>4
<1>6. KnownPeer' = {m.from}
  <2>1. game'.taken # <<>> /\ 1 \in DOMAIN game'.taken
    BY <1>3, <1>4
  <2> QED BY <1>5, <2>1 DEF KnownPeer
<1>7. OnePeer'
  <2>1. \A c \in stored \cup game.publication : {m.from} = {c.to}
    BY <1>3 DEF Bound, OnePeer
  <2> QED BY <1>2, <1>4, <1>5, <1>6, <2>1 DEF Bound, OnePeer
<1>8. Pinned'
  BY <1>2, <1>3, <1>6 DEF Bound, Pinned
<1>9. Waits'
  <2>1. Len(game'.taken) = Len(game.taken) + 1 /\ Len(game.taken) \in Nat
    BY <1>3, <1>4
  <2>2. transport.cursor = Len(game.taken)
    BY <1>2 DEF Bound, Waits
  <2> QED BY <1>2, <2>1, <2>2 DEF Waits
<1> QED BY <1>7, <1>8, <1>9 DEF Bound

LEMMA BoundStep == Typed /\ Bound /\ [Next]_transportVars => Bound'
<1> SUFFICES ASSUME Typed, Bound, [Next]_transportVars PROVE Bound'
  OBVIOUS
<1>1. CASE FindsItEnded \/ OpenFails \/ PublishTimesOut \/ PumpFails \/ Stop
  BY <1>1, EndsBound DEF FindsItEnded, OpenFails, PublishTimesOut, PumpFails, Stop
<1>2. CASE Posting \/ Reading \/ PumpOther \/ ConnectionLost \/ RelayClosesSubscription
           \/ UNCHANGED transportVars
  BY <1>2, StreamBound DEF Posting, Post, Reading, Read, PumpOther, ConnectionLost,
     RelayClosesSubscription, transportVars
<1> QED BY <1>1, <1>2, OpenBound, PrepareBound, WriteBound, AcknowledgedBound, RecordBound,
           ReceiveBound, EventBound, DeliverBound DEF Next, DriverStep, Pump, Agreed

LEMMA InitInv == Init => Typed /\ Bound
<1> SUFFICES ASSUME Init PROVE Typed /\ Bound
  OBVIOUS
<1>1. IsFiniteSet(posted) /\ posted = {} /\ stored = {}
  BY FS_EmptySet DEF Init
<1>2. game \in Games /\ transport \in Transports /\ stream \in Streams
  <2>1. game = [taken |-> <<>>, sent |-> 0, publication |-> {}] /\ <<>> \in Seq(posted)
    BY DEF Init
  <2>2. transport = Fresh /\ stream = NoStream
    BY DEF Init
  <2> QED BY <2>1, <2>2, StreamParts DEF Fresh, Transports, Games
<1>3. Typed
  BY <1>1, <1>2 DEF Init, Typed, Calls
<1> QED BY <1>3 DEF Init, Fresh, Bound, OnePeer, Pinned, Waits

\* A process deals with one peer: the author of every message it took is the one every
\* carrier was prepared for, across restarts and whatever others send meanwhile.
THEOREM PeersAreKept == Spec => [](Typed /\ Bound)
  BY InitInv, TypedStep, BoundStep, PTL DEF Spec

(***************************************************************************)
(* The channel.                                                            *)
(***************************************************************************)
LEMMA DeliverTakes == Typed /\ Bound /\ Deliver => Channel!Take
<1> SUFFICES ASSUME Typed, Bound, Deliver PROVE Channel!Take
  OBVIOUS
<1>1. PICK m \in Cached : game' = [game EXCEPT !.taken = Append(@, m)]
  BY DEF Deliver
<1>2. game'.taken = Append(game.taken, m) /\ game'.sent = game.sent
  BY <1>1 DEF Typed, Games
<1>3. call = "receiving" /\ UNCHANGED <<posted, stored>>
  BY DEF Deliver
<1> QED BY <1>2, <1>3, Delivered DEF Channel!Take

LEMMA WriteStores == Typed /\ Bound /\ WriteCarrier => Channel!Store \/ UNCHANGED Channel!channelVars
<1> SUFFICES ASSUME Typed, Bound, WriteCarrier, stored' # stored PROVE Channel!Store
  BY DEF WriteCarrier, Channel!channelVars
<1>1. PICK c \in game.publication : stored' = stored \cup {c}
  BY DEF WriteCarrier
<1>2. /\ c \in Carriers /\ c.seq = game.sent /\ KnownPeer = {c.to}
      /\ stored \subseteq Carriers /\ \A d \in stored : d.to = c.to
  <2>1. c \in Carriers /\ stored \subseteq Carriers
    BY DEF Typed, Games
  <2>2. KnownPeer = {c.to} /\ c.seq = game.sent
    BY DEF Bound, OnePeer
  <2>3. \A d \in stored : d.to \in KnownPeer
    BY DEF Bound, OnePeer
  <2> QED BY <2>1, <2>2, <2>3
<1>3. c = [seq |-> game.sent, to |-> c.to]
  BY <1>2 DEF Carriers
<1>4. \A d \in stored' : d.to = c.to
  BY <1>1, <1>2
<1>5. \A d \in stored' : d.seq = game.sent => d = c
  <2>1. \A d \in Carriers : d = [seq |-> d.seq, to |-> d.to]
    BY DEF Carriers
  <2>2. \A d \in stored' : d \in Carriers
    BY <1>1, <1>2
  <2> QED BY <1>3, <1>4, <2>1, <2>2
<1>6. \A d \in stored' : d.seq = game.sent => d \in stored \/ \A e \in stored : e.seq # game.sent
  BY <1>1, <1>5
<1>7. c.to \in {m.from : m \in posted'} \cup {d.to : d \in stored'}
  BY <1>1
<1>8. stored' = stored \cup {[seq |-> game.sent, to |-> c.to]}
  BY <1>1, <1>3
<1>9. UNCHANGED <<posted, game.taken, game.sent>>
  BY DEF WriteCarrier
<1> QED BY <1>4, <1>6, <1>7, <1>8, <1>9 DEF Channel!Store

LEMMA RecordRecords == Typed /\ Bound /\ RecordPublished => Channel!Record
<1> SUFFICES ASSUME Typed, Bound, RecordPublished PROVE Channel!Record
  OBVIOUS
<1>1. \E c \in stored : c.seq = game.sent
  BY DEF RecordPublished, Bound, Waits
<1>2. game'.sent = game.sent + 1 /\ game'.taken = game.taken
  BY DEF RecordPublished, Typed, Games
<1> QED BY <1>1, <1>2 DEF Channel!Record, RecordPublished

\* Whatever connections and processes end, the driver is handed one peer's messages in
\* order, each once, and counts as published what the relay has: the transport implements
\* the channel.
THEOREM ChannelIsImplemented == Spec => ImplementsChannel
<1>1. Init => Channel!ChannelInit
  BY DEF Init, Channel!ChannelInit
<1>2. Typed /\ Bound /\ [Next]_transportVars => [Channel!ChannelNext]_(Channel!channelVars)
  <2> SUFFICES ASSUME Typed, Bound, [Next]_transportVars
               PROVE  Channel!ChannelNext \/ UNCHANGED Channel!channelVars
    OBVIOUS
  <2> USE DEF Channel!ChannelNext, Channel!channelVars
  <2>1. CASE Deliver
    BY <2>1, DeliverTakes
  <2>2. CASE WriteCarrier
    BY <2>2, WriteStores
  <2>3. CASE RecordPublished
    BY <2>3, RecordRecords
  <2>4. CASE Posting
    BY <2>4 DEF Posting, Post, Channel!Others
  <2>5. CASE Prepare
    BY <2>5 DEF Prepare, Typed, Games
  <2>6. CASE Pump \/ QuietWait \/ Reading
    BY <2>6 DEF Pump, PumpEvent, PumpOther, PumpAcknowledgement, PumpFails, QuietWait,
                Reading, Read
  <2>7. CASE Open \/ FindsItEnded \/ BeginReceive \/ Restart
    BY <2>7 DEF Open, FindsItEnded, BeginReceive, Restart
  <2>8. CASE OpenFails \/ PublishTimesOut \/ ConnectionLost \/ RelayClosesSubscription \/ Stop
    BY <2>8 DEF OpenFails, PublishTimesOut, ConnectionLost, RelayClosesSubscription, Stop
  <2>9. CASE Agreed \/ UNCHANGED transportVars
    BY <2>9 DEF Agreed, transportVars
  <2> QED BY <2>1, <2>2, <2>3, <2>4, <2>5, <2>6, <2>7, <2>8, <2>9 DEF Next, DriverStep
<1> QED BY <1>1, <1>2, PeersAreKept, PTL DEF Spec, ImplementsChannel, Channel!ChannelSpec

(***************************************************************************)
(* Nothing is dropped.                                                     *)
(***************************************************************************)
\* Where a message is while the connection lasts.
Kept(m) ==
    \/ ~Selects(stream.authors, m)
    \/ EventFrame(m) \in stream.coming
    \/ \E i \in DOMAIN stream.frames : stream.frames[i] = EventFrame(m)
    \/ Ignored(m)

\* An ignored message stays so while the process runs.
LEMMA IgnoredStays ==
    ASSUME Typed, NEW m, Ignored(m),
           \A a \in transport.pin : transport'.pin = transport.pin,
           UNCHANGED transport.received,
           transport'.cursor \in {transport.cursor, Len(game.taken)},
           transport.cursor <= Len(game.taken), m \in posted
    PROVE  Ignored(m)'
<1>1. /\ transport.cursor \in Nat /\ Len(game.taken) \in Nat /\ m.seq \in Nat
      /\ transport'.cursor \in Nat /\ transport.cursor <= transport'.cursor
  BY DEF Typed, Transports, Games, Messages
<1>2. Known(m)' = Known(m)
  BY DEF Known
<1> QED BY <1>1, <1>2 DEF Ignored

\* Nothing leaves the queue or the wire, and the process remembers what it knew.
LEMMA MoreKept ==
    ASSUME Typed, Bound, NEW m \in posted, Kept(m),
           stream'.authors = stream.authors, stream.coming \subseteq stream'.coming,
           stream'.frames = stream.frames,
           \A a \in transport.pin : transport'.pin = transport.pin,
           UNCHANGED transport.received,
           transport'.cursor \in {transport.cursor, Len(game.taken)}
    PROVE  Kept(m)'
<1>1. transport.cursor <= Len(game.taken)
  BY DEF Bound, Waits
<1>2. Ignored(m) => Ignored(m)'
  BY <1>1, IgnoredStays
<1> QED BY <1>2 DEF Kept, Selects

\* What leaves the queue is no event, or is retained, or was ignored.
LEMMA DrainKept ==
    ASSUME Typed, Bound, NEW m \in posted, Kept(m), stream.frames # <<>>, stream' = Drained,
           Ignored(m) => Ignored(m)', Frame = EventFrame(m) => Ignored(m)'
    PROVE  Kept(m)'
<1>1. /\ stream.frames \in Seq(Frames) /\ stream'.frames = Tail(stream.frames)
      /\ stream'.coming = stream.coming /\ stream'.authors = stream.authors
  BY DEF Typed, Streams, Drained
<1>2. CASE \E i \in DOMAIN stream.frames : stream.frames[i] = EventFrame(m)
  <2>1. PICK i \in DOMAIN stream.frames : stream.frames[i] = EventFrame(m)
    BY <1>2
  <2>2. CASE i = 1
    BY <2>1, <2>2 DEF Frame, Kept
  <2>3. CASE i # 1
    <3>1. i - 1 \in DOMAIN stream'.frames /\ stream'.frames[i - 1] = stream.frames[i]
      BY <1>1, <2>1, <2>3
    <3> QED BY <2>1, <3>1 DEF Kept
  <2> QED BY <2>2, <2>3
<1> QED BY <1>1, <1>2 DEF Kept, Selects

LEMMA ReadKept ==
    ASSUME Typed, NEW m \in posted, Kept(m), NEW frame \in stream.coming, Read(frame),
           Connected'
    PROVE  Kept(m)'
<1>1. stream' = [stream EXCEPT !.coming = @ \ {frame}, !.frames = Append(@, frame)]
  BY DEF Read, Connected, Ended, NoStream
<1>2. /\ stream.frames \in Seq(Frames) /\ stream'.frames = Append(stream.frames, frame)
      /\ stream'.coming = stream.coming \ {frame} /\ stream'.authors = stream.authors
      /\ frame \in Frames
  BY <1>1 DEF Typed, Streams
<1>3. Ignored(m)' <=> Ignored(m)
  BY DEF Read, Ignored, Known
<1>4. CASE EventFrame(m) = frame
  <2>1. /\ Len(stream.frames) + 1 \in DOMAIN stream'.frames
        /\ stream'.frames[Len(stream.frames) + 1] = frame
    BY <1>2
  <2> QED BY <1>4, <2>1 DEF Kept
<1>5. CASE \E i \in DOMAIN stream.frames : stream.frames[i] = EventFrame(m)
  <2>1. \A i \in DOMAIN stream.frames :
           i \in DOMAIN stream'.frames /\ stream'.frames[i] = stream.frames[i]
    BY <1>2
  <2> QED BY <1>5, <2>1 DEF Kept
<1> QED BY <1>2, <1>3, <1>4, <1>5 DEF Kept, Selects

LEMMA EventKept ==
    ASSUME Typed, Bound, NEW m \in posted, Kept(m), PumpEvent
    PROVE  Kept(m)'
<1> DEFINE b == Frame.body
<1>1. /\ stream.frames # <<>> /\ stream' = Drained /\ ~Refused(b)
      /\ Frame \in Frames /\ b \in posted
  BY StreamParts, FrameShape DEF PumpEvent, Pumping
<1>2. Frame = EventFrame(m) => m = b
  BY DEF EventFrame
<1>3. CASE Ignored(b)
  <2>1. transport' = transport
    BY <1>3 DEF PumpEvent
  <2>2. Ignored(m) => Ignored(m)'
    BY <2>1 DEF Ignored, Known
  <2> QED BY <1>1, <1>2, <1>3, <2>2, DrainKept
<1>4. CASE ~Ignored(b)
  <2>1. /\ transport'.received = transport.received \cup {b} /\ transport'.pin = {b.from}
        /\ transport'.cursor = transport.cursor
    BY <1>4 DEF PumpEvent, Typed, Transports
  <2>2. transport.pin = {} \/ transport.pin = {b.from}
    BY <1>4 DEF Ignored, Bound, Pinned
  <2>3. ASSUME Ignored(m) PROVE Ignored(m)'
    <3>1. CASE transport.pin # {} /\ m.from \notin transport.pin
      BY <2>1, <2>2, <3>1 DEF Ignored
    <3>2. CASE m \in transport.received
      BY <2>1, <3>2 DEF Ignored
    <3>3. CASE Known(m) = {} /\ m.seq < transport.cursor
      <4>1. b.seq # m.seq
        BY <1>4, <3>3 DEF Ignored, Known
      <4>2. Known(m)' = {}
        BY <2>1, <3>3, <4>1 DEF Known
      <4> QED BY <2>1, <3>3, <4>2 DEF Ignored
    <3> QED BY <2>3, <3>1, <3>2, <3>3 DEF Ignored
  <2>4. Frame = EventFrame(m) => Ignored(m)'
    BY <1>2, <2>1 DEF Ignored
  <2> QED BY <1>1, <2>3, <2>4, DrainKept
<1> QED BY <1>3, <1>4

LEMMA PostKept ==
    ASSUME Typed, Bound, NothingDroppedSilently, NEW a \in Peers, NEW n \in Nat, Post(a, n),
           Connected', NEW m \in posted'
    PROVE  Kept(m)'
<1> DEFINE e == [from |-> a, seq |-> n,
                 body |-> Cardinality({x \in posted : x.from = a /\ x.seq = n})]
<1>1. /\ posted' = posted \cup {e} /\ UNCHANGED transport
      /\ stream' = IF Selects(stream.authors, e) THEN Sends(EventFrame(e)) ELSE stream
  BY DEF Post
<1> HIDE DEF e
<1>2. Connected /\ stream'.authors = stream.authors /\ stream'.frames = stream.frames
      /\ stream'.coming = IF Selects(stream.authors, e) THEN stream.coming \cup {EventFrame(e)}
                                                       ELSE stream.coming
  BY <1>1 DEF Connected, Sends, Typed, Streams
<1>3. CASE m = e
  BY <1>2, <1>3 DEF Kept, Selects
<1>4. CASE m \in posted
  BY <1>1, <1>2, <1>4, MoreKept DEF NothingDroppedSilently, Kept
<1> QED BY <1>1, <1>3, <1>4

LEMMA OpenKept ==
    ASSUME Typed, Bound, NothingDroppedSilently, Open, NEW m \in posted
    PROVE  Kept(m)'
<1>1. /\ transport'.pin = transport.pin \cup KnownPeer /\ UNCHANGED posted
      /\ transport'.received = transport.received /\ transport'.cursor = transport.cursor
  BY DEF Open, PinKnown, Typed, Transports
<1>2. \A a \in transport.pin : transport'.pin = transport.pin
  BY <1>1, OneKnown DEF Bound, Pinned
<1>3. CASE Healthy
  <2>1. stream' = stream /\ Kept(m)
    BY <1>3 DEF Open, Healthy, NothingDroppedSilently, Kept
  <2> QED BY <1>1, <1>2, <2>1, MoreKept
<1>4. CASE ~Healthy
  <2>1. stream' = Subscription(PinKnown)
    BY <1>4 DEF Open
  <2> QED BY <2>1 DEF Subscription, Kept, Selects
<1> QED BY <1>3, <1>4

LEMMA DroppedStep ==
    Typed /\ Bound /\ NothingDroppedSilently /\ [Next]_transportVars => NothingDroppedSilently'
<1> SUFFICES ASSUME Typed, Bound, NothingDroppedSilently, [Next]_transportVars,
                    Connected', NEW m \in posted'
             PROVE  Kept(m)'
  BY DEF NothingDroppedSilently, Kept
<1>1. CASE FindsItEnded \/ OpenFails \/ PublishTimesOut \/ PumpFails \/ Stop \/ ConnectionLost
  <2>1. ~Connected'
    BY <1>1 DEF FindsItEnded, OpenFails, PublishTimesOut, PumpFails, Stop, ConnectionLost,
                ProcessEnds, Connected, NoStream, Ended
  <2> QED BY <2>1
<1>2. CASE Posting
  BY <1>2, PostKept, LimitsAssumption DEF Posting
<1>3. CASE Open
  BY <1>3, OpenKept DEF Open
<1>4. CASE Reading
  <2>1. Connected /\ m \in posted
    BY <1>4 DEF Reading, Read
  <2> QED BY <1>4, <2>1, ReadKept DEF Reading, NothingDroppedSilently, Kept
<1>5. CASE PumpEvent \/ PumpOther \/ PumpAcknowledgement
  <2>1. m \in posted /\ Kept(m) /\ stream.frames # <<>> /\ stream' = Drained
    BY <1>5 DEF PumpEvent, PumpOther, PumpAcknowledgement, Pumping, NothingDroppedSilently, Kept
  <2>2. CASE PumpEvent
    BY <2>1, <2>2, EventKept
  <2>3. CASE PumpOther \/ PumpAcknowledgement
    <3>1. Frame # EventFrame(m)
      BY <2>3 DEF PumpOther, PumpAcknowledgement, Answers, EventFrame
    <3>2. UNCHANGED <<transport.pin, transport.received, transport.cursor>>
      BY <2>3 DEF PumpOther, PumpAcknowledgement, Typed, Transports
    <3>3. Ignored(m) => Ignored(m)'
      BY <3>2 DEF Ignored, Known
    <3> QED BY <2>1, <3>1, <3>3, DrainKept
  <2> QED BY <1>5, <2>2, <2>3
<1>6. CASE RelayClosesSubscription \/ WriteCarrier \/ Prepare \/ RecordPublished \/ BeginReceive
           \/ Deliver \/ QuietWait \/ Restart \/ Agreed \/ UNCHANGED transportVars
  <2> USE DEF RelayClosesSubscription, WriteCarrier, Prepare, RecordPublished, BeginReceive,
              Deliver, QuietWait, Restart, Agreed, transportVars
  <2>1. /\ UNCHANGED <<posted, transport.pin, transport.received>>
        /\ transport'.cursor \in {transport.cursor, Len(game.taken)}
    BY <1>6 DEF Typed, Transports
  <2>2. stream' = stream \/ \E f : stream' = Sends(f)
    BY <1>6
  <2>3. /\ Connected /\ stream'.authors = stream.authors /\ stream'.frames = stream.frames
        /\ stream.coming \subseteq stream'.coming
    BY <2>2 DEF Sends, Connected, Typed, Streams
  <2>4. Kept(m) /\ m \in posted
    BY <2>1, <2>3 DEF NothingDroppedSilently, Kept
  <2> QED BY <2>1, <2>3, <2>4, MoreKept
<1> QED BY <1>1, <1>2, <1>3, <1>4, <1>5, <1>6 DEF Next, DriverStep, Pump

\* While a connection lasts no setup message disappears, whatever the order in which
\* frames are read and calls come and go.
THEOREM NothingIsDropped == Spec => []NothingDroppedSilently
<1>1. Init => NothingDroppedSilently
  BY DEF Init, NothingDroppedSilently
<1> QED BY <1>1, DroppedStep, PeersAreKept, PTL DEF Spec

(***************************************************************************)
(* Limits.  Of honest messages few enough are ever under way at once: each *)
(* is asked for before it is sent, and read once from each connection.     *)
(***************************************************************************)
Underway == stream.coming \cup {stream.frames[i] : i \in DOMAIN stream.frames}

\* A message beyond the first is an answer to the one peer.
AsAsked ==
    \A m \in posted :
        /\ m.body = 0 /\ m.seq < Rounds
        /\ invitation = {} /\ m.seq > 0 => \E c \in stored : c.to = m.from
        /\ invitation # {} => m.from \in invitation

\* No frame comes twice from one connection, and one answer is awaited at a time.
Once ==
    /\ \A i, j \in DOMAIN stream.frames : stream.frames[i] = stream.frames[j] => i = j
    /\ \A i \in DOMAIN stream.frames : stream.frames[i] \notin stream.coming
    /\ \A f, g \in Underway : f.kind = "OK" /\ g.kind = "OK" => f = g
    /\ \A f \in Underway : f.kind = "OK" => call = "publishing"

\* A connection that selects every author is one on which the peer was, or will be, first heard.
Subscribed ==
    /\ stream.authors \in {{}, transport.pin}
    /\ \A f \in Underway : f.kind = "EVENT" => Selects(stream.authors, f.body)
    /\ stream.authors = {} /\ transport.pin \cup KnownPeer # {} =>
          \E r \in transport.received : r.seq = 0
    /\ stream.authors = {} => \A r \in transport.received : EventFrame(r) \notin Underway

Attended ==
    /\ call = "publishing" => transport.pin # {}
    /\ Connected => Subscribed
    /\ stream.cause # "limit"

HonestInv == Honest => AsAsked /\ Once /\ Attended

LEMMA HonestBefore ==
    ASSUME posted \subseteq posted', Honest'
    PROVE  Honest
  BY DEF Honest

LEMMA AsAskedStays ==
    ASSUME AsAsked, UNCHANGED <<posted, invitation>>, stored \subseteq stored'
    PROVE  AsAsked'
  BY DEF AsAsked

\* Where a connection has ended nothing is under way.
LEMMA EndedHonest ==
    ASSUME AsAsked, Attended, UNCHANGED <<posted, stored, invitation>>,
           stream' \in {NoStream, Ended("lost")},
           call' = "down" \/ UNCHANGED <<call, transport>>
    PROVE  AsAsked' /\ Once' /\ Attended'
<1>1. /\ stream'.coming = {} /\ stream'.frames = <<>> /\ stream'.cause \in {"closed", "lost"}
  BY DEF NoStream, Ended
<1>2. Underway' = {} /\ ~Connected'
  BY <1>1 DEF Underway, Connected
<1>3. Once'
  BY <1>1, <1>2 DEF Once
<1>4. Attended'
  BY <1>1, <1>2 DEF Attended
<1> QED BY <1>3, <1>4, AsAskedStays

\* A step of the driver that neither reads nor writes.
LEMMA SameStream ==
    ASSUME Typed, AsAsked, Once, Attended,
           UNCHANGED <<posted, stored, invitation, stream, transport.pin, transport.received>>,
           call' = "publishing" <=> call = "publishing",
           KnownPeer' # {} => transport.pin \cup KnownPeer # {}
    PROVE  AsAsked' /\ Once' /\ Attended'
<1>1. Underway' = Underway /\ (Connected' <=> Connected)
  BY DEF Underway, Connected
<1>2. Once'
  BY <1>1 DEF Once
<1>3. Attended'
  BY <1>1 DEF Attended, Subscribed, Selects
<1> QED BY <1>2, <1>3, AsAskedStays

LEMMA CallHonest ==
    ASSUME Typed, Bound, AsAsked, Once, Attended,
           Prepare \/ RecordPublished \/ BeginReceive \/ Deliver \/ QuietWait \/ Restart
           \/ Agreed \/ UNCHANGED transportVars
    PROVE  AsAsked' /\ Once' /\ Attended'
<1> USE DEF Prepare, RecordPublished, BeginReceive, Deliver, QuietWait, Restart, Agreed,
            transportVars
<1>1. /\ UNCHANGED <<posted, stored, invitation, stream, transport.pin, transport.received>>
      /\ call' = "publishing" <=> call = "publishing"
  BY DEF Typed, Transports
<1>2. CASE Deliver
  <2>1. transport.received # {} /\ transport.pin # {}
    BY <1>2 DEF Cached, Bound, Pinned
  <2> QED BY <1>1, <2>1, SameStream
<1>3. CASE ~Deliver
  <2>1. game'.taken = game.taken
    BY <1>3 DEF Typed, Games
  <2>2. KnownPeer' = KnownPeer
    BY <1>1, <2>1 DEF KnownPeer
  <2> QED BY <1>1, <2>2, SameStream
<1> QED BY <1>2, <1>3

LEMMA OpenHonest ==
    ASSUME Typed, Bound, AsAsked, Once, Attended, Open
    PROVE  AsAsked' /\ Once' /\ Attended'
<1>1. /\ transport'.pin = transport.pin \cup KnownPeer
      /\ transport'.received = transport.received /\ call = "idle" /\ call' = "opened"
      /\ UNCHANGED <<posted, stored, invitation, game>> /\ KnownPeer' = KnownPeer
  BY DEF Open, PinKnown, KnownPeer, Typed, Transports
<1>2. AsAsked'
  BY <1>1, AsAskedStays
<1>3. CASE Healthy
  <2>1. stream' = stream /\ Connected
    BY <1>3 DEF Open, Healthy
  <2>2. Underway' = Underway
    BY <2>1 DEF Underway
  <2>3. Once'
    BY <1>1, <2>1, <2>2 DEF Once
  <2>4. transport.pin # {} => transport'.pin = transport.pin
    BY <1>1, OneKnown DEF Bound, Pinned
  <2>5. Subscribed
    BY <2>1 DEF Attended
  <2>6. Subscribed'
    BY <1>1, <2>1, <2>2, <2>4, <2>5 DEF Subscribed, Selects
  <2> QED BY <1>1, <1>2, <2>1, <2>3, <2>6 DEF Attended
<1>4. CASE ~Healthy
  <2>1. stream' = Subscription(PinKnown) /\ PinKnown = transport'.pin
    BY <1>1, <1>4 DEF Open, PinKnown
  <2>2. /\ stream'.frames = <<>> /\ stream'.authors = transport'.pin /\ stream'.cause = "none"
        /\ stream'.coming = {EndOfStored} \cup
              {EventFrame(m) : m \in {e \in posted : Selects(transport'.pin, e)}}
    BY <2>1 DEF Subscription
  <2>3. Underway' = stream'.coming
    BY <2>2 DEF Underway
  <2>4. \A f \in Underway' : f.kind # "OK" /\ (f.kind = "EVENT" => Selects(transport'.pin, f.body))
    BY <2>2, <2>3 DEF EndOfStored, EventFrame
  <2>5. Once'
    BY <2>2, <2>4 DEF Once
  <2>6. transport'.pin = {} => transport.received = {} /\ KnownPeer = {}
    BY <1>1 DEF Bound, Pinned
  <2>7. Subscribed'
    BY <1>1, <2>2, <2>4, <2>6 DEF Subscribed, Selects
  <2> QED BY <1>1, <1>2, <2>2, <2>5, <2>7 DEF Attended
<1> QED BY <1>3, <1>4

\* A frame that leaves the queue does not come back.
LEMMA Drains ==
    ASSUME Typed, Once, stream.frames # <<>>, stream' = Drained
    PROVE  /\ Underway' = Underway \ {Frame} /\ Frame \in Underway
           /\ \A i, j \in DOMAIN stream'.frames : stream'.frames[i] = stream'.frames[j] => i = j
           /\ \A i \in DOMAIN stream'.frames : stream'.frames[i] \notin stream'.coming
<1>1. /\ stream.frames \in Seq(Frames) /\ stream'.frames = Tail(stream.frames)
      /\ stream'.coming = stream.coming
  BY DEF Typed, Streams, Drained
<1>2. /\ 1 \in DOMAIN stream.frames /\ Frame = stream.frames[1]
      /\ DOMAIN stream.frames = 1..Len(stream.frames) /\ Len(stream.frames) \in Nat
  BY <1>1 DEF Frame
<1>3. /\ DOMAIN stream'.frames = 1..(Len(stream.frames) - 1)
      /\ \A i \in DOMAIN stream'.frames :
            i + 1 \in DOMAIN stream.frames /\ stream'.frames[i] = stream.frames[i + 1]
  BY <1>1, <1>2
<1>4. \A i \in DOMAIN stream.frames : i # 1 => i - 1 \in DOMAIN stream'.frames
  BY <1>2, <1>3
<1>5. \A i \in DOMAIN stream.frames : i # 1 => stream'.frames[i - 1] = stream.frames[i]
  BY <1>2, <1>3, <1>4
<1>6. Frame \notin stream.coming /\ \A i \in DOMAIN stream'.frames : stream'.frames[i] # Frame
  BY <1>2, <1>3 DEF Once
<1>7. ASSUME NEW f \in Underway', f \notin stream.coming PROVE f \in Underway /\ f # Frame
  BY <1>1, <1>3, <1>6, <1>7 DEF Underway
<1>8. ASSUME NEW f \in Underway, f # Frame PROVE f \in Underway'
  BY <1>1, <1>2, <1>4, <1>5, <1>8 DEF Underway
<1>9. Underway' = Underway \ {Frame}
  <2>1. \A f \in stream.coming : f \in Underway' /\ f \in Underway /\ f # Frame
    BY <1>1, <1>6 DEF Underway
  <2> QED BY <1>6, <1>7, <1>8, <2>1
<1>10. \A i, j \in DOMAIN stream'.frames : stream'.frames[i] = stream'.frames[j] => i = j
  <2> TAKE i, j \in DOMAIN stream'.frames
  <2>1. stream'.frames[i] = stream'.frames[j] => i + 1 = j + 1
    BY <1>3 DEF Once
  <2> QED BY <1>2, <1>3, <2>1
<1>11. \A i \in DOMAIN stream'.frames : stream'.frames[i] \notin stream'.coming
  BY <1>1, <1>3 DEF Once
<1>12. Frame \in Underway
  BY <1>2 DEF Underway
<1> QED BY <1>9, <1>10, <1>11, <1>12

LEMMA PumpHonest ==
    ASSUME Typed, Bound, AsAsked, Once, Attended, PumpEvent \/ PumpOther \/ PumpAcknowledgement
    PROVE  AsAsked' /\ Once' /\ Attended'
<1> DEFINE m == Frame.body
<1>1. /\ Connected /\ stream.frames # <<>> /\ stream' = Drained
      /\ UNCHANGED <<posted, stored, invitation, game>> /\ KnownPeer' = KnownPeer
      /\ call' = call \/ (PumpAcknowledgement /\ call' # "publishing" /\ Frame.kind = "OK")
  BY DEF PumpEvent, PumpOther, PumpAcknowledgement, Pumping, KnownPeer, Answers
<1>2. /\ Underway' = Underway \ {Frame} /\ Frame \in Underway
      /\ \A i, j \in DOMAIN stream'.frames : stream'.frames[i] = stream'.frames[j] => i = j
      /\ \A i \in DOMAIN stream'.frames : stream'.frames[i] \notin stream'.coming
  BY <1>1, Drains
<1>3. /\ stream'.authors = stream.authors /\ stream'.cause = stream.cause /\ Subscribed
      /\ Frame \in Frames
  BY <1>1, StreamParts DEF Drained, Typed, Streams, Attended
<1>4. Once'
  <2>1. \A f, g \in Underway' : f.kind = "OK" /\ g.kind = "OK" => f = g
    BY <1>2 DEF Once
  <2>2. \A f \in Underway' : f.kind = "OK" => call' = "publishing"
    BY <1>1, <1>2 DEF Once
  <2> QED BY <1>2, <2>1, <2>2 DEF Once
<1>5. CASE UNCHANGED <<transport.pin, transport.received>>
  <2>1. Subscribed'
    BY <1>1, <1>2, <1>3, <1>5 DEF Subscribed, Selects
  <2> QED BY <1>1, <1>3, <1>4, <1>5, <2>1, AsAskedStays DEF Attended
<1>6. CASE ~UNCHANGED <<transport.pin, transport.received>>
  <2>1. /\ PumpEvent /\ ~Ignored(m) /\ ~Refused(m)
        /\ transport' = [transport EXCEPT !.received = @ \cup {m}, !.pin = {m.from}]
    BY <1>6 DEF PumpEvent, PumpOther, PumpAcknowledgement, Typed, Transports
  <2>2. /\ transport'.received = transport.received \cup {m} /\ transport'.pin = {m.from}
        /\ Frame = EventFrame(m) /\ call' = call
    BY <1>3, <2>1, FrameShape DEF Typed, Transports, PumpEvent
  <2>3. transport.pin = {} \/ transport.pin = {m.from}
    BY <2>1 DEF Ignored, Bound, Pinned
  <2>4. transport.pin = {} => m.seq = 0 /\ stream.authors = {}
    BY <1>3, <2>1 DEF Refused, Subscribed
  <2>5. stream.authors = {} => \E r \in transport'.received : r.seq = 0
    BY <1>3, <2>2, <2>3, <2>4 DEF Subscribed
  <2>6. stream.authors = {} => \A r \in transport'.received : EventFrame(r) \notin Underway'
    BY <1>2, <1>3, <2>2 DEF Subscribed
  <2>7. Subscribed'
    BY <1>1, <1>2, <1>3, <2>2, <2>3, <2>4, <2>5, <2>6 DEF Subscribed, Selects
  <2> QED BY <1>1, <1>3, <1>4, <2>2, <2>7, AsAskedStays DEF Attended
<1> QED BY <1>5, <1>6

\* What is put on the wire is new there.
LEMMA SendsOnce ==
    ASSUME Typed, Once, Connected, NEW f, f \notin Underway, stream' = Sends(f)
    PROVE  /\ Underway' = Underway \cup {f}
           /\ stream'.frames = stream.frames /\ stream'.authors = stream.authors
           /\ stream'.cause = stream.cause
           /\ \A i, j \in DOMAIN stream'.frames : stream'.frames[i] = stream'.frames[j] => i = j
           /\ \A i \in DOMAIN stream'.frames : stream'.frames[i] \notin stream'.coming
<1>1. /\ stream'.coming = stream.coming \cup {f} /\ stream'.frames = stream.frames
      /\ stream'.authors = stream.authors /\ stream'.cause = stream.cause
  BY DEF Sends, Typed, Streams
<1>2. \A i \in DOMAIN stream.frames : stream.frames[i] # f
  BY DEF Underway
<1> QED BY <1>1, <1>2 DEF Underway, Once

LEMMA CloseHonest ==
    ASSUME Typed, AsAsked, Once, Attended, RelayClosesSubscription
    PROVE  AsAsked' /\ Once' /\ Attended'
<1>1. /\ Connected /\ SubscriptionClosed \notin Underway /\ stream' = Sends(SubscriptionClosed)
      /\ UNCHANGED <<posted, stored, invitation, game, transport, call>> /\ KnownPeer' = KnownPeer
  BY DEF RelayClosesSubscription, Underway, KnownPeer
<1>2. /\ Underway' = Underway \cup {SubscriptionClosed}
      /\ stream'.authors = stream.authors /\ stream'.cause = stream.cause
      /\ \A i, j \in DOMAIN stream'.frames : stream'.frames[i] = stream'.frames[j] => i = j
      /\ \A i \in DOMAIN stream'.frames : stream'.frames[i] \notin stream'.coming
  BY <1>1, SendsOnce
<1>3. /\ SubscriptionClosed.kind = "CLOSED"
      /\ \A r \in transport.received : EventFrame(r) # SubscriptionClosed
  BY DEF SubscriptionClosed, EventFrame
<1>4. Once'
  <2>1. \A f \in Underway' : f.kind = "OK" => f \in Underway
    BY <1>2, <1>3
  <2> QED BY <1>1, <1>2, <2>1 DEF Once
<1>5. Subscribed'
  <2>1. \A f \in Underway' : f.kind = "EVENT" => f \in Underway
    BY <1>2, <1>3
  <2> QED BY <1>1, <1>2, <1>3, <2>1 DEF Subscribed, Selects, Attended
<1> QED BY <1>1, <1>2, <1>4, <1>5, AsAskedStays DEF Attended

LEMMA WriteHonest ==
    ASSUME Typed, AsAsked, Once, Attended, WriteCarrier
    PROVE  AsAsked' /\ Once' /\ Attended'
<1>1. PICK c \in game.publication, ok \in BOOLEAN :
          c.to \in transport.pin /\ stream' = Sends(Acknowledgement(c, ok))
  BY DEF WriteCarrier
<1>2. /\ Connected /\ call = "opened" /\ call' = "publishing" /\ stored \subseteq stored'
      /\ UNCHANGED <<posted, invitation, game>> /\ KnownPeer' = KnownPeer
      /\ transport'.pin = transport.pin /\ transport'.received = transport.received
  BY DEF WriteCarrier, KnownPeer, Typed, Transports
<1> DEFINE ack == Acknowledgement(c, ok)
<1>3. ack.kind = "OK" /\ \A r \in transport.received : EventFrame(r) # ack
  BY DEF Acknowledgement, EventFrame
<1> HIDE DEF ack
<1>4. \A f \in Underway : f.kind # "OK"
  BY <1>2 DEF Once
<1>5. /\ Underway' = Underway \cup {ack}
      /\ stream'.authors = stream.authors /\ stream'.cause = stream.cause
      /\ \A i, j \in DOMAIN stream'.frames : stream'.frames[i] = stream'.frames[j] => i = j
      /\ \A i \in DOMAIN stream'.frames : stream'.frames[i] \notin stream'.coming
  <2>1. ack \notin Underway /\ stream' = Sends(ack)
    BY <1>1, <1>3, <1>4 DEF ack
  <2> QED BY <1>2, <2>1, SendsOnce
<1>6. Once'
  <2>1. \A f \in Underway' : f.kind = "OK" => f = ack
    BY <1>4, <1>5
  <2> QED BY <1>2, <1>5, <2>1 DEF Once
<1>7. Subscribed'
  <2>1. \A f \in Underway' : f.kind = "EVENT" => f \in Underway
    BY <1>3, <1>5
  <2> QED BY <1>2, <1>3, <1>5, <2>1 DEF Subscribed, Selects, Attended
<1> QED BY <1>1, <1>2, <1>5, <1>6, <1>7, AsAskedStays DEF Attended

\* An honest author's message is the first body under its number, and was asked for.
LEMMA PostHonest ==
    ASSUME Typed, Bound, AsAsked, Once, Attended, Honest',
           NEW a \in Peers, NEW n \in 0..(Rounds - 1), Post(a, n)
    PROVE  AsAsked' /\ Once' /\ Attended'
<1> DEFINE earlier == {e \in posted : e.from = a /\ e.seq = n}
           m == [from |-> a, seq |-> n, body |-> Cardinality(earlier)]
           answers == {c \in stored : c.to = a}
<1>1. /\ posted' = posted \cup {m} /\ Asked(a, n)
      /\ stream' = IF Selects(stream.authors, m) THEN Sends(EventFrame(m)) ELSE stream
      /\ UNCHANGED <<invitation, stored, game, transport, call>> /\ KnownPeer' = KnownPeer
  BY DEF Post, KnownPeer
<1>2. Rounds \in Nat
  BY LimitsAssumption
<1>3. earlier = {}
  <2> SUFFICES ASSUME NEW e \in earlier PROVE FALSE
    OBVIOUS
  <2>1. e \in posted /\ e.from = a /\ e.seq = n /\ e.body = 0
    BY DEF AsAsked
  <2>2. m = e
    <3>1. m \in posted' /\ e \in posted' /\ m.from = e.from /\ m.seq = e.seq
      BY <1>1, <2>1
    <3> QED BY <3>1 DEF Honest
  <2>3. Cardinality(earlier) = 0
    BY <2>1, <2>2
  <2>4. IsFiniteSet(earlier)
    <3>1. earlier \in SUBSET posted /\ IsFiniteSet(posted)
      BY DEF Typed
    <3> QED BY <3>1, FS_Subset
  <2> QED BY <2>3, <2>4, FS_EmptySet
<1>4. Cardinality(earlier) = 0
  BY <1>3, FS_EmptySet
<1>5. m.from = a /\ m.seq = n /\ m.body = 0 /\ m \notin posted
  BY <1>3, <1>4
<1>6. n > 0 /\ invitation = {} => \E c \in stored : c.to = a
  <2> SUFFICES ASSUME n > 0, invitation = {}, answers = {} PROVE FALSE
    OBVIOUS
  <2>1. Cardinality(answers) = 0
    BY FS_EmptySet
  <2> QED BY <1>1, <2>1 DEF Asked
<1>7. invitation # {} => a \in invitation
  BY <1>1 DEF Asked
<1> HIDE DEF m
<1>8. AsAsked'
  <2>1. ASSUME NEW x \in posted'
        PROVE  /\ x.body = 0 /\ x.seq < Rounds
               /\ invitation = {} /\ x.seq > 0 => \E c \in stored : c.to = x.from
               /\ invitation # {} => x.from \in invitation
    BY <1>1, <1>2, <1>5, <1>6, <1>7 DEF AsAsked
  <2> QED BY <1>1, <2>1 DEF AsAsked
<1>9. CASE Connected /\ Selects(stream.authors, m)
  <2>1. EventFrame(m) \notin Underway
    <3>1. \A f \in Underway : f \in Frames
      BY DEF Typed, Streams, Underway
    <3>2. \A f \in Underway : f.kind = "EVENT" => f.body \in posted
      BY <3>1, FrameShape
    <3> QED BY <1>5, <3>2 DEF EventFrame
  <2>2. /\ Underway' = Underway \cup {EventFrame(m)}
        /\ stream'.authors = stream.authors /\ stream'.cause = stream.cause
        /\ \A i, j \in DOMAIN stream'.frames : stream'.frames[i] = stream'.frames[j] => i = j
        /\ \A i \in DOMAIN stream'.frames : stream'.frames[i] \notin stream'.coming
    BY <1>1, <1>9, <2>1, SendsOnce
  <2>3. EventFrame(m).kind = "EVENT" /\ EventFrame(m).body = m
    BY DEF EventFrame
  <2>4. Once'
    <3>1. \A f \in Underway' : f.kind = "OK" => f \in Underway
      BY <2>2, <2>3
    <3> QED BY <1>1, <2>2, <3>1 DEF Once
  <2>5. \A r \in transport.received : EventFrame(r) # EventFrame(m)
    <3>1. \A r \in transport.received : r \in posted /\ EventFrame(r).body = r
      BY DEF Typed, Transports, EventFrame
    <3> QED BY <1>5, <2>3, <3>1
  <2>6. Subscribed'
    <3>1. \A f \in Underway' : f.kind = "EVENT" => Selects(stream.authors, f.body)
      BY <1>9, <2>2, <2>3 DEF Subscribed, Attended
    <3> QED BY <1>1, <1>9, <2>2, <2>5, <3>1 DEF Subscribed, Selects, Attended
  <2> QED BY <1>1, <1>8, <2>2, <2>4, <2>6 DEF Attended
<1>10. CASE ~(Connected /\ Selects(stream.authors, m))
  <2>1. stream' = stream
    BY <1>1, <1>10 DEF Sends
  <2>2. Underway' = Underway /\ (Connected' <=> Connected)
    BY <2>1 DEF Underway, Connected
  <2> QED BY <1>1, <1>8, <2>1, <2>2 DEF Once, Attended, Subscribed, Selects
<1> QED BY <1>9, <1>10

\* Limits that hold what one peer sends, and on a creator's first connection one message
\* of every other author, with an end of stored messages, an answer and a closed subscription.
Sufficient ==
    /\ IsFiniteSet(Peers)
    /\ Rounds + 3 <= QueueLimit /\ Cardinality(Peers) + Rounds + 1 <= QueueLimit
    /\ Rounds <= RetainLimit

\* What comes after the first message comes from the pinned peer.
LEMMA LaterIsOwn ==
    ASSUME Typed, Bound, AsAsked, Attended, Connected, NEW m \in posted, m.seq > 0
    PROVE  transport.pin = {m.from}
<1>1. KnownPeer # {} /\ m.from \in KnownPeer
  <2>1. CASE invitation = {}
    <3>1. PICK c \in stored : c.to = m.from
      BY <2>1 DEF AsAsked
    <3> QED BY <3>1 DEF Bound, OnePeer
  <2>2. CASE invitation # {} /\ game.taken = <<>>
    BY <2>2 DEF AsAsked, KnownPeer
  <2>3. CASE invitation # {} /\ game.taken # <<>>
    <3>1. game.taken[1] \in posted
      <4>1. game.taken \in Seq(posted)
        BY DEF Typed, Games
      <4> QED BY <2>3, <4>1
    <3>2. game.taken[1].from \in invitation /\ m.from \in invitation
      BY <2>3, <3>1 DEF AsAsked
    <3>3. game.taken[1].from = m.from
      BY <3>2 DEF Typed
    <3> QED BY <2>3, <3>3 DEF KnownPeer
  <2> QED BY <2>1, <2>2, <2>3
<1>2. transport.pin # {}
  BY <1>1 DEF Attended, Subscribed, Bound, Pinned
<1> QED BY <1>1, <1>2, OneKnown DEF Bound, Pinned

LEMMA FrameKinds ==
    ASSUME NEW f \in Frames
    PROVE  /\ f.kind \in {"EVENT", "OK", "EOSE", "CLOSED"}
           /\ f.kind = "EOSE" => f = EndOfStored
           /\ f.kind = "CLOSED" => f = SubscriptionClosed
  BY DEF Frames, EventFrame, Acknowledgement, EndOfStored, SubscriptionClosed

LEMMA Fits ==
    ASSUME NEW K, IsFiniteSet(K), NEW n \in Nat, NEW key \in [1..n -> K],
           \A i, j \in 1..n : key[i] = key[j] => i = j
    PROVE  n <= Cardinality(K)
<1>1. IsFiniteSet(1..n) /\ Cardinality(1..n) = n
  BY FS_Interval
<1>2. Cardinality(K) \in Nat
  BY FS_CardinalityType
<1>3. ~(Cardinality(K) < Cardinality(1..n))
  <2> DEFINE S == 1..n
  <2>1. IsFiniteSet(S) /\ key \in [S -> K] /\ \A i, j \in S : key[i] = key[j] => i = j
    BY <1>1
  <2> HIDE DEF S
  <2>2. ~(Cardinality(K) < Cardinality(S))
    BY <2>1, FS_PigeonHole
  <2> QED BY <2>2 DEF S
<1> QED BY <1>1, <1>2, <1>3

\* Frames are told apart by author, number or kind.
Keys(firsts, laters, kinds) ==
    ({"first"} \X firsts) \cup ({"later"} \X laters) \cup ({"other"} \X kinds)
Key(f) ==
    IF f.kind # "EVENT" THEN <<"other", f.kind>>
    ELSE IF f.body.seq = 0 THEN <<"first", f.body.from>> ELSE <<"later", f.body.seq>>

LEMMA KeyCount ==
    ASSUME NEW A, IsFiniteSet(A), NEW B, IsFiniteSet(B), NEW C, IsFiniteSet(C)
    PROVE  /\ IsFiniteSet(Keys(A, B, C))
           /\ Cardinality(Keys(A, B, C)) <= Cardinality(A) + Cardinality(B) + Cardinality(C)
<1>1. ASSUME NEW tag, NEW S, IsFiniteSet(S)
      PROVE  IsFiniteSet({tag} \X S) /\ Cardinality({tag} \X S) = Cardinality(S)
  <2>1. IsFiniteSet({tag}) /\ Cardinality({tag}) = 1
    BY FS_Singleton
  <2>2. IsFiniteSet({tag} \X S) /\ Cardinality({tag} \X S) = 1 * Cardinality(S)
    BY <1>1, <2>1, FS_Product
  <2> QED BY <1>1, <2>2, FS_CardinalityType
<1>2. ASSUME NEW S, IsFiniteSet(S), NEW T, IsFiniteSet(T)
      PROVE  IsFiniteSet(S \cup T) /\ Cardinality(S \cup T) <= Cardinality(S) + Cardinality(T)
  <2>1. IsFiniteSet(S \cap T)
    BY <1>2, FS_Intersection
  <2>2. /\ IsFiniteSet(S \cup T)
        /\ Cardinality(S \cup T) = Cardinality(S) + Cardinality(T) - Cardinality(S \cap T)
    BY <1>2, FS_Union
  <2>3. Cardinality(S) \in Nat /\ Cardinality(T) \in Nat /\ Cardinality(S \cap T) \in Nat
    BY <1>2, <2>1, FS_CardinalityType
  <2> QED BY <2>2, <2>3
<1> DEFINE a == {"first"} \X A
           b == {"later"} \X B
           c == {"other"} \X C
<1>3. /\ IsFiniteSet(a) /\ Cardinality(a) = Cardinality(A)
      /\ IsFiniteSet(b) /\ Cardinality(b) = Cardinality(B)
      /\ IsFiniteSet(c) /\ Cardinality(c) = Cardinality(C)
  BY <1>1
<1>4. Keys(A, B, C) = (a \cup b) \cup c
  BY DEF Keys
<1> HIDE DEF a, b, c
<1>5. IsFiniteSet(a \cup b) /\ Cardinality(a \cup b) <= Cardinality(a) + Cardinality(b)
  BY <1>2, <1>3
<1>6. /\ IsFiniteSet((a \cup b) \cup c)
      /\ Cardinality((a \cup b) \cup c) <= Cardinality(a \cup b) + Cardinality(c)
  BY <1>2, <1>3, <1>5
<1> QED BY <1>3, <1>4, <1>5, <1>6, FS_CardinalityType

LEMMA KeysDiffer ==
    ASSUME Typed, Bound, Honest, AsAsked, Once, Attended, Connected,
           NEW f \in Underway, NEW g \in Underway, Key(f) = Key(g)
    PROVE  f = g
<1>1. f \in Frames /\ g \in Frames
  BY DEF Typed, Streams, Underway
<1>2. CASE f.kind # "EVENT"
  <2>1. g.kind # "EVENT" /\ f.kind = g.kind
    <3>1. Key(f) = <<"other", f.kind>>
      BY <1>2 DEF Key
    <3>2. "other" # "first" /\ "other" # "later"
      OBVIOUS
    <3> QED BY <3>1, <3>2 DEF Key
  <2> QED BY <1>1, <1>2, <2>1, FrameKinds DEF Once
<1>3. CASE f.kind = "EVENT"
  <2>1. g.kind = "EVENT"
    <3>1. "other" # "first" /\ "other" # "later"
      OBVIOUS
    <3> QED BY <1>3, <3>1 DEF Key
  <2>2. /\ f.body \in posted /\ f = EventFrame(f.body)
        /\ g.body \in posted /\ g = EventFrame(g.body)
    BY <1>1, <1>3, <2>1, FrameShape
  <2>3. f.body.seq = g.body.seq /\ (f.body.seq = 0 => f.body.from = g.body.from)
    <3>1. "later" # "first"
      OBVIOUS
    <3> QED BY <1>3, <2>1, <3>1 DEF Key
  <2>4. f.body.seq # 0 => f.body.from = g.body.from
    <3>1. f.body.seq \in Nat
      BY <2>2 DEF Typed, Messages
    <3>2. f.body.seq # 0 => transport.pin = {f.body.from} /\ transport.pin = {g.body.from}
      BY <2>2, <2>3, <3>1, LaterIsOwn
    <3> QED BY <3>2
  <2>5. f.body = g.body
    BY <2>2, <2>3, <2>4 DEF Honest
  <2> QED BY <2>2, <2>5
<1> QED BY <1>2, <1>3

\* On any connection the frames under way have few keys.
LEMMA KeysAreFew ==
    ASSUME Sufficient, Typed, Bound, Honest, AsAsked, Once, Attended, Connected
    PROVE  \E K : /\ IsFiniteSet(K) /\ Cardinality(K) <= QueueLimit
                  /\ \A f \in Underway : Key(f) \in K
<1> DEFINE laters == 1..(Rounds - 1)
           kinds == {"EOSE", "CLOSED", "OK"}
<1>1. Rounds \in Nat \ {0} /\ QueueLimit \in Nat
  BY LimitsAssumption
<1>2. IsFiniteSet(laters) /\ Cardinality(laters) = Rounds - 1
  BY <1>1, FS_Interval
<1>3. /\ IsFiniteSet({"EOSE", "CLOSED"}) /\ Cardinality({"EOSE", "CLOSED"}) = 2
      /\ IsFiniteSet(kinds) /\ Cardinality(kinds) = 3
  <2>1. IsFiniteSet({"EOSE"}) /\ Cardinality({"EOSE"}) = 1
    BY FS_Singleton
  <2>2. IsFiniteSet({"EOSE"} \cup {"CLOSED"}) /\ Cardinality({"EOSE"} \cup {"CLOSED"}) = 2
    BY <2>1, FS_AddElement
  <2>3. {"EOSE"} \cup {"CLOSED"} = {"EOSE", "CLOSED"} /\ kinds = {"EOSE", "CLOSED"} \cup {"OK"}
    OBVIOUS
  <2>4. "OK" \notin {"EOSE", "CLOSED"}
    OBVIOUS
  <2> HIDE DEF kinds
  <2>5. IsFiniteSet({"EOSE", "CLOSED"}) /\ Cardinality({"EOSE", "CLOSED"}) = 2
    BY <2>2, <2>3
  <2>6. IsFiniteSet({"EOSE", "CLOSED"} \cup {"OK"}) /\ Cardinality({"EOSE", "CLOSED"} \cup {"OK"}) = 3
    BY <2>4, <2>5, FS_AddElement
  <2> QED BY <2>3, <2>5, <2>6
<1>4. IsFiniteSet(Peers) /\ Cardinality(Peers) \in Nat
  BY FS_CardinalityType DEF Sufficient
<1>5. ASSUME NEW f \in Underway
      PROVE  /\ f.kind # "EVENT" => f.kind \in kinds
             /\ f.kind = "EVENT" =>
                   /\ f.body \in posted /\ f = EventFrame(f.body) /\ f.body.from \in Peers
                   /\ f.body.seq # 0 => f.body.seq \in laters /\ transport.pin = {f.body.from}
                   /\ Selects(stream.authors, f.body)
  <2>1. f \in Frames
    BY DEF Typed, Streams, Underway
  <2>2. ASSUME f.kind = "EVENT"
        PROVE  /\ f.body \in posted /\ f = EventFrame(f.body) /\ f.body.from \in Peers
               /\ f.body.seq # 0 => f.body.seq \in laters /\ transport.pin = {f.body.from}
               /\ Selects(stream.authors, f.body)
    <3>1. f.body \in posted /\ f = EventFrame(f.body) /\ f.body \in Messages
      BY <2>1, <2>2, FrameShape DEF Typed
    <3>2. f.body.seq \in Nat /\ f.body.from \in Peers /\ f.body.seq < Rounds
      BY <3>1 DEF Messages, AsAsked
    <3>3. f.body.seq # 0 => transport.pin = {f.body.from}
      BY <3>1, <3>2, LaterIsOwn
    <3>4. f.body.seq # 0 => f.body.seq \in laters
      BY <1>1, <3>2
    <3>5. Selects(stream.authors, f.body)
      BY <2>2 DEF Attended, Subscribed
    <3> QED BY <3>1, <3>2, <3>3, <3>4, <3>5
  <2> QED BY <2>1, <2>2, FrameKinds
<1> HIDE DEF laters, kinds
<1>6. \A A, B, C : \A x \in A : <<"first", x>> \in Keys(A, B, C)
  BY DEF Keys
<1>7. \A A, B, C : \A x \in B : <<"later", x>> \in Keys(A, B, C)
  BY DEF Keys
<1>8. \A A, B, C : \A x \in C : <<"other", x>> \in Keys(A, B, C)
  BY DEF Keys
\* Nobody is heard yet: the first message of each, and nothing is published.
<1>9. CASE stream.authors = {} /\ transport.pin = {}
  <2> DEFINE K == Keys(Peers, {}, {"EOSE", "CLOSED"})
  <2>1. IsFiniteSet({}) /\ Cardinality({}) = 0
    BY FS_EmptySet
  <2>2. IsFiniteSet(K) /\ Cardinality(K) <= Cardinality(Peers) + 0 + 2
    BY <1>3, <1>4, <2>1, KeyCount
  <2>3. Cardinality(K) <= QueueLimit
    BY <1>1, <1>4, <2>2, FS_CardinalityType DEF Sufficient
  <2>4. ASSUME NEW f \in Underway PROVE Key(f) \in K
    <3>1. f.kind = "EVENT" => f.body.seq = 0 /\ f.body.from \in Peers
      BY <1>5, <1>9
    <3>2. f.kind # "EVENT" => f.kind \in {"EOSE", "CLOSED"}
      BY <1>5, <1>9 DEF Attended, Once, kinds
    <3> QED BY <1>6, <1>8, <3>1, <3>2 DEF Key
  <2> QED BY <2>2, <2>3, <2>4
\* The peer was first heard on this connection.
<1>10. CASE stream.authors = {} /\ transport.pin # {}
  <2>1. PICK r \in transport.received : r.seq = 0
    BY <1>10 DEF Attended, Subscribed
  <2>2. transport.pin = {r.from} /\ r \in posted /\ EventFrame(r) \notin Underway /\ r.from \in Peers
    BY <1>10, <2>1 DEF Bound, Pinned, Typed, Transports, Attended, Subscribed, Messages
  <2> DEFINE others == Peers \ {r.from}
             K == Keys(others, laters, kinds)
  <2>3. IsFiniteSet(others) /\ Cardinality(others) = Cardinality(Peers) - 1
    BY <1>4, <2>2, FS_RemoveElement
  <2> HIDE DEF others
  <2>4. /\ IsFiniteSet(K)
        /\ Cardinality(K) <= Cardinality(others) + Cardinality(laters) + Cardinality(kinds)
    BY <1>2, <1>3, <2>3, KeyCount
  <2>5. Cardinality(K) <= QueueLimit
    <3>1. Cardinality(K) \in Nat
      BY <2>4, FS_CardinalityType
    <3>2. Cardinality(K) <= (Cardinality(Peers) - 1) + (Rounds - 1) + 3
      BY <1>2, <1>3, <2>3, <2>4
    <3> QED BY <1>1, <1>4, <3>1, <3>2 DEF Sufficient
  <2>6. ASSUME NEW f \in Underway PROVE Key(f) \in K
    <3>1. f.kind = "EVENT" /\ f.body.seq = 0 => f.body.from \in others
      BY <1>5, <2>1, <2>2 DEF others, Honest
    <3> QED BY <1>5, <1>6, <1>7, <1>8, <3>1 DEF Key
  <2> QED BY <2>4, <2>5, <2>6
\* Only the peer is asked for.
<1>11. CASE stream.authors # {}
  <2>1. stream.authors = transport.pin
    BY <1>11 DEF Attended, Subscribed
  <2>2. PICK p : p \in transport.pin
    BY <1>11, <2>1
  <2>3. transport.pin = {p}
    BY <2>2 DEF Bound, Pinned
  <2> DEFINE K == Keys({p}, laters, kinds)
  <2>4. IsFiniteSet({p}) /\ Cardinality({p}) = 1
    BY FS_Singleton
  <2>5. IsFiniteSet(K) /\ Cardinality(K) <= 1 + Cardinality(laters) + Cardinality(kinds)
    BY <1>2, <1>3, <2>4, KeyCount
  <2>6. Cardinality(K) <= QueueLimit
    BY <1>1, <1>2, <1>3, <2>5, FS_CardinalityType DEF Sufficient
  <2>7. ASSUME NEW f \in Underway PROVE Key(f) \in K
    <3>1. f.kind = "EVENT" => f.body.from = p
      BY <1>5, <1>11, <2>1, <2>3 DEF Selects
    <3> QED BY <1>5, <1>6, <1>7, <1>8, <3>1 DEF Key
  <2> QED BY <2>5, <2>6, <2>7
<1> QED BY <1>9, <1>10, <1>11

LEMMA RoomInQueue ==
    ASSUME Sufficient, Typed, Bound, Honest, AsAsked, Once, Attended, Connected,
           NEW frame \in stream.coming
    PROVE  Len(stream.frames) < QueueLimit
<1> DEFINE n == Len(stream.frames) + 1
           x == Append(stream.frames, frame)
           key == [i \in 1..n |-> Key(x[i])]
<1>1. PICK K : /\ IsFiniteSet(K) /\ Cardinality(K) <= QueueLimit
               /\ \A f \in Underway : Key(f) \in K
  BY KeysAreFew
<1>2. stream.frames \in Seq(Frames) /\ frame \in Frames
  BY DEF Typed, Streams
<1>3. /\ n \in Nat /\ DOMAIN stream.frames = 1..(n - 1)
      /\ \A i \in 1..n : i # n => i \in DOMAIN stream.frames /\ x[i] = stream.frames[i]
      /\ x[n] = frame
  BY <1>2
<1>4. ASSUME NEW i \in 1..n PROVE x[i] \in Underway
  BY <1>3 DEF Underway
<1>5. ASSUME NEW i \in 1..n, NEW j \in 1..n, x[i] = x[j] PROVE i = j
  BY <1>3, <1>5 DEF Once
<1> HIDE DEF n, x
<1>6. key \in [1..n -> K]
  BY <1>1, <1>4
<1>7. ASSUME NEW i \in 1..n, NEW j \in 1..n, key[i] = key[j] PROVE i = j
  BY <1>4, <1>5, <1>7, KeysDiffer
<1> HIDE DEF key
<1>8. n <= Cardinality(K)
  BY <1>1, <1>3, <1>6, <1>7, Fits
<1> QED BY <1>1, <1>2, <1>8, LimitsAssumption, FS_CardinalityType DEF n

\* The message at the head of the queue is never refused.
LEMMA NoneRefused ==
    ASSUME Sufficient, Typed, Bound, Honest, AsAsked, Attended, Pumping, Frame.kind = "EVENT"
    PROVE  ~Refused(Frame.body)
<1> DEFINE m == Frame.body
<1>1. Connected /\ m \in posted /\ m \in Messages
  BY StreamParts, FrameShape DEF Pumping, Typed
<1> HIDE DEF m
<1> SUFFICES ASSUME ~Ignored(m), Refused(m) PROVE FALSE
  BY DEF m, Refused
<1>2. m.seq \in Nat /\ m.seq < Rounds /\ Rounds \in Nat /\ RetainLimit \in Nat
  BY <1>1, LimitsAssumption DEF Messages, AsAsked
<1>3. ~(transport.pin = {} /\ m.seq # 0)
  BY <1>1, <1>2, LaterIsOwn
<1>4. \A r \in transport.received : r \in posted /\ r.from = m.from /\ r # m
  BY DEF Ignored, Bound, Pinned, Typed, Transports
<1>5. \A r \in transport.received \cup {m}, s \in transport.received \cup {m} :
         r.seq = s.seq => r = s
  BY <1>1, <1>4 DEF Honest
<1>6. Known(m) = {}
  BY <1>4, <1>5 DEF Known
<1>7. Cardinality(transport.received) >= RetainLimit
  BY <1>3, <1>6 DEF Refused
<1> DEFINE kept == transport.received \cup {m}
           key == [r \in kept |-> r.seq + 1]
<1>8. IsFiniteSet(transport.received) /\ m \notin transport.received
  <2>1. transport.received \in SUBSET posted /\ IsFiniteSet(posted)
    BY DEF Typed, Transports
  <2> QED BY <1>4, <2>1, FS_Subset
<1>9. IsFiniteSet(kept) /\ Cardinality(kept) = Cardinality(transport.received) + 1
  BY <1>8, FS_AddElement
<1>10. IsFiniteSet(1..Rounds) /\ Cardinality(1..Rounds) = Rounds
  BY <1>2, FS_Interval
<1>11. key \in [kept -> 1..Rounds]
  <2>1. \A r \in kept : r \in posted /\ r \in Messages /\ r.seq < Rounds
    BY <1>1, <1>4 DEF Typed, AsAsked
  <2>2. \A r \in kept : r.seq \in Nat
    BY <2>1 DEF Messages
  <2> HIDE DEF kept
  <2> QED BY <1>2, <2>1, <2>2
<1>12. \A r, s \in kept : key[r] = key[s] => r = s
  <2>1. \A r \in kept : r.seq \in Nat
    BY <1>1, <1>4 DEF Typed, Messages
  <2> QED BY <1>5, <2>1
<1>13. ~(Cardinality(1..Rounds) < Cardinality(kept))
  <2> DEFINE S == 1..Rounds
  <2>1. IsFiniteSet(S) /\ key \in [kept -> S]
    BY <1>10, <1>11
  <2> HIDE DEF S, kept, key
  <2>2. ~(Cardinality(S) < Cardinality(kept))
    BY <1>9, <1>12, <2>1, FS_PigeonHole
  <2> QED BY <2>2 DEF S
<1> QED BY <1>2, <1>7, <1>8, <1>9, <1>10, <1>13, FS_CardinalityType DEF Sufficient

LEMMA ReadHonest ==
    ASSUME Sufficient, Typed, Bound, Honest, AsAsked, Once, Attended,
           NEW frame \in stream.coming, Read(frame)
    PROVE  AsAsked' /\ Once' /\ Attended'
<1>1. Connected /\ Len(stream.frames) < QueueLimit
  BY RoomInQueue DEF Read
<1>2. /\ stream' = [stream EXCEPT !.coming = @ \ {frame}, !.frames = Append(@, frame)]
      /\ UNCHANGED <<posted, stored, invitation, game, transport, call>> /\ KnownPeer' = KnownPeer
  BY <1>1 DEF Read, KnownPeer
<1>3. /\ stream.frames \in Seq(Frames) /\ stream'.frames = Append(stream.frames, frame)
      /\ stream'.coming = stream.coming \ {frame} /\ stream'.authors = stream.authors
      /\ stream'.cause = stream.cause /\ frame \in Frames
  BY <1>2 DEF Typed, Streams
<1> DEFINE n == Len(stream.frames)
<1>4. /\ n \in Nat /\ DOMAIN stream.frames = 1..n /\ DOMAIN stream'.frames = 1..(n + 1)
      /\ \A i \in 1..n : stream'.frames[i] = stream.frames[i]
      /\ stream'.frames[n + 1] = frame
  BY <1>3
<1> HIDE DEF n
<1>5. Underway' = Underway
  <2>1. ASSUME NEW f \in Underway' PROVE f \in Underway
    BY <1>3, <1>4 DEF Underway
  <2>2. ASSUME NEW f \in Underway PROVE f \in Underway'
    BY <1>3, <1>4 DEF Underway
  <2> QED BY <2>1, <2>2
<1>6. \A i, j \in 1..(n + 1) : stream'.frames[i] = stream'.frames[j] => i = j
  <2>1. \A i \in 1..(n + 1) : i \in 1..n \/ i = n + 1
    BY <1>4
  <2>2. \A i \in 1..n : stream'.frames[i] # frame
    BY <1>4 DEF Once
  <2>3. \A i, j \in 1..n : stream'.frames[i] = stream'.frames[j] => i = j
    BY <1>4 DEF Once
  <2> QED BY <1>4, <2>1, <2>2, <2>3
<1>7. \A i \in 1..(n + 1) : stream'.frames[i] \notin stream'.coming
  BY <1>3, <1>4 DEF Once
<1>8. Once'
  BY <1>2, <1>4, <1>5, <1>6, <1>7 DEF Once
<1> QED BY <1>1, <1>2, <1>3, <1>5, <1>8, AsAskedStays DEF Attended, Subscribed, Selects

LEMMA HonestStep ==
    ASSUME Sufficient, Typed, Bound, HonestInv, [Next]_transportVars
    PROVE  HonestInv'
<1> SUFFICES ASSUME Honest' PROVE AsAsked' /\ Once' /\ Attended'
  BY DEF HonestInv
<1>1. Honest /\ AsAsked /\ Once /\ Attended
  <2>1. posted \subseteq posted'
    BY DEF Next, transportVars, DriverStep, Pump, Reading, Posting, Open, FindsItEnded, Prepare,
           WriteCarrier, RecordPublished, BeginReceive, Restart, PumpEvent, PumpOther,
           PumpAcknowledgement, PumpFails, Deliver, QuietWait, Read, Post, OpenFails,
           PublishTimesOut, ConnectionLost, RelayClosesSubscription, Stop, Agreed
  <2> QED BY <2>1, HonestBefore DEF HonestInv
<1>2. CASE FindsItEnded \/ OpenFails \/ PublishTimesOut \/ PumpFails \/ Stop \/ ConnectionLost
  BY <1>1, <1>2, EndedHonest DEF FindsItEnded, OpenFails, PublishTimesOut, PumpFails, Stop,
     ConnectionLost, ProcessEnds
<1>3. CASE Reading
  BY <1>1, <1>3, ReadHonest DEF Reading
<1>4. CASE Posting
  BY <1>1, <1>4, PostHonest DEF Posting
<1> QED BY <1>1, <1>2, <1>3, <1>4, CallHonest, OpenHonest, PumpHonest, CloseHonest, WriteHonest
        DEF Next, DriverStep, Pump

\* Limits that hold what setup asks for are never met by honest messages, however long the
\* driver leaves the queue alone: eight frames are enough for five holders of an invitation.
THEOREM LimitsAreEnough ==
    ASSUME Sufficient
    PROVE  Spec => []LimitsSuffice
<1>1. Init => HonestInv
  <2>1. Init => AsAsked
    BY DEF Init, AsAsked
  <2>2. Init => Underway = {} /\ stream.frames = <<>> /\ ~Connected /\ stream.cause = "closed"
    BY DEF Init, Underway, NoStream, Connected
  <2>3. Init => Once /\ Attended
    BY <2>2 DEF Init, Once, Attended
  <2> QED BY <2>1, <2>3 DEF HonestInv
<1>2. Typed /\ Bound /\ HonestInv /\ [Next]_transportVars => HonestInv'
  BY HonestStep
<1>3. Typed /\ Bound /\ HonestInv => LimitsSuffice
  <2> SUFFICES ASSUME Typed, Bound, HonestInv, Honest
               PROVE  /\ stream.cause # "limit"
                      /\ Pumping /\ Frame.kind = "EVENT" => ~Refused(Frame.body)
    BY DEF LimitsSuffice
  <2> QED BY NoneRefused DEF HonestInv, Attended
<1> QED BY <1>1, <1>2, <1>3, PeersAreKept, PTL DEF Spec
=============================================================================
