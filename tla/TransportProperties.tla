------------------------ MODULE TransportProperties --------------------------
(***************************************************************************)
(* What is promised of RelayTransport.                                     *)
(***************************************************************************)
EXTENDS RelayTransport

\* "dropping public setup messages silently would break ordering/equivocation"
\* (src/internal/nostr/stream.go:13): while a connection lasts, each message that it selects
\* is under way, in the queue, retained, or of no use: another author's, or consumed before.
NothingDroppedSilently ==
    Connected => \A m \in posted :
        \/ ~Selects(stream.authors, m)
        \/ EventFrame(m) \in stream.coming
        \/ \E i \in DOMAIN stream.frames : stream.frames[i] = EventFrame(m)
        \/ Ignored(m)

\* No author has sent two bodies under one number.
Honest == \A m, e \in posted : m.from = e.from /\ m.seq = e.seq => m = e

\* The limits of the queue and of retained messages, which fail the session
\* (src/internal/nostr/stream.go:42, src/internal/nostr/transport.go:541), are never met by
\* those who send what setup asks for, however long the driver leaves the queue alone.
LimitsSuffice ==
    Honest => /\ stream.cause # "limit"
              /\ Pumping /\ Frame.kind = "EVENT" => ~Refused(Frame.body)

\* Whatever connections and processes end, the driver is handed one peer's messages in
\* order, each once, and counts as published what the relay has.
Channel == INSTANCE PeerChannel WITH taken <- game.taken, sent <- game.sent
ImplementsChannel == Channel!ChannelSpec

\* Failures come to an end, and then the exchange of honest messages does.
ExchangeCompletes == <>(Over \/ ~Honest)
=============================================================================
