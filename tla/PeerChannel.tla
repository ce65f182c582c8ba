----------------------------- MODULE PeerChannel -----------------------------
(***************************************************************************)
(* What the driver relies on in a transport (ports.PeerTransport,          *)
(* src/internal/nostr/protocol.md): the messages it is handed are one      *)
(* peer's, each once and in order; the carriers it is told are published   *)
(* are with the relay, one for each number and all for that peer.          *)
(***************************************************************************)
EXTENDS Naturals, Sequences

VARIABLES
    posted,     \* what others have sent
    stored,     \* the carriers of ours that the relay has
    taken,      \* the messages handed over
    sent        \* how many of ours are recorded as published

channelVars == <<posted, stored, taken, sent>>

ChannelInit == posted = {} /\ stored = {} /\ taken = <<>> /\ sent = 0

Others ==
    posted \subseteq posted' /\ UNCHANGED <<stored, taken, sent>>

\* However often a publication is retried, the carrier is the same one.
Store ==
    /\ \E to \in {m.from : m \in posted'} \cup {c.to : c \in stored'} :
          /\ stored' = stored \cup {[seq |-> sent, to |-> to]}
          /\ \A c \in stored' : c.to = to
    /\ \A c \in stored' : c.seq = sent => c \in stored \/ \A d \in stored : d.seq # sent
    /\ UNCHANGED <<posted, taken, sent>>

Take ==
    /\ \E m \in posted :
          /\ m.seq = Len(taken) /\ taken' = Append(taken, m)
          /\ \A i \in DOMAIN taken : taken[i].from = m.from
          /\ \A c \in stored : c.to = m.from
    /\ UNCHANGED <<posted, stored, sent>>

Record ==
    /\ \E c \in stored : c.seq = sent
    /\ sent' = sent + 1
    /\ UNCHANGED <<posted, stored, taken>>

ChannelNext == Others \/ Store \/ Take \/ Record

ChannelSpec == ChannelInit /\ [][ChannelNext]_channelVars
=============================================================================
