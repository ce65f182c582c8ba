----------------------------- MODULE SetupProofs -----------------------------
(***************************************************************************)
(* Theorems about setup, for any number of joiners, clocks and stops.  One *)
(* carrier per message, and one joiner who gets beyond the key exchange:   *)
(* from what a party's log says of its carriers and its peer, and what its *)
(* transport can have heard.  No honest message is refused, a deadline is  *)
(* called missed only when it is, and one contract is offered and taken:   *)
(* from the fact that every message is its author's key message or the one *)
(* shuffle in its author's log.                                            *)
(***************************************************************************)
EXTENDS SetupProperties, TLAPS

(***************************************************************************)
(* Types.                                                                  *)
(***************************************************************************)
Ended == {"Agreed", "Expired", "Invalid"}
CreatorStages ==
    {"SessionPrepared", "AwaitOpponentKeys", "KeysPrepared", "AwaitInitialShuffle",
     "FinalShuffle", "FinalShufflePrepared"} \cup Ended
JoinerStages ==
    {"SessionPrepared", "KeysPrepared", "AwaitOpponentKeys", "InitialShuffle",
     "InitialShufflePrepared", "AwaitFinalShuffle"} \cup Ended
StagesOf(p) == IF p = Creator THEN CreatorStages ELSE JoinerStages

Kinds == {"KeyOffer", "KeyReply", "InitialShuffle", "FinalShuffle"}
Messages ==
    [from : Parties, seq : Nat, kind : Kinds, binding : SUBSET Parties,
     deck : Nat, over : Nat, deadline : Int]
Carriers == [to : SUBSET Parties, at : Int, message : Messages]
Logs ==
    [stage : CreatorStages \cup JoinerStages, peer : SUBSET Parties,
     nextSend : Nat, nextReceive : Nat, publication : SUBSET Carriers,
     pending : SUBSET Messages, initial : SUBSET Messages, final : SUBSET Messages]
Procs ==
    [up : BOOLEAN, opened : BOOLEAN, pin : SUBSET Parties, cursor : Nat,
     received : SUBSET Messages, written : BOOLEAN,
     fault : {"none", "session", "equivocation", "context"}]

Types ==
    /\ log \in [Parties -> Logs] /\ proc \in [Parties -> Procs]
    /\ relay \subseteq Carriers
    /\ clock \in Nat /\ ahead \in [Joiners -> Int] /\ stops \in Nat

(***************************************************************************)
(* The invariant.  l and c are a party's log and process.                  *)
(***************************************************************************)
PublishingStages == {"KeysPrepared", "InitialShufflePrepared", "FinalShufflePrepared"}
Unanswered(p) ==
    {"SessionPrepared", "KeysPrepared"} \cup (IF p = Creator THEN {"AwaitOpponentKeys"} ELSE {})
Answered == {"KeysPrepared", "AwaitInitialShuffle", "FinalShuffle", "FinalShufflePrepared"}
PeerIn(p, l) == IF p = Creator THEN l.peer ELSE {Creator}

\* What is to be published next: the key message, or else the one saved message.
SavesItsNext(p, l) ==
    /\ l.stage \in StagesOf(p)
    /\ l.stage \in Unanswered(p) => l.nextSend = 0 /\ l.pending = {}
    /\ l.stage \in PublishingStages \ {"KeysPrepared"} =>
          \E m \in Messages : l.pending = {m} /\ m.from = p /\ m.seq = l.nextSend
    /\ l.stage = "FinalShuffle" => l.initial # {}

\* A saved carrier is the one for the next message; the creator's goes to its peer.
SavesOneCarrier(p, l) ==
    /\ l.stage \notin PublishingStages => l.publication = {}
    /\ l.publication # {} =>
          \E d \in Carriers :
              /\ l.publication = {d} /\ d.message.from = p /\ d.message.seq = l.nextSend
              /\ p = Creator => l.peer # {} /\ d.to = l.peer

\* Only the pinned peer is heard; the peer of the log is pinned before anyone is.
HearsOnePeer(p, l, c) ==
    /\ c.pin = {} \/ \E q \in Parties : c.pin = {q}
    /\ \A m \in c.received : c.pin = {m.from}
    /\ ~c.opened => c.pin = {} /\ c.received = {}
    /\ c.opened /\ PeerIn(p, l) # {} => c.pin = PeerIn(p, l)
    /\ c.written => l.stage \in PublishingStages
    /\ l.peer = {} \/ \E q \in Parties : l.peer = {q}
    /\ p = Creator /\ l.stage \in Answered => l.peer # {}

Fits(p, l, c) == SavesItsNext(p, l) /\ SavesOneCarrier(p, l) /\ HearsOnePeer(p, l, c)

\* A carrier the relay stores is the saved one, or its publication is recorded; the
\* creator's are all addressed to the peer of its log.
Recorded(l, d) ==
    d.message.seq < l.nextSend \/ (d.message.seq = l.nextSend /\ l.publication = {d})
Addressed(d) == d.message.from = Creator => log[Creator].peer # {} /\ d.to = log[Creator].peer

\* What joiner j knows of the creator, the creator meant for j.
Chosen(j, l, c) ==
    l.peer # {} \/ (\E m \in c.received : m.from = Creator) => log[Creator].peer = {j}

SInv ==
    /\ Types
    /\ \A p \in Parties : Fits(p, log[p], proc[p])
    /\ \A d \in relay : Recorded(log[d.message.from], d) /\ Addressed(d)
    /\ OneCarrierPerMessage
    /\ \A j \in Joiners : Chosen(j, log[j], proc[j])

(***************************************************************************)
(* Stages.                                                                 *)
(***************************************************************************)
LEMMA CreatorStageOrder ==
    /\ CreatorNext["SessionPrepared"] = "AwaitOpponentKeys"
    /\ CreatorNext["AwaitOpponentKeys"] = "KeysPrepared"
    /\ CreatorNext["KeysPrepared"] = "AwaitInitialShuffle"
    /\ CreatorNext["AwaitInitialShuffle"] = "FinalShuffle"
    /\ CreatorNext["FinalShuffle"] = "FinalShufflePrepared"
    /\ CreatorNext["FinalShufflePrepared"] = "Agreed"
  BY DEF CreatorNext

LEMMA JoinerStageOrder ==
    /\ JoinerNext["SessionPrepared"] = "KeysPrepared"
    /\ JoinerNext["KeysPrepared"] = "AwaitOpponentKeys"
    /\ JoinerNext["AwaitOpponentKeys"] = "InitialShuffle"
    /\ JoinerNext["InitialShuffle"] = "InitialShufflePrepared"
    /\ JoinerNext["InitialShufflePrepared"] = "AwaitFinalShuffle"
    /\ JoinerNext["AwaitFinalShuffle"] = "Agreed"
  BY DEF JoinerNext

\* What the next stage is depends on whether the party publishes, awaits or neither.
LEMMA NextStages ==
    ASSUME NEW p \in Parties, Stage(p) \in StagesOf(p), Stage(p) \notin Ended
    PROVE  /\ NextStage(p) \in StagesOf(p)
           /\ Publishing(p) => NextStage(p) \notin PublishingStages \cup {"FinalShuffle"}
           /\ Publishing(p) /\ p = Creator => NextStage(p) \in Answered \cup Ended
           /\ Publishing(p) => NextStage(p) \notin Unanswered(p)
           /\ Stage(p) = "SessionPrepared" =>
                 NextStage(p) \in Unanswered(p) \ ({"FinalShuffle"})
           /\ Stage(p) = "SessionPrepared" /\ p = Creator => NextStage(p) \notin Answered
  BY CreatorStageOrder, JoinerStageOrder
  DEF NextStage, Stage, StagesOf, CreatorStages, JoinerStages, Ended, Publishing,
      PublishingStages, Unanswered, Answered

LEMMA InitSInv == Init => SInv
<1> SUFFICES ASSUME Init PROVE SInv
  OBVIOUS
<1>1. EmptyLog \in Logs
  BY DEF EmptyLog, Logs, CreatorStages
<1>2. Fresh \in Procs
  BY DEF Fresh, Procs
<1>3. Types
  BY <1>1, <1>2, WindowAssumption DEF Init, Types
<1>4. ASSUME NEW p \in Parties PROVE Fits(p, log[p], proc[p])
  <2>1. log[p] = EmptyLog /\ proc[p] = Fresh
    BY DEF Init
  <2>2. SavesItsNext(p, EmptyLog)
    BY DEF SavesItsNext, EmptyLog, StagesOf, CreatorStages, JoinerStages, Unanswered,
           PublishingStages
  <2>3. SavesOneCarrier(p, EmptyLog)
    BY DEF SavesOneCarrier, EmptyLog
  <2>4. HearsOnePeer(p, EmptyLog, Fresh)
    BY DEF HearsOnePeer, EmptyLog, Fresh, Answered
  <2> QED BY <2>1, <2>2, <2>3, <2>4 DEF Fits
<1>5. ASSUME NEW j \in Joiners PROVE Chosen(j, log[j], proc[j])
  BY DEF Init, Chosen, EmptyLog, Fresh, Parties
<1> QED BY <1>3, <1>4, <1>5 DEF SInv, Init, OneCarrierPerMessage

(***************************************************************************)
(* A step of party p that gives the relay nothing: its log becomes l, its  *)
(* process c.                                                              *)
(***************************************************************************)
LEMMA OwnStep ==
    ASSUME SInv, NEW p \in Parties, NEW l \in Logs, NEW c \in Procs,
           log' = [log EXCEPT ![p] = l], proc' = [proc EXCEPT ![p] = c],
           UNCHANGED <<relay, clock, ahead>>, stops' \in Nat,
           Fits(p, l, c),
           \A d \in relay : d.message.from = p => Recorded(l, d),
           p = Creator /\ log[p].peer # {} => l.peer = log[p].peer,
           p # Creator => Chosen(p, l, c)
    PROVE  SInv'
<1>1. /\ log'[p] = l /\ proc'[p] = c
      /\ \A q \in Parties : q # p => log'[q] = log[q] /\ proc'[q] = proc[q]
  BY DEF SInv, Types
<1>2. Types'
  BY DEF SInv, Types
<1>3. ASSUME NEW q \in Parties PROVE Fits(q, log[q], proc[q])'
  <2>1. Fits(q, log'[q], proc'[q])
    BY <1>1 DEF SInv
  <2> QED BY <2>1 DEF Fits, SavesItsNext, SavesOneCarrier, HearsOnePeer, PeerIn
<1>4. log[Creator].peer # {} => log'[Creator].peer = log[Creator].peer
  BY <1>1 DEF Parties
<1>5. ASSUME NEW d \in relay' PROVE Recorded(log[d.message.from], d)' /\ Addressed(d)'
  <2>1. d.message.from \in Parties /\ d \in relay
    BY DEF SInv, Types, Carriers, Messages
  <2>2. Recorded(log'[d.message.from], d)
    BY <1>1, <2>1 DEF SInv
  <2>3. Addressed(d)'
    BY <1>4, <2>1 DEF SInv, Addressed
  <2> QED BY <2>2, <2>3 DEF Recorded
<1>6. OneCarrierPerMessage'
  BY DEF SInv, OneCarrierPerMessage
<1>7. ASSUME NEW j \in Joiners PROVE Chosen(j, log[j], proc[j])'
  <2>1. j \in Parties /\ j # Creator
    BY PartiesAssumption DEF Parties
  <2>2. Chosen(j, log'[j], proc'[j])
    BY <1>1, <2>1 DEF SInv
  <2>3. {j} # {}
    OBVIOUS
  <2> QED BY <1>4, <2>2, <2>3 DEF Chosen
<1> QED BY <1>2, <1>3, <1>5, <1>6, <1>7 DEF SInv

\* What the invariant says of one party, and that its log and process are records.
LEMMA OwnFacts ==
    ASSUME SInv, NEW p \in Parties
    PROVE  /\ log[p] \in Logs /\ proc[p] \in Procs
           /\ SavesItsNext(p, log[p]) /\ SavesOneCarrier(p, log[p])
           /\ HearsOnePeer(p, log[p], proc[p])
           /\ \A d \in relay : d.message.from = p => Recorded(log[p], d)
           /\ p # Creator => Chosen(p, log[p], proc[p])
           /\ clock \in Nat /\ stops \in Nat /\ Now(p) \in Int
<1>1. p # Creator => p \in Joiners
  BY DEF Parties
<1> QED BY <1>1 DEF SInv, Types, Fits, Now

(***************************************************************************)
(* Steps of the process alone.                                             *)
(***************************************************************************)
LEMMA ProcessStep ==
    ASSUME SInv, NEW p \in Parties, NEW c \in Procs,
           proc' = [proc EXCEPT ![p] = c], UNCHANGED <<log, relay, clock, ahead>>,
           stops' \in Nat, HearsOnePeer(p, log[p], c),
           p # Creator => Chosen(p, log[p], c)
    PROVE  SInv'
<1>1. log' = [log EXCEPT ![p] = log[p]]
  BY DEF SInv, Types
<1>2. Fits(p, log[p], c)
  BY OwnFacts DEF Fits
<1> QED BY <1>1, <1>2, OwnFacts, OwnStep

\* A new or stopped process has heard nothing.
LEMMA NothingHeard ==
    ASSUME SInv, NEW p \in Parties,
           NEW c \in Procs, c.pin = {}, c.received = {}, ~c.opened, ~c.written
    PROVE  HearsOnePeer(p, log[p], c) /\ (p # Creator => Chosen(p, log[p], c))
<1>1. HearsOnePeer(p, log[p], c)
  BY OwnFacts DEF HearsOnePeer
<1>2. p # Creator => Chosen(p, log[p], c)
  BY OwnFacts DEF Chosen
<1> QED BY <1>1, <1>2

LEMMA FreshProcess ==
    /\ Fresh \in Procs /\ Fresh.pin = {} /\ Fresh.received = {}
    /\ ~Fresh.opened /\ ~Fresh.written
  BY DEF Fresh, Procs

LEMMA DownProcess ==
    ASSUME NEW fault \in {"none", "session", "equivocation", "context"}
    PROVE  /\ Down(fault) \in Procs /\ Down(fault).pin = {} /\ Down(fault).received = {}
           /\ ~Down(fault).opened /\ ~Down(fault).written
  BY DEF Down, Fresh, Procs

LEMMA StopStep ==
    ASSUME SInv, NEW p \in Parties, Stop(p)
    PROVE  SInv'
<1>1. /\ proc' = [proc EXCEPT ![p] = Down("none")]
      /\ UNCHANGED <<log, relay, clock, ahead>> /\ stops' \in Nat
  BY OwnFacts DEF Stop
<1> QED BY <1>1, DownProcess, NothingHeard, ProcessStep

LEMMA StartStep ==
    ASSUME SInv, NEW p \in Parties, Start(p)
    PROVE  SInv'
  BY OwnFacts, FreshProcess, NothingHeard, ProcessStep DEF Start

LEMMA PollStep ==
    ASSUME SInv, NEW p \in Parties, Poll(p)
    PROVE  SInv'
<1> DEFINE c == [proc[p] EXCEPT !.cursor = log[p].nextReceive]
<1>1. /\ c \in Procs /\ c.pin = proc[p].pin /\ c.received = proc[p].received
      /\ c.opened = proc[p].opened /\ c.written = proc[p].written
  BY OwnFacts DEF Procs, Logs
<1>2. /\ proc' = [proc EXCEPT ![p] = c] /\ UNCHANGED <<log, relay, clock, ahead>>
      /\ stops' \in Nat
  BY OwnFacts DEF Poll
<1> HIDE DEF c
<1>3. HearsOnePeer(p, log[p], c)
  BY <1>1, OwnFacts DEF HearsOnePeer
<1>4. p # Creator => Chosen(p, log[p], c)
  BY <1>1, OwnFacts DEF Chosen
<1> QED BY <1>1, <1>2, <1>3, <1>4, ProcessStep

\* Whoever is heard is the pinned peer, or becomes it; the creator's carriers reach
\* its peer alone.
LEMMA DeliverStep ==
    ASSUME SInv, NEW p \in Parties, NEW d \in relay, Deliver(p, d)
    PROVE  SInv'
<1> DEFINE m == d.message
           heard == [proc[p] EXCEPT !.received = @ \cup {m}, !.pin = {m.from}]
<1>1. d \in Carriers /\ m \in Messages /\ m.from \in Parties
  BY DEF SInv, Types, Carriers, Messages
<1>2. /\ proc' = [proc EXCEPT ![p] = Admitted(p, m)]
      /\ UNCHANGED <<log, relay, clock, ahead>> /\ stops' \in Nat
      /\ proc[p].opened /\ p \in d.to /\ m.from # p /\ proc[p].pin \in {{}, {m.from}}
  BY OwnFacts DEF Deliver, Heard
<1>3. Admitted(p, m) \in {Down("session"), Down("equivocation"), heard, proc[p]}
  BY DEF Admitted
<1>4. CASE Admitted(p, m) \in {Down("session"), Down("equivocation")}
  BY <1>2, <1>4, DownProcess, NothingHeard, ProcessStep
<1>5. CASE Admitted(p, m) = proc[p]
  BY <1>2, <1>5, OwnFacts, ProcessStep
<1>6. CASE Admitted(p, m) = heard
  <2>1. /\ heard \in Procs /\ heard.pin = {m.from} /\ heard.opened /\ heard.written = proc[p].written
        /\ heard.received = proc[p].received \cup {m}
    BY <1>1, <1>2, OwnFacts DEF Procs
  <2> HIDE DEF heard, m
  <2>2. HearsOnePeer(p, log[p], heard)
    BY <1>1, <1>2, <2>1, OwnFacts DEF HearsOnePeer
  <2>3. ASSUME p # Creator PROVE Chosen(p, log[p], heard)
    <3>1. m.from = Creator => log[Creator].peer = {p}
      <4> SUFFICES ASSUME m.from = Creator PROVE log[Creator].peer = {p}
        OBVIOUS
      <4>1. log[Creator].peer # {} /\ d.to = log[Creator].peer
        BY DEF SInv, Addressed, m
      <4>2. Creator \in Parties
        BY DEF Parties
      <4> QED BY <1>2, <4>1, <4>2, OwnFacts DEF HearsOnePeer
    <3> QED BY <2>1, <2>3, <3>1, OwnFacts DEF Chosen
  <2> QED BY <1>2, <1>6, <2>1, <2>2, <2>3, ProcessStep
<1> QED BY <1>3, <1>4, <1>5, <1>6

(***************************************************************************)
(* Steps of the log.                                                       *)
(***************************************************************************)
\* What a process may have heard depends on its log's peer, and on its stage only
\* for what it has written and whom it has answered.
LEMMA SameHearing ==
    ASSUME NEW p, NEW k, NEW l, NEW c, NEW e, HearsOnePeer(p, k, c),
           l.peer = k.peer, e.pin = c.pin, e.received = c.received, e.opened = c.opened,
           e.written => l.stage \in PublishingStages,
           p = Creator /\ l.stage \in Answered => l.peer # {}
    PROVE  HearsOnePeer(p, l, e)
  BY DEF HearsOnePeer, PeerIn

LEMMA OpenStep ==
    ASSUME SInv, NEW p \in Parties, Open(p)
    PROVE  SInv'
<1> DEFINE stage == IF Stage(p) = "SessionPrepared" THEN NextStage(p) ELSE Stage(p)
           l == [log[p] EXCEPT !.stage = stage]
           c == Opened(p)
<1>1. /\ log' = [log EXCEPT ![p] = l] /\ proc' = [proc EXCEPT ![p] = c]
      /\ UNCHANGED <<relay, clock, ahead>> /\ stops' \in Nat
  BY OwnFacts DEF Open, Stage
<1>2. Stage(p) \in StagesOf(p) /\ Stage(p) \notin Ended
  BY OwnFacts DEF Open, Running, Over, Stage, Ended, SavesItsNext
<1>3. stage \in StagesOf(p) /\ stage \in CreatorStages \cup JoinerStages
  BY <1>2, NextStages DEF Ended, StagesOf
<1>4. KnownPeer(p) = PeerIn(p, log[p]) /\ KnownPeer(p) \subseteq Parties
  BY OwnFacts DEF KnownPeer, PeerIn, Logs, Parties
<1>5. /\ c \in Procs /\ c.opened /\ c.pin = proc[p].pin \cup KnownPeer(p)
      /\ c.received = proc[p].received /\ c.written = proc[p].written
  <2> DEFINE pin == proc[p].pin \cup KnownPeer(p)
  <2>1. pin \in SUBSET Parties /\ c = [proc[p] EXCEPT !.opened = TRUE, !.pin = pin]
    BY <1>4, OwnFacts DEF Opened, Procs
  <2> HIDE DEF pin
  <2>2. /\ c \in Procs /\ c.opened /\ c.pin = pin
        /\ c.received = proc[p].received /\ c.written = proc[p].written
    BY <2>1, OwnFacts DEF Procs
  <2> QED BY <2>2 DEF pin
<1> HIDE DEF stage, c
<1>6. /\ l \in Logs /\ l.stage = stage /\ l.peer = log[p].peer
      /\ l.nextSend = log[p].nextSend /\ l.pending = log[p].pending
      /\ l.initial = log[p].initial /\ l.publication = log[p].publication
  BY <1>3, OwnFacts DEF Logs
<1> HIDE DEF l
<1>7. stage # log[p].stage =>
        /\ log[p].stage = "SessionPrepared"
        /\ stage \in Unanswered(p) /\ stage # "FinalShuffle"
        /\ p = Creator => stage \notin Answered
  BY <1>2, NextStages DEF stage, Stage
<1>8. SavesItsNext(p, l)
  BY <1>3, <1>6, <1>7, OwnFacts DEF SavesItsNext, Unanswered, PublishingStages
<1>9. SavesOneCarrier(p, l)
  BY <1>6, <1>7, OwnFacts DEF SavesOneCarrier, PublishingStages
<1>10. HearsOnePeer(p, l, c)
  <2>1. c.pin = {} \/ \E q \in Parties : c.pin = {q}
    BY <1>4, <1>5, OwnFacts DEF HearsOnePeer, PeerIn, Parties
  <2>2. \A m \in c.received : c.pin = {m.from}
    <3>1. CASE ~proc[p].opened
      BY <1>5, <3>1, OwnFacts DEF HearsOnePeer
    <3>2. CASE proc[p].opened
      <4>1. KnownPeer(p) = {} \/ proc[p].pin = KnownPeer(p)
        BY <1>4, <3>2, OwnFacts DEF HearsOnePeer
      <4>2. c.pin = proc[p].pin
        BY <1>5, <4>1
      <4> QED BY <1>5, <4>2, OwnFacts DEF HearsOnePeer
    <3> QED BY <3>1, <3>2
  <2>3. PeerIn(p, l) # {} => c.pin = PeerIn(p, l)
    BY <1>4, <1>5, <1>6, OwnFacts DEF HearsOnePeer, PeerIn
  <2>4. c.written => l.stage \in PublishingStages
    BY <1>5, <1>6, <1>7, OwnFacts DEF HearsOnePeer, PublishingStages
  <2>5. p = Creator /\ l.stage \in Answered => l.peer # {}
    BY <1>6, <1>7, OwnFacts DEF HearsOnePeer
  <2> QED BY <1>5, <1>6, <2>1, <2>2, <2>3, <2>4, <2>5, OwnFacts DEF HearsOnePeer
<1>11. \A d \in relay : d.message.from = p => Recorded(l, d)
  BY <1>6, OwnFacts DEF Recorded
<1>12. p # Creator => Chosen(p, l, c)
  BY <1>5, <1>6, OwnFacts DEF Chosen
<1> QED BY <1>1, <1>5, <1>6, <1>8, <1>9, <1>10, <1>11, <1>12, OwnStep DEF Fits

\* An opened process that is ready is pinned to the peer of its log.
LEMMA ReadyFacts ==
    ASSUME SInv, NEW p \in Parties, Ready(p)
    PROVE  /\ proc[p].opened /\ Stage(p) \in StagesOf(p) /\ Stage(p) \notin Ended
           /\ log[p].stage = Stage(p)
  BY OwnFacts DEF Ready, Running, Over, Stage, Ended, SavesItsNext, Opened, Procs

\* A carrier is saved only where none of its message is with the relay.
LEMMA PreparePublicationStep ==
    ASSUME SInv, NEW p \in Parties, PreparePublication(p)
    PROVE  SInv'
<1>1. PICK m \in PendingMessage(p) :
         log' = [log EXCEPT ![p].publication = {[to |-> proc[p].pin, at |-> Now(p), message |-> m]}]
  BY DEF PreparePublication
<1> DEFINE d == [to |-> proc[p].pin, at |-> Now(p), message |-> m]
           l == [log[p] EXCEPT !.publication = {d}]
<1>2. Ready(p) /\ log[p].stage \in PublishingStages /\ log[p].publication = {}
  BY DEF PreparePublication, Publishing, Stage, PublishingStages
<1>3. m \in Messages /\ m.from = p /\ m.seq = log[p].nextSend
  <2>1. CASE log[p].stage = "KeysPrepared"
    <3>1. log[p].pending = {} /\ log[p].nextSend = 0
      BY <2>1, OwnFacts DEF SavesItsNext, Unanswered
    <3>2. m = KeyMessage(p)
      BY <3>1 DEF PendingMessage
    <3> QED BY <3>1, <3>2 DEF KeyMessage, Messages, Kinds
  <2>2. CASE log[p].stage # "KeysPrepared"
    <3>1. PICK n \in Messages : log[p].pending = {n} /\ n.from = p /\ n.seq = log[p].nextSend
      BY <1>2, <2>2, OwnFacts DEF SavesItsNext
    <3> QED BY <3>1 DEF PendingMessage
  <2> QED BY <2>1, <2>2
<1>4. d \in Carriers /\ d.message = m /\ d.to = proc[p].pin
  BY <1>3, OwnFacts DEF Carriers, Procs
<1>5. p = Creator => log[p].peer # {} /\ d.to = log[p].peer
  BY <1>2, <1>4, ReadyFacts, OwnFacts DEF HearsOnePeer, PeerIn, Answered, PublishingStages,
     SavesItsNext, StagesOf, CreatorStages, Ended
<1> HIDE DEF d
<1>6. /\ l \in Logs /\ l.stage = log[p].stage /\ l.peer = log[p].peer
      /\ l.nextSend = log[p].nextSend /\ l.pending = log[p].pending
      /\ l.initial = log[p].initial /\ l.publication = {d}
  BY <1>4, OwnFacts DEF Logs
<1>7. log' = [log EXCEPT ![p] = l] /\ proc' = [proc EXCEPT ![p] = proc[p]]
      /\ UNCHANGED <<relay, clock, ahead>> /\ stops' \in Nat
  BY <1>1, OwnFacts DEF PreparePublication, d, SInv, Types
<1> HIDE DEF l
<1>8. SavesItsNext(p, l)
  BY <1>6, OwnFacts DEF SavesItsNext
<1>9. SavesOneCarrier(p, l)
  BY <1>2, <1>3, <1>4, <1>5, <1>6 DEF SavesOneCarrier
<1>10. HearsOnePeer(p, l, proc[p])
  <2>1. /\ proc[p].written => l.stage \in PublishingStages
        /\ p = Creator /\ l.stage \in Answered => l.peer # {}
    BY <1>6, OwnFacts DEF HearsOnePeer
  <2> QED BY <1>6, <2>1, OwnFacts, SameHearing
<1>11. \A e \in relay : e.message.from = p => Recorded(l, e)
  BY <1>2, <1>6, OwnFacts DEF Recorded
<1>12. p # Creator => Chosen(p, l, proc[p])
  BY <1>6, OwnFacts DEF Chosen
<1> QED BY <1>6, <1>7, <1>8, <1>9, <1>10, <1>11, <1>12, OwnFacts, OwnStep DEF Fits

LEMMA MarkWritten ==
    ASSUME NEW c \in Procs, NEW e, e = [c EXCEPT !.written = TRUE]
    PROVE  /\ e \in Procs /\ e.pin = c.pin /\ e.received = c.received
           /\ e.opened = c.opened /\ e.written
  BY DEF Procs

LEMMA ClearWritten ==
    ASSUME NEW c \in Procs, NEW e, e = [c EXCEPT !.written = FALSE]
    PROVE  /\ e \in Procs /\ e.pin = c.pin /\ e.received = c.received
           /\ e.opened = c.opened /\ ~e.written
  BY DEF Procs

\* l is k with the publication of its message recorded.
RecordedFrom(k, l, stage) ==
    /\ l \in Logs /\ l.stage = stage /\ l.peer = k.peer
    /\ l.nextSend = k.nextSend + 1 /\ l.nextReceive = k.nextReceive
    /\ l.publication = {} /\ l.pending = {}
    /\ l.initial = k.initial /\ l.final = k.final

LEMMA PublishedLog ==
    ASSUME NEW k \in Logs, NEW stage \in CreatorStages \cup JoinerStages, NEW l,
           l = [k EXCEPT !.nextSend = k.nextSend + 1, !.publication = {}, !.pending = {},
                         !.stage = stage]
    PROVE  RecordedFrom(k, l, stage)
<1>1. l = [stage |-> stage, peer |-> k.peer, nextSend |-> k.nextSend + 1,
           nextReceive |-> k.nextReceive, publication |-> {}, pending |-> {},
           initial |-> k.initial, final |-> k.final]
  BY DEF Logs
<1>2. /\ k.peer \in SUBSET Parties /\ k.nextSend + 1 \in Nat /\ k.nextReceive \in Nat
      /\ k.initial \in SUBSET Messages /\ k.final \in SUBSET Messages
  BY DEF Logs
<1>3. {} \in SUBSET Carriers /\ {} \in SUBSET Messages
  OBVIOUS
<1>4. l \in Logs
  BY <1>1, <1>2, <1>3 DEF Logs
<1> QED BY <1>1, <1>4 DEF RecordedFrom

\* The relay gets what is saved; what it had of the same message was that.
LEMMA PublishStep ==
    ASSUME SInv, NEW p \in Parties, Publish(p)
    PROVE  SInv'
<1>1. /\ log[p].publication # {} /\ log[p].stage \in PublishingStages
      /\ relay' = relay \cup log[p].publication
      /\ proc' = [proc EXCEPT ![p].written = TRUE]
      /\ UNCHANGED <<log, clock, ahead, stops>>
  BY DEF Publish, Publishing, Stage, PublishingStages
<1>2. PICK d \in Carriers :
         /\ log[p].publication = {d} /\ d.message.from = p /\ d.message.seq = log[p].nextSend
         /\ p = Creator => log[p].peer # {} /\ d.to = log[p].peer
  BY <1>1, OwnFacts DEF SavesOneCarrier
<1>3. relay' = relay \cup {d}
  BY <1>1, <1>2
<1> DEFINE c == [proc[p] EXCEPT !.written = TRUE]
<1>4. /\ c \in Procs /\ c.pin = proc[p].pin /\ c.received = proc[p].received
      /\ c.opened = proc[p].opened /\ c.written
      /\ proc' = [proc EXCEPT ![p] = c]
  <2>1. proc' = [proc EXCEPT ![p] = c]
    BY <1>1
  <2>2. proc[p] \in Procs
    BY OwnFacts
  <2> QED BY <2>1, <2>2, MarkWritten
<1> HIDE DEF c
<1>5. /\ proc'[p] = c
      /\ \A q \in Parties : q # p => proc'[q] = proc[q]
  BY <1>4 DEF SInv, Types
<1>6. Types'
  BY <1>1, <1>3, <1>4 DEF SInv, Types
<1>7. ASSUME NEW q \in Parties PROVE Fits(q, log[q], proc[q])'
  <2>1. HearsOnePeer(p, log[p], c)
    <3>1. p = Creator /\ log[p].stage \in Answered => log[p].peer # {}
      BY OwnFacts DEF HearsOnePeer
    <3> QED BY <1>1, <1>4, <3>1, OwnFacts, SameHearing
  <2>2. Fits(q, log[q], proc'[q])
    BY <1>5, <2>1, OwnFacts DEF Fits
  <2> QED BY <1>1, <2>2 DEF Fits, SavesItsNext, SavesOneCarrier, HearsOnePeer, PeerIn
<1>8. ASSUME NEW e \in relay' PROVE Recorded(log[e.message.from], e)' /\ Addressed(e)'
  <2>1. Recorded(log[e.message.from], e) /\ Addressed(e)
    BY <1>2, <1>3 DEF SInv, Recorded, Addressed
  <2> QED BY <1>1, <2>1 DEF Recorded, Addressed
<1>9. ASSUME NEW e \in relay, e.message.from = p, e.message.seq = d.message.seq PROVE e = d
  <2>1. Recorded(log[p], e) /\ log[p].nextSend \in Nat
    BY <1>9, OwnFacts DEF Logs
  <2> QED BY <1>2, <1>9, <2>1 DEF Recorded
<1>10. OneCarrierPerMessage'
  BY <1>2, <1>3, <1>9 DEF SInv, OneCarrierPerMessage
<1>11. ASSUME NEW j \in Joiners PROVE Chosen(j, log[j], proc[j])'
  <2>1. Chosen(j, log[j], proc[j]) /\ j \in Parties
    BY DEF SInv, Parties
  <2>2. proc'[j].received = proc[j].received
    BY <1>4, <1>5, <2>1
  <2> QED BY <1>1, <2>1, <2>2 DEF Chosen
<1> QED BY <1>6, <1>7, <1>8, <1>10, <1>11 DEF SInv

\* What was saved is with the relay for good, whatever is sent next has a new number.
LEMMA RecordPublishedStep ==
    ASSUME SInv, NEW p \in Parties, RecordPublished(p)
    PROVE  SInv'
<1> DEFINE l == [log[p] EXCEPT !.nextSend = log[p].nextSend + 1, !.publication = {},
                               !.pending = {}, !.stage = NextStage(p)]
           c == [proc[p] EXCEPT !.written = FALSE]
<1>1. /\ log' = [log EXCEPT ![p] = l] /\ proc' = [proc EXCEPT ![p] = c]
      /\ UNCHANGED <<relay, clock, ahead>> /\ stops' \in Nat
  BY OwnFacts DEF RecordPublished
<1>2. Ready(p) /\ log[p].stage \in PublishingStages /\ Publishing(p)
  BY OwnFacts DEF RecordPublished, HearsOnePeer, Publishing, PublishingStages, Stage
<1>3. /\ NextStage(p) \in StagesOf(p)
      /\ NextStage(p) \notin PublishingStages \cup {"FinalShuffle"}
      /\ NextStage(p) \notin Unanswered(p)
  BY <1>2, ReadyFacts, NextStages
<1>4. /\ c \in Procs /\ c.pin = proc[p].pin /\ c.received = proc[p].received
      /\ c.opened = proc[p].opened /\ ~c.written
  <2>1. proc[p] \in Procs
    BY OwnFacts
  <2> QED BY <2>1, ClearWritten
<1>5. /\ l \in Logs /\ l.stage = NextStage(p) /\ l.peer = log[p].peer
      /\ l.nextSend = log[p].nextSend + 1 /\ l.publication = {}
  <2>1. log[p] \in Logs /\ NextStage(p) \in CreatorStages \cup JoinerStages
    BY <1>3, OwnFacts DEF StagesOf
  <2>2. RecordedFrom(log[p], l, NextStage(p))
    BY <2>1, PublishedLog
  <2> QED BY <2>2 DEF RecordedFrom
<1> HIDE DEF l, c
<1>6. SavesItsNext(p, l)
  BY <1>3, <1>5 DEF SavesItsNext
<1>7. SavesOneCarrier(p, l)
  BY <1>5 DEF SavesOneCarrier
<1>8. p = Creator => log[p].peer # {}
  BY <1>2, OwnFacts DEF HearsOnePeer, Answered, PublishingStages, SavesItsNext, StagesOf,
     CreatorStages, Ended
<1>9. HearsOnePeer(p, l, c)
  BY <1>4, <1>5, <1>8, OwnFacts, SameHearing
<1>10. \A d \in relay : d.message.from = p => Recorded(l, d)
  <2> SUFFICES ASSUME NEW d \in relay, d.message.from = p PROVE Recorded(l, d)
    OBVIOUS
  <2>1. Recorded(log[p], d) /\ log[p].nextSend \in Nat /\ d.message.seq \in Nat
    BY OwnFacts DEF Logs, SInv, Types, Carriers, Messages
  <2> QED BY <1>5, <2>1 DEF Recorded
<1>11. p # Creator => Chosen(p, l, c)
  BY <1>4, <1>5, OwnFacts DEF Chosen
<1> QED BY <1>1, <1>4, <1>5, <1>6, <1>7, <1>9, <1>10, <1>11, OwnStep DEF Fits

\* A shuffle is saved under the number of the next message.
LEMMA ShuffleMessage ==
    ASSUME SInv, NEW p \in Parties, NEW kind \in Kinds, NEW over \in Nat, NEW deadline \in Int
    PROVE  LET m == Shuffle(p, kind, over, deadline)
           IN m \in Messages /\ m.from = p /\ m.seq = log[p].nextSend
<1>1. Binding(p) \in SUBSET Parties /\ log[p].nextSend \in Nat /\ stops + 1 \in Nat
  BY OwnFacts DEF Binding, Logs
<1> QED BY <1>1 DEF Shuffle, Messages

\* l is k with the shuffle m saved for publication.
ShuffledFrom(k, l, m, stage) ==
    /\ l \in Logs /\ l.stage = stage /\ l.peer = k.peer
    /\ l.nextSend = k.nextSend /\ l.publication = k.publication /\ l.pending = {m}

LEMMA ShuffledLog ==
    ASSUME NEW k \in Logs, NEW m \in Messages, NEW stage \in CreatorStages \cup JoinerStages
    PROVE  /\ ShuffledFrom(k, [k EXCEPT !.pending = {m}, !.initial = {m}, !.stage = stage], m, stage)
           /\ ShuffledFrom(k, [k EXCEPT !.pending = {m}, !.final = {m}, !.stage = stage], m, stage)
<1>1. {m} \in SUBSET Messages
  OBVIOUS
<1>2. ShuffledFrom(k, [k EXCEPT !.pending = {m}, !.initial = {m}, !.stage = stage], m, stage)
  BY <1>1 DEF Logs, ShuffledFrom
<1>3. ShuffledFrom(k, [k EXCEPT !.pending = {m}, !.final = {m}, !.stage = stage], m, stage)
  BY <1>1 DEF Logs, ShuffledFrom
<1> QED BY <1>2, <1>3

LEMMA ShuffleStep ==
    ASSUME SInv, NEW p \in Parties, ShuffleInitial(p) \/ ShuffleFinal(p)
    PROVE  SInv'
<1>1. /\ log[p] \in Logs /\ Stage(p) = log[p].stage /\ Stage(p) \in StagesOf(p)
      /\ Stage(p) \in {"InitialShuffle", "FinalShuffle"}
  BY OwnFacts DEF ShuffleInitial, ShuffleFinal, Stage, SavesItsNext
<1>2. /\ NextStage(p) \in {"InitialShufflePrepared", "FinalShufflePrepared"}
      /\ NextStage(p) \in StagesOf(p) /\ NextStage(p) \in CreatorStages \cup JoinerStages
  BY <1>1, CreatorStageOrder, JoinerStageOrder DEF NextStage, StagesOf, CreatorStages,
     JoinerStages, Ended
<1> DEFINE One(m) == [log[p] EXCEPT !.pending = {m}, !.initial = {m}, !.stage = NextStage(p)]
           Two(m) == [log[p] EXCEPT !.pending = {m}, !.final = {m}, !.stage = NextStage(p)]
<1>3. PICK m \in Messages :
         /\ m.from = p /\ m.seq = log[p].nextSend
         /\ log' = [log EXCEPT ![p] = One(m)] \/ log' = [log EXCEPT ![p] = Two(m)]
  <2>1. CASE ShuffleInitial(p)
    <3> DEFINE m == Shuffle(p, "InitialShuffle", 0, 0)
    <3>1. m \in Messages /\ m.from = p /\ m.seq = log[p].nextSend
      BY ShuffleMessage DEF Kinds
    <3> HIDE DEF m
    <3>2. log' = [log EXCEPT ![p] = [log[p] EXCEPT !.pending = {m}, !.initial = {m}, !.stage = NextStage(p)]]
      BY <2>1 DEF ShuffleInitial, m
    <3> QED BY <3>1, <3>2
  <2>2. CASE ShuffleFinal(p)
    <3> DEFINE over == DeckOf(log[p].initial)
               m == Shuffle(p, "FinalShuffle", over, Now(p) + Timeout)
    <3>1. log[p].initial # {} /\ log[p].initial \subseteq Messages
      BY <2>2, OwnFacts DEF ShuffleFinal, Stage, SavesItsNext, Logs
    <3>2. over \in Nat
      <4>1. (CHOOSE n \in log[p].initial : TRUE) \in Messages
        BY <3>1
      <4> QED BY <4>1 DEF DeckOf, Messages
    <3>3. Now(p) + Timeout \in Int
      BY OwnFacts, WindowAssumption
    <3> HIDE DEF over
    <3>4. m \in Messages /\ m.from = p /\ m.seq = log[p].nextSend
      BY <3>2, <3>3, ShuffleMessage DEF Kinds
    <3> HIDE DEF m
    <3>5. log' = [log EXCEPT ![p] = [log[p] EXCEPT !.pending = {m}, !.final = {m}, !.stage = NextStage(p)]]
      BY <2>2 DEF ShuffleFinal, m, over
    <3> QED BY <3>4, <3>5
  <2> QED BY <2>1, <2>2
<1>4. PICK l : log' = [log EXCEPT ![p] = l] /\ ShuffledFrom(log[p], l, m, NextStage(p))
  <2>1. ShuffledFrom(log[p], One(m), m, NextStage(p))
    BY <1>1, <1>2, ShuffledLog
  <2>2. ShuffledFrom(log[p], Two(m), m, NextStage(p))
    BY <1>1, <1>2, ShuffledLog
  <2> HIDE DEF One, Two
  <2> QED BY <1>3, <2>1, <2>2
<1>5. /\ proc' = [proc EXCEPT ![p] = proc[p]] /\ proc[p] \in Procs
      /\ UNCHANGED <<relay, clock, ahead>> /\ stops' \in Nat
  BY OwnFacts DEF ShuffleInitial, ShuffleFinal, SInv, Types
<1>6. SavesItsNext(p, l)
  BY <1>2, <1>3, <1>4 DEF ShuffledFrom, SavesItsNext, Unanswered
<1>7. l.publication = {}
  BY <1>1, <1>4, OwnFacts DEF ShuffledFrom, SavesOneCarrier, PublishingStages
<1>8. SavesOneCarrier(p, l)
  BY <1>7 DEF SavesOneCarrier
<1>9. HearsOnePeer(p, l, proc[p])
  <2>1. proc[p].written => l.stage \in PublishingStages
    BY <1>2, <1>4 DEF ShuffledFrom, PublishingStages
  <2>2. p = Creator /\ l.stage \in Answered => l.peer # {}
    BY <1>1, <1>4, OwnFacts DEF ShuffledFrom, HearsOnePeer, Answered, StagesOf, CreatorStages, Ended
  <2> QED BY <1>4, <2>1, <2>2, OwnFacts, SameHearing DEF ShuffledFrom
<1>10. \A d \in relay : d.message.from = p => Recorded(l, d)
  BY <1>4, OwnFacts DEF ShuffledFrom, Recorded
<1>11. p # Creator => Chosen(p, l, proc[p])
  BY <1>4, OwnFacts DEF ShuffledFrom, Chosen
<1> QED BY <1>4, <1>5, <1>6, <1>8, <1>9, <1>10, <1>11, OwnStep DEF ShuffledFrom, Fits

(***************************************************************************)
(* Receiving.                                                              *)
(***************************************************************************)
\* What a received message does to the log: refuse it, meet the peer, or take a
\* shuffle; the work to be sent is not touched.
Untouched(k, l) ==
    l.nextSend = k.nextSend /\ l.pending = k.pending /\ l.publication = k.publication
Refused(k, l) == Untouched(k, l) /\ l.stage \in Ended /\ l.peer = k.peer
Met(k, l, m, stage) == Untouched(k, l) /\ l.stage = stage /\ l.peer = {m.from}
Took(k, l, stage) ==
    Untouched(k, l) /\ l.stage = stage /\ l.peer = k.peer /\ (stage = "FinalShuffle" => l.initial # {})

LEMMA RefusedLog ==
    ASSUME NEW k \in Logs, NEW stage \in Ended, NEW l, l = [k EXCEPT !.stage = stage]
    PROVE  l \in Logs /\ Refused(k, l)
<1>1. stage \in CreatorStages \cup JoinerStages
  BY DEF CreatorStages
<1> QED BY <1>1 DEF Logs, Refused, Untouched

LEMMA MetLog ==
    ASSUME NEW k \in Logs, NEW m \in Messages, NEW stage \in CreatorStages \cup JoinerStages, NEW l,
           l = [k EXCEPT !.peer = {m.from}, !.nextReceive = @ + 1, !.stage = stage]
    PROVE  l \in Logs /\ Met(k, l, m, stage)
<1>1. {m.from} \in SUBSET Parties /\ k.nextReceive + 1 \in Nat
  BY DEF Messages, Logs
<1> QED BY <1>1 DEF Logs, Met, Untouched

LEMMA TookLog ==
    ASSUME NEW k \in Logs, NEW m \in Messages, NEW stage \in CreatorStages \cup JoinerStages, NEW l,
           \/ l = [k EXCEPT !.initial = {m}, !.nextReceive = @ + 1, !.stage = stage]
           \/ /\ stage # "FinalShuffle"
              /\ l = [k EXCEPT !.final = {m}, !.nextReceive = @ + 1, !.stage = stage]
    PROVE  l \in Logs /\ Took(k, l, stage)
<1>1. {m} \in SUBSET Messages /\ {m} # {} /\ k.nextReceive + 1 \in Nat
  BY DEF Logs
<1>2. CASE l = [k EXCEPT !.initial = {m}, !.nextReceive = @ + 1, !.stage = stage]
  BY <1>1, <1>2 DEF Logs, Took, Untouched
<1>3. CASE /\ stage # "FinalShuffle"
           /\ l = [k EXCEPT !.final = {m}, !.nextReceive = @ + 1, !.stage = stage]
  BY <1>1, <1>3 DEF Logs, Took, Untouched
<1> QED BY <1>2, <1>3

LEMMA AdmittedLog ==
    ASSUME SInv, NEW p \in Parties, NEW m \in Messages, Ready(p), Awaiting(p)
    PROVE  LET l == AdmittedMessage(p, m)
           IN /\ l \in Logs
              /\ \/ Refused(log[p], l)
                 \/ Stage(p) = "AwaitOpponentKeys" /\ Met(log[p], l, m, NextStage(p))
                 \/ Stage(p) # "AwaitOpponentKeys" /\ Took(log[p], l, NextStage(p))
<1> DEFINE l == AdmittedMessage(p, m)
<1>1. /\ log[p] \in Logs /\ NextStage(p) \in CreatorStages \cup JoinerStages
      /\ "Invalid" \in Ended /\ "Expired" \in Ended
  BY OwnFacts, ReadyFacts, NextStages DEF StagesOf, Ended
<1>2. CASE Stage(p) = "AwaitOpponentKeys"
  <2>1. \/ l = [log[p] EXCEPT !.stage = "Invalid"]
        \/ l = [log[p] EXCEPT !.peer = {m.from}, !.nextReceive = @ + 1, !.stage = NextStage(p)]
    BY <1>2 DEF AdmittedMessage, AdmittedPeer
  <2>2. CASE l = [log[p] EXCEPT !.stage = "Invalid"]
    BY <1>1, <2>2, RefusedLog
  <2>3. CASE l = [log[p] EXCEPT !.peer = {m.from}, !.nextReceive = @ + 1, !.stage = NextStage(p)]
    BY <1>1, <1>2, <2>3, MetLog
  <2> QED BY <2>1, <2>2, <2>3
<1>3. CASE Stage(p) = "AwaitInitialShuffle"
  <2>1. \/ l = [log[p] EXCEPT !.stage = "Invalid"]
        \/ l = [log[p] EXCEPT !.initial = {m}, !.nextReceive = @ + 1, !.stage = NextStage(p)]
    BY <1>3 DEF AdmittedMessage, AdmittedInitial
  <2>2. CASE l = [log[p] EXCEPT !.stage = "Invalid"]
    BY <1>1, <2>2, RefusedLog
  <2>3. CASE l = [log[p] EXCEPT !.initial = {m}, !.nextReceive = @ + 1, !.stage = NextStage(p)]
    BY <1>1, <1>3, <2>3, TookLog
  <2> QED BY <2>1, <2>2, <2>3
<1>4. CASE Stage(p) = "AwaitFinalShuffle"
  <2>1. \/ l = [log[p] EXCEPT !.stage = "Invalid"]
        \/ l = [log[p] EXCEPT !.stage = "Expired"]
        \/ l = [log[p] EXCEPT !.final = {m}, !.nextReceive = @ + 1, !.stage = NextStage(p)]
    BY <1>4 DEF AdmittedMessage, AdmittedFinal
  <2>2. NextStage(p) = "Agreed"
    BY <1>4, ReadyFacts, JoinerStageOrder DEF NextStage, StagesOf, CreatorStages, Ended
  <2>3. CASE l = [log[p] EXCEPT !.stage = "Invalid"]
    BY <1>1, <2>3, RefusedLog
  <2>4. CASE l = [log[p] EXCEPT !.stage = "Expired"]
    BY <1>1, <2>4, RefusedLog
  <2>5. CASE l = [log[p] EXCEPT !.final = {m}, !.nextReceive = @ + 1, !.stage = NextStage(p)]
    BY <1>1, <1>4, <2>2, <2>5, TookLog
  <2> QED BY <2>1, <2>3, <2>4, <2>5
<1> QED BY <1>2, <1>3, <1>4 DEF Awaiting

LEMMA ReceiveStep ==
    ASSUME SInv, NEW p \in Parties, Receive(p)
    PROVE  SInv'
<1>1. PICK m \in Arrived(p) :
        /\ log' = [log EXCEPT ![p] = IF InContext(p, m) THEN AdmittedMessage(p, m) ELSE log[p]]
        /\ proc' = [proc EXCEPT ![p] = IF InContext(p, m)
                                       THEN [proc[p] EXCEPT !.cursor = log[p].nextReceive]
                                       ELSE Down("context")]
  BY DEF Receive
<1>2. /\ UNCHANGED <<relay, clock, ahead>> /\ stops' \in Nat
      /\ Ready(p) /\ Awaiting(p) /\ log[p] \in Logs /\ log[p].stage = Stage(p)
  BY OwnFacts DEF Receive, Stage
<1>3. /\ m \in proc[p].received /\ m \in Messages /\ proc[p].pin = {m.from}
      /\ m.from \in Parties
  BY OwnFacts DEF Arrived, Procs, HearsOnePeer, Messages
<1>4. CASE ~InContext(p, m)
  <2>1. log' = log
    BY <1>1, <1>4 DEF SInv, Types
  <2>2. proc' = [proc EXCEPT ![p] = Down("context")]
    BY <1>1, <1>4
  <2> QED BY <1>2, <2>1, <2>2, DownProcess, NothingHeard, ProcessStep
<1>5. CASE InContext(p, m)
  <2> DEFINE l == AdmittedMessage(p, m)
             c == [proc[p] EXCEPT !.cursor = log[p].nextReceive]
  <2>1. log' = [log EXCEPT ![p] = l] /\ proc' = [proc EXCEPT ![p] = c]
    BY <1>1, <1>5
  <2>2. /\ c \in Procs /\ c.pin = proc[p].pin /\ c.received = proc[p].received
        /\ c.opened = proc[p].opened /\ c.written = proc[p].written
    BY <1>2, OwnFacts DEF Procs, Logs
  <2>3. /\ l \in Logs
        /\ \/ Refused(log[p], l)
           \/ Stage(p) = "AwaitOpponentKeys" /\ Met(log[p], l, m, NextStage(p))
           \/ Stage(p) # "AwaitOpponentKeys" /\ Took(log[p], l, NextStage(p))
    BY <1>2, <1>3, AdmittedLog
  <2> HIDE DEF l, c
  <2>4. /\ log[p].peer \in {{}, {m.from}} /\ (p = Creator \/ m.from = Creator)
    BY <1>5 DEF InContext
  <2>5. /\ Untouched(log[p], l) /\ l.peer \in {log[p].peer, {m.from}}
        /\ l.stage \in Ended \/ l.stage = NextStage(p)
    BY <2>3 DEF Refused, Met, Took
  <2>6. /\ l.publication = {} /\ ~c.written
        /\ Stage(p) \in StagesOf(p) /\ Stage(p) \notin PublishingStages
    BY <1>2, <2>2, <2>5, OwnFacts, ReadyFacts DEF SavesOneCarrier, HearsOnePeer, Awaiting,
       PublishingStages, Untouched
  <2>7. SavesItsNext(p, l)
    <3>1. CASE l.stage \in Ended
      BY <3>1 DEF SavesItsNext, StagesOf, CreatorStages, JoinerStages, Unanswered,
         PublishingStages, Ended
    <3>2. CASE Stage(p) = "AwaitOpponentKeys" /\ p = Creator
      <4>1. l.stage \in Ended \/ l.stage = "KeysPrepared"
        BY <2>5, <3>2, CreatorStageOrder DEF NextStage
      <4>2. l.nextSend = 0 /\ l.pending = {}
        BY <1>2, <2>5, <3>2, OwnFacts DEF SavesItsNext, Unanswered, Untouched
      <4> QED BY <3>1, <3>2, <4>1, <4>2 DEF SavesItsNext, StagesOf, CreatorStages, PublishingStages
    <3>3. CASE Stage(p) = "AwaitOpponentKeys" /\ p # Creator
      <4>1. l.stage \in Ended \/ l.stage = "InitialShuffle"
        BY <2>5, <3>3, JoinerStageOrder DEF NextStage
      <4> QED BY <3>1, <3>3, <4>1 DEF SavesItsNext, StagesOf, JoinerStages, Unanswered,
              PublishingStages
    <3>4. CASE Stage(p) = "AwaitInitialShuffle"
      <4>1. p = Creator
        BY <2>6, <3>4 DEF StagesOf, JoinerStages, Ended
      <4>2. NextStage(p) = "FinalShuffle"
        BY <3>4, <4>1, CreatorStageOrder DEF NextStage
      <4>3. l.stage \in Ended \/ (l.stage = "FinalShuffle" /\ l.initial # {})
        BY <2>3, <3>4, <4>2 DEF Refused, Took
      <4> QED BY <3>1, <4>1, <4>3 DEF SavesItsNext, StagesOf, CreatorStages, Unanswered,
              PublishingStages
    <3>5. CASE Stage(p) = "AwaitFinalShuffle"
      <4>1. p # Creator
        BY <2>6, <3>5 DEF StagesOf, CreatorStages, Ended
      <4>2. l.stage \in Ended
        BY <2>5, <3>5, <4>1, JoinerStageOrder DEF NextStage, Ended
      <4> QED BY <3>1, <4>2
    <3> QED BY <1>2, <3>2, <3>3, <3>4, <3>5 DEF Awaiting
  <2>8. SavesOneCarrier(p, l)
    BY <2>6 DEF SavesOneCarrier
  <2>9. HearsOnePeer(p, l, c)
    <3>1. l.peer = {} \/ \E q \in Parties : l.peer = {q}
      BY <1>3, <2>4, <2>5
    <3>2. PeerIn(p, l) # {} => c.pin = PeerIn(p, l)
      BY <1>3, <2>2, <2>4, <2>5 DEF PeerIn
    <3>3. p = Creator /\ l.stage \in Answered => l.peer # {}
      <4> SUFFICES ASSUME p = Creator, l.stage \in Answered PROVE l.peer # {}
        OBVIOUS
      <4>1. ~Refused(log[p], l)
        BY DEF Refused, Answered, Ended
      <4>2. CASE Met(log[p], l, m, NextStage(p))
        BY <4>2 DEF Met
      <4>3. CASE Stage(p) # "AwaitOpponentKeys" /\ Took(log[p], l, NextStage(p))
        <5>1. Stage(p) \in Answered
          BY <1>2, <2>6, <4>3 DEF Awaiting, Answered, StagesOf, CreatorStages, Ended
        <5> QED BY <1>2, <4>3, <5>1, OwnFacts DEF Took, HearsOnePeer
      <4> QED BY <2>3, <4>1, <4>2, <4>3
    <3>4. proc[p].opened
      BY <1>2, ReadyFacts
    <3> QED BY <1>3, <2>2, <2>6, <3>1, <3>2, <3>3, <3>4, OwnFacts DEF HearsOnePeer
  <2>10. \A d \in relay : d.message.from = p => Recorded(l, d)
    BY <2>5, OwnFacts DEF Recorded, Untouched
  <2>11. p = Creator /\ log[p].peer # {} => l.peer = log[p].peer
    BY <2>4, <2>5
  <2>12. p # Creator => Chosen(p, l, c)
    BY <1>3, <2>2, <2>4, OwnFacts DEF Chosen
  <2> QED BY <1>2, <2>1, <2>2, <2>3, <2>7, <2>8, <2>9, <2>10, <2>11, <2>12, OwnStep DEF Fits
<1> QED BY <1>4, <1>5

(***************************************************************************)
(* The theorems.                                                           *)
(***************************************************************************)
LEMMA StillStep ==
    ASSUME SInv, UNCHANGED <<log, proc, relay, ahead, stops>>, clock' \in Nat
    PROVE  SInv'
<1>1. Types'
  BY DEF SInv, Types
<1>2. ASSUME NEW p \in Parties PROVE Fits(p, log[p], proc[p])'
  BY DEF SInv, Fits, SavesItsNext, SavesOneCarrier, HearsOnePeer, PeerIn
<1>3. ASSUME NEW d \in relay' PROVE Recorded(log[d.message.from], d)' /\ Addressed(d)'
  BY DEF SInv, Recorded, Addressed
<1>4. OneCarrierPerMessage'
  BY DEF SInv, OneCarrierPerMessage
<1>5. ASSUME NEW j \in Joiners PROVE Chosen(j, log[j], proc[j])'
  BY DEF SInv, Chosen
<1> QED BY <1>1, <1>2, <1>3, <1>4, <1>5 DEF SInv

LEMMA NextSInv == SInv /\ [Next]_vars => SInv'
<1> SUFFICES ASSUME SInv, [Next]_vars PROVE SInv'
  OBVIOUS
<1>1. clock \in Nat
  BY DEF SInv, Types
<1>2. CASE Tick
  BY <1>1, <1>2, StillStep DEF Tick
<1>3. CASE Quiet \/ UNCHANGED vars
  BY <1>1, <1>3, StillStep DEF Quiet, vars
<1>4. ASSUME NEW p \in Parties, PartyStep(p) PROVE SInv'
  BY <1>4, OpenStep, PreparePublicationStep, PublishStep, RecordPublishedStep, ReceiveStep,
     PollStep, ShuffleStep DEF PartyStep
<1>5. ASSUME NEW p \in Parties, Stop(p) \/ Start(p) PROVE SInv'
  BY <1>5, StopStep, StartStep
<1>6. ASSUME NEW p \in Parties, NEW d \in relay, Deliver(p, d) PROVE SInv'
  BY <1>6, DeliverStep
<1> QED BY <1>2, <1>3, <1>4, <1>5, <1>6 DEF Next

LEMMA SInvAlways == Spec => []SInv
<1> QED BY InitSInv, NextSInv, PTL DEF Spec

\* Through any stops, an author gives the relay one carrier of each message
\* (journal.go, driver_effects.go, publication.go).
THEOREM OneCarrier == Spec => []OneCarrierPerMessage
<1>1. SInv => OneCarrierPerMessage
  BY DEF SInv
<1> QED BY <1>1, SInvAlways, PTL

\* However many hold the invitation, only the joiner whom the creator's log names
\* gets beyond the key exchange (reduce.go, transport.go).
THEOREM OneJoiner == Spec => []OneJoinerProceeds
<1>1. SInv => OneJoinerProceeds
  BY DEF SInv, Chosen, OneJoinerProceeds
<1> QED BY <1>1, SInvAlways, PTL

(***************************************************************************)
(* Genuine messages.  A message is its author's key message or the one     *)
(* shuffle that its author's log has; l is that log.                       *)
(***************************************************************************)
Authored(m, l) ==
    \/ m = KeyMessage(m.from)
    \/ /\ m.from # Creator /\ m.seq = 1 /\ m.kind = "InitialShuffle"
       /\ m.binding = {m.from} /\ l.initial = {m}
    \/ /\ m.from = Creator /\ m.seq = 1 /\ m.kind = "FinalShuffle"
       /\ m.binding = l.peer /\ m.over = DeckOf(l.initial) /\ l.final = {m}

\* The messages a party has saved, signed, heard, or taken from its peer.
Known(p, l, c) ==
    l.pending \cup {d.message : d \in l.publication} \cup c.received
    \cup (IF p = Creator THEN l.initial ELSE l.final)

\* How far a party's log is: what it sent and received, which shuffles it has.
JoinerAt(l) ==
    /\ l.stage \in {"SessionPrepared", "KeysPrepared"} => l.nextReceive = 0 /\ l.nextSend = 0
    /\ l.stage = "AwaitOpponentKeys" => l.nextReceive = 0 /\ l.nextSend = 1
    /\ l.stage = "InitialShuffle" => l.nextSend = 1
    /\ l.stage \in {"InitialShuffle", "InitialShufflePrepared", "AwaitFinalShuffle"} =>
          l.nextReceive = 1
    /\ l.stage \in {"InitialShuffle", "InitialShufflePrepared", "AwaitFinalShuffle"} \cup Ended =>
          l.peer # {}
    /\ l.peer \in {{}, {Creator}}
    /\ l.stage \in {"SessionPrepared", "KeysPrepared", "AwaitOpponentKeys", "InitialShuffle"} =>
          l.initial = {}
    /\ l.initial # {} => l.peer # {}
    /\ l.stage = "InitialShufflePrepared" => l.pending = l.initial
    /\ l.stage # "Agreed" => l.final = {}
    /\ l.final # {} => \E m \in Messages : l.final = {m} /\ m.from = Creator /\ m.seq = 1

CreatorAt(l) ==
    /\ l.stage \in {"SessionPrepared", "AwaitOpponentKeys"} => l.nextReceive = 0
    /\ l.stage \in {"KeysPrepared", "AwaitInitialShuffle"} => l.nextReceive = 1
    /\ l.stage \in {"AwaitInitialShuffle", "FinalShuffle"} => l.nextSend = 1
    /\ l.stage \in {"SessionPrepared", "AwaitOpponentKeys", "KeysPrepared", "AwaitInitialShuffle"} =>
          l.initial = {} /\ l.final = {}
    /\ l.stage = "FinalShuffle" => l.final = {}
    /\ l.stage = "FinalShufflePrepared" => l.pending = l.final
    /\ l.stage # "Expired"
    /\ l.initial # {} => \E m \in Messages : l.initial = {m} /\ l.peer = {m.from} /\ m.seq = 1
    /\ l.final # {} => l.initial # {} /\ l.peer # {}
    /\ Creator \notin l.peer

At(p, l) == l.stage # "Invalid" /\ (IF p = Creator THEN CreatorAt(l) ELSE JoinerAt(l))

\* The creator's deadline lies at most the timeout ahead; who calls it missed is late.
Late(j, m) == ahead[j] \in -SkewAllowed..SkewAllowed => Now(j) + Margin > m.deadline
Deadlines ==
    /\ \A m \in log[Creator].final : m.deadline <= clock + Timeout
    /\ \A j \in Joiners :
          log[j].stage = "Expired" => \E m \in log[Creator].final : Late(j, m)
    /\ log[Creator].final = {} \/ \E m \in Messages : log[Creator].final = {m}

TInv ==
    /\ SInv
    /\ \A p \in Parties :
          At(p, log[p]) /\ proc[p].fault = "none" /\ \A m \in proc[p].received : m.from # p
    /\ \A p \in Parties : \A m \in Known(p, log[p], proc[p]) : Authored(m, log[m.from])
    /\ \A d \in relay : Authored(d.message, log[d.message.from])
    /\ Deadlines

\* What a message with a number is.
LEMMA AuthoredKinds ==
    ASSUME NEW m, NEW l, Authored(m, l)
    PROVE  /\ m.seq \in {0, 1}
           /\ m.seq = 0 => m = KeyMessage(m.from)
                           /\ m.kind = IF m.from = Creator THEN "KeyReply" ELSE "KeyOffer"
           /\ m.seq = 1 /\ m.from # Creator =>
                 m.kind = "InitialShuffle" /\ m.binding = {m.from} /\ l.initial = {m}
           /\ m.seq = 1 /\ m.from = Creator =>
                 /\ m.kind = "FinalShuffle" /\ m.binding = l.peer
                 /\ m.over = DeckOf(l.initial) /\ l.final = {m}
<1>1. \A q : /\ KeyMessage(q).seq = 0
             /\ KeyMessage(q).kind = IF q = Creator THEN "KeyReply" ELSE "KeyOffer"
  BY DEF KeyMessage
<1> QED BY <1>1 DEF Authored

\* Two messages of one author with one number are one message.
LEMMA OneAuthor ==
    ASSUME NEW m, NEW n, NEW l, Authored(m, l), Authored(n, l), m.from = n.from, m.seq = n.seq
    PROVE  m = n
<1>1. m.seq \in {0, 1}
  BY AuthoredKinds
<1>2. CASE m.seq = 0
  <2>1. m = KeyMessage(m.from) /\ n = KeyMessage(n.from)
    BY <1>2, AuthoredKinds
  <2>2. m = KeyMessage(m.from) /\ n = KeyMessage(m.from)
    BY <2>1
  <2> QED BY <2>2, Zenon
<1>3. CASE m.seq = 1
  <2>1. IF m.from = Creator THEN l.final = {m} ELSE l.initial = {m}
    BY <1>3, AuthoredKinds
  <2>2. IF n.from = Creator THEN l.final = {n} ELSE l.initial = {n}
    BY <1>3, AuthoredKinds
  <2>3. {m} = {n}
    BY <2>1, <2>2
  <2> QED BY <2>3
<1> QED BY <1>1, <1>2, <1>3

LEMMA InitTInv == Init => TInv
<1> SUFFICES ASSUME Init PROVE TInv
  OBVIOUS
<1>1. \A p \in Parties : log[p] = EmptyLog /\ proc[p] = Fresh
  BY DEF Init
<1>2. ASSUME NEW p \in Parties
      PROVE  At(p, log[p]) /\ proc[p].fault = "none" /\ proc[p].received = {}
             /\ Known(p, log[p], proc[p]) = {}
  BY <1>1 DEF EmptyLog, Fresh, At, CreatorAt, JoinerAt, Known, Ended
<1>3. Deadlines
  <2>1. Creator \in Parties /\ Joiners \subseteq Parties
    BY DEF Parties
  <2> QED BY <1>1, <2>1 DEF EmptyLog, Deadlines
<1> QED BY <1>2, <1>3, InitSInv DEF TInv, Init

\* The shuffles that are in a party's log stay there.
KeepsShuffles(p, k, l) ==
    IF p = Creator
    THEN k.final = {} \/ (l.final = k.final /\ l.initial = k.initial /\ l.peer = k.peer)
    ELSE k.initial = {} \/ l.initial = k.initial

LEMMA StillAuthored ==
    ASSUME NEW p, NEW k, NEW l, NEW m, m.from = p, Authored(m, k), KeepsShuffles(p, k, l)
    PROVE  Authored(m, l)
  BY DEF Authored, KeepsShuffles

\* A step of party p: its log becomes l, its process c; the relay may get what it saved.
LEMMA GenuineStep ==
    ASSUME TInv, SInv', NEW p \in Parties, NEW l \in Logs, NEW c \in Procs,
           log' = [log EXCEPT ![p] = l], proc' = [proc EXCEPT ![p] = c], UNCHANGED <<clock, ahead>>,
           \A d \in relay' : d \in relay \/ d \in log[p].publication,
           At(p, l), c.fault = "none", \A m \in c.received : m.from # p,
           KeepsShuffles(p, log[p], l),
           \A m \in Known(p, l, c) :
              \/ m \in Known(p, log[p], proc[p]) \/ (m.from = p /\ Authored(m, l))
              \/ Authored(m, log[m.from]),
           p = Creator => \/ l.final = log[p].final
                          \/ /\ log[p].final = {}
                             /\ \E m \in Messages : l.final = {m} /\ m.deadline <= clock + Timeout,
           p # Creator /\ l.stage = "Expired" => \E m \in log[Creator].final : Late(p, m)
    PROVE  TInv'
<1>1. /\ log'[p] = l /\ proc'[p] = c
      /\ \A q \in Parties : q # p => log'[q] = log[q] /\ proc'[q] = proc[q]
      /\ Creator \in Parties /\ Joiners \subseteq Parties
  BY DEF TInv, SInv, Types, Parties
<1>2. ASSUME NEW m, m.from \in Parties, Authored(m, log[m.from]) PROVE Authored(m, log'[m.from])
  <2>1. CASE m.from = p
    BY <1>1, <1>2, <2>1, StillAuthored
  <2>2. CASE m.from # p
    BY <1>1, <1>2, <2>2
  <2> QED BY <2>1, <2>2
<1>3. ASSUME NEW q \in Parties
      PROVE  Known(q, log[q], proc[q]) \subseteq Messages
  <2>1. log[q] \in Logs /\ proc[q] \in Procs
    BY DEF TInv, SInv, Types
  <2> QED BY <2>1 DEF Known, Logs, Procs, Carriers
<1>4. ASSUME NEW q \in Parties, NEW m \in Known(q, log'[q], proc'[q]) PROVE Authored(m, log'[m.from])
  <2>1. CASE q # p
    <3>1. m \in Known(q, log[q], proc[q])
      BY <1>1, <1>4, <2>1
    <3>2. m.from \in Parties /\ Authored(m, log[m.from])
      BY <1>3, <3>1 DEF TInv, Messages
    <3> QED BY <1>2, <3>2
  <2>2. CASE q = p
    <3>0. m \in Known(p, l, c)
      BY <1>1, <1>4, <2>2
    <3>1. l \in Logs /\ c \in Procs /\ m.from \in Parties
      <4>1. m \in Messages
        BY <3>0 DEF Known, Logs, Procs, Carriers
      <4> QED BY <4>1 DEF Messages
    <3>2. CASE m \in Known(p, log[p], proc[p])
      BY <1>2, <3>1, <3>2 DEF TInv
    <3>3. CASE m.from = p /\ Authored(m, l)
      BY <1>1, <3>3
    <3>4. CASE Authored(m, log[m.from])
      BY <1>2, <3>1, <3>4
    <3> QED BY <3>0, <3>2, <3>3, <3>4
  <2> QED BY <2>1, <2>2
<1>5. ASSUME NEW q \in Parties
      PROVE  At(q, log'[q]) /\ proc'[q].fault = "none" /\ \A m \in proc'[q].received : m.from # q
  BY <1>1 DEF TInv
<1>6. ASSUME NEW d \in relay' PROVE Authored(d.message, log'[d.message.from])
  <2>1. CASE d \in relay
    <3>1. d.message.from \in Parties /\ Authored(d.message, log[d.message.from])
      BY <2>1 DEF TInv, SInv, Types, Carriers, Messages
    <3> QED BY <1>2, <3>1
  <2>2. CASE d \in log[p].publication
    <3>1. d.message \in Known(p, log[p], proc[p])
      BY <2>2 DEF Known
    <3>2. d.message.from \in Parties /\ Authored(d.message, log[d.message.from])
      BY <1>3, <3>1 DEF TInv, Messages
    <3> QED BY <1>2, <3>2
  <2> QED BY <1>6, <2>1, <2>2
<1>7. Deadlines'
  <2>0. Deadlines
    BY DEF TInv
  <2>1. /\ \A m \in log'[Creator].final : m.deadline <= clock + Timeout
        /\ log'[Creator].final = {} \/ \E m \in Messages : log'[Creator].final = {m}
        /\ log[Creator].final # {} => log'[Creator].final = log[Creator].final
    <3>1. CASE p = Creator
      BY <1>1, <2>0, <3>1 DEF Deadlines
    <3>2. CASE p # Creator
      BY <1>1, <2>0, <3>2 DEF Deadlines
    <3> QED BY <3>1, <3>2
  <2>2. ASSUME NEW j \in Joiners, log'[j].stage = "Expired"
        PROVE  \E m \in log'[Creator].final : Late(j, m)
    <3>1. j # Creator
      BY PartiesAssumption
    <3>2. \E m \in log[Creator].final : Late(j, m)
      <4>1. CASE j = p
        BY <1>1, <2>2, <3>1, <4>1
      <4>2. CASE j # p
        BY <1>1, <2>0, <2>2, <4>2 DEF Deadlines
      <4> QED BY <4>1, <4>2
    <3> QED BY <2>1, <3>2
  <2>3. \A j \in Joiners : \A m : Late(j, m)' <=> Late(j, m)
    BY DEF Late, Now
  <2>4. clock' = clock
    OBVIOUS
  <2> QED BY <2>1, <2>2, <2>3, <2>4 DEF Deadlines, Late, Now
<1>8. \A q \in Parties : At(q, log[q])'
  BY <1>5 DEF At, CreatorAt, JoinerAt
<1>9. \A q \in Parties : \A m \in Known(q, log[q], proc[q])' : Authored(m, log[m.from])'
  BY <1>4 DEF Known, Authored, DeckOf
<1>10. \A d \in relay' : Authored(d.message, log[d.message.from])'
  BY <1>6 DEF Authored, DeckOf
<1> QED BY <1>5, <1>7, <1>8, <1>9, <1>10 DEF TInv

\* What the invariant says of one party.
LEMMA GenuineFacts ==
    ASSUME TInv, NEW p \in Parties
    PROVE  /\ SInv /\ log[p] \in Logs /\ proc[p] \in Procs
           /\ At(p, log[p]) /\ proc[p].fault = "none" /\ \A m \in proc[p].received : m.from # p
           /\ \A m \in Known(p, log[p], proc[p]) : Authored(m, log[m.from])
           /\ \A d \in relay : d \in Carriers /\ Authored(d.message, log[d.message.from])
           /\ p # Creator /\ log[p].stage = "Expired" =>
                 \E m \in log[Creator].final : Late(p, m)
           /\ p # Creator => p \in Joiners
<1>1. p # Creator => p \in Joiners
  BY DEF Parties
<1> QED BY <1>1 DEF TInv, SInv, Types, Deadlines

(***************************************************************************)
(* Steps of the process alone.                                             *)
(***************************************************************************)
LEMMA GenuineProcess ==
    ASSUME TInv, SInv', NEW p \in Parties, NEW c \in Procs,
           proc' = [proc EXCEPT ![p] = c], UNCHANGED <<log, clock, ahead>>,
           \A d \in relay' : d \in relay \/ d \in log[p].publication,
           c.fault = "none", \A m \in c.received : m.from # p,
           \A m \in c.received : m \in proc[p].received \/ Authored(m, log[m.from])
    PROVE  TInv'
<1>1. log' = [log EXCEPT ![p] = log[p]]
  BY DEF TInv, SInv, Types
<1>2. KeepsShuffles(p, log[p], log[p])
  BY DEF KeepsShuffles
<1>3. \A m \in Known(p, log[p], c) :
         m \in Known(p, log[p], proc[p]) \/ Authored(m, log[m.from])
  BY DEF Known
<1> QED BY <1>1, <1>2, <1>3, GenuineFacts, GenuineStep

LEMMA GenuineQuiet ==
    ASSUME TInv, SInv', NEW p \in Parties, Stop(p) \/ Start(p) \/ Poll(p) \/ Publish(p)
    PROVE  TInv'
<1>0. SInv /\ proc[p] \in Procs /\ log[p] \in Logs
  BY GenuineFacts
<1>1. CASE Stop(p)
  <2>1. Down("none").fault = "none"
    BY DEF Down, Fresh
  <2> QED BY <1>1, <2>1, DownProcess, GenuineProcess DEF Stop
<1>2. CASE Start(p)
  <2>1. Fresh.fault = "none"
    BY DEF Fresh
  <2> QED BY <1>2, <2>1, FreshProcess, GenuineProcess DEF Start
<1>3. CASE Poll(p)
  <2> DEFINE c == [proc[p] EXCEPT !.cursor = log[p].nextReceive]
  <2>1. c \in Procs /\ c.received = proc[p].received /\ c.fault = proc[p].fault
    BY <1>0 DEF Procs, Logs
  <2>2. proc' = [proc EXCEPT ![p] = c] /\ UNCHANGED <<log, relay, clock, ahead>>
    BY <1>3 DEF Poll
  <2> HIDE DEF c
  <2> QED BY <2>1, <2>2, GenuineFacts, GenuineProcess
<1>4. CASE Publish(p)
  <2> DEFINE c == [proc[p] EXCEPT !.written = TRUE]
  <2>1. c \in Procs /\ c.received = proc[p].received /\ c.fault = proc[p].fault
    BY <1>0 DEF Procs
  <2>2. /\ proc' = [proc EXCEPT ![p] = c] /\ relay' = relay \cup log[p].publication
        /\ UNCHANGED <<log, clock, ahead>>
    BY <1>4 DEF Publish
  <2> HIDE DEF c
  <2> QED BY <2>1, <2>2, GenuineFacts, GenuineProcess
<1> QED BY <1>1, <1>2, <1>3, <1>4

\* A shuffle by a joiner is one by the joiner whom the creator chose.
LEMMA ShufflerIsChosen ==
    ASSUME TInv, NEW m \in Messages, m.from # Creator, m.seq = 1, Authored(m, log[m.from])
    PROVE  log[Creator].peer = {m.from} /\ m.from \in Joiners
<1>1. m.from \in Parties
  BY DEF Messages
<1>2. log[m.from].initial = {m}
  BY AuthoredKinds
<1>3. log[m.from].peer # {}
  <2>1. JoinerAt(log[m.from])
    BY <1>1 DEF TInv, At
  <2> QED BY <1>2, <2>1 DEF JoinerAt
<1> QED BY <1>1, <1>3, GenuineFacts, OwnFacts DEF Chosen

\* Nobody is taken for an intruder or an equivocator.
LEMMA GenuineDeliver ==
    ASSUME TInv, SInv', NEW p \in Parties, NEW d \in relay, Deliver(p, d)
    PROVE  TInv'
<1> DEFINE m == d.message
           heard == [proc[p] EXCEPT !.received = @ \cup {m}, !.pin = {m.from}]
<1>1. /\ SInv /\ proc[p] \in Procs /\ m \in Messages /\ m.from \in Parties
      /\ Authored(m, log[m.from])
  BY GenuineFacts DEF Carriers, Messages
<1>2. /\ proc' = [proc EXCEPT ![p] = Admitted(p, m)] /\ UNCHANGED <<log, relay, clock, ahead>>
      /\ proc[p].opened /\ m.from # p /\ proc[p].pin \in {{}, {m.from}}
  BY DEF Deliver, Heard
<1>3. HearsOnePeer(p, log[p], proc[p])
  BY <1>1, OwnFacts
<1> HIDE DEF m
<1>4. proc[p].pin = {} => m.seq = 0 /\ m.kind = "KeyOffer"
  <2> SUFFICES ASSUME proc[p].pin = {} PROVE m.seq = 0 /\ m.kind = "KeyOffer"
    OBVIOUS
  <2>1. p = Creator /\ log[Creator].peer = {}
    BY <1>2, <1>3 DEF HearsOnePeer, PeerIn
  <2>2. m.from # Creator
    BY <1>2, <2>1
  <2>3. m.seq # 1
    BY <1>1, <2>1, <2>2, ShufflerIsChosen
  <2> QED BY <1>1, <2>2, <2>3, AuthoredKinds
<1>5. ASSUME NEW r \in proc[p].received, r.seq = m.seq PROVE r = m
  <2>1. proc[p].pin = {r.from}
    BY <1>3 DEF HearsOnePeer
  <2>2. r.from = m.from
    BY <1>2, <2>1
  <2>3. Authored(r, log[r.from])
    BY GenuineFacts DEF Known
  <2> QED BY <1>1, <1>5, <2>2, <2>3, OneAuthor
<1>6. {r \in proc[p].received : r.seq = m.seq} \in {{}, {m}}
  BY <1>5
<1>7. Admitted(p, m) \in {heard, proc[p]}
  BY <1>4, <1>6 DEF Admitted
<1>8. CASE Admitted(p, m) = heard
  <2>1. heard \in Procs /\ heard.received = proc[p].received \cup {m} /\ heard.fault = proc[p].fault
    BY <1>1 DEF Procs
  <2> HIDE DEF heard
  <2>2. /\ \A n \in heard.received : n.from # p
        /\ \A n \in heard.received : n \in proc[p].received \/ Authored(n, log[n.from])
    BY <1>1, <1>2, <2>1, GenuineFacts
  <2>3. heard.fault = "none"
    BY <2>1, GenuineFacts
  <2>4. proc' = [proc EXCEPT ![p] = heard] /\ UNCHANGED <<log, relay, clock, ahead>>
    BY <1>2, <1>8
  <2> QED BY <2>1, <2>2, <2>3, <2>4, GenuineProcess
<1>9. CASE Admitted(p, m) = proc[p]
  BY <1>1, <1>2, <1>9, GenuineFacts, GenuineProcess
<1> QED BY <1>7, <1>8, <1>9

(***************************************************************************)
(* Steps of the log.                                                       *)
(***************************************************************************)
LEMMA SameShuffles ==
    ASSUME TInv, SInv', NEW p \in Parties, NEW l \in Logs, NEW c \in Procs,
           log' = [log EXCEPT ![p] = l], proc' = [proc EXCEPT ![p] = c],
           UNCHANGED <<relay, clock, ahead>>, At(p, l),
           c.received = proc[p].received, c.fault = proc[p].fault,
           l.peer = log[p].peer, l.initial = log[p].initial, l.final = log[p].final,
           l.stage = "Expired" => log[p].stage = "Expired",
           \A m \in Known(p, l, c) : m \in Known(p, log[p], proc[p]) \/ Authored(m, log[m.from])
    PROVE  TInv'
<1>1. c.fault = "none" /\ \A m \in c.received : m.from # p
  BY GenuineFacts
<1>2. KeepsShuffles(p, log[p], l)
  BY DEF KeepsShuffles
<1>3. p # Creator /\ l.stage = "Expired" => \E m \in log[Creator].final : Late(p, m)
  BY GenuineFacts
<1> QED BY <1>1, <1>2, <1>3, GenuineStep

LEMMA GenuineOpen ==
    ASSUME TInv, SInv', NEW p \in Parties, Open(p)
    PROVE  TInv'
<1> DEFINE stage == IF Stage(p) = "SessionPrepared" THEN NextStage(p) ELSE Stage(p)
           l == [log[p] EXCEPT !.stage = stage]
           c == [proc[p] EXCEPT !.opened = TRUE, !.pin = @ \cup KnownPeer(p)]
<1>1. /\ log' = [log EXCEPT ![p] = l] /\ proc' = [proc EXCEPT ![p] = c]
      /\ UNCHANGED <<relay, clock, ahead>> /\ log[p] \in Logs /\ proc[p] \in Procs
  BY GenuineFacts DEF Open, Stage, Opened
<1>2. /\ log[p].stage = "SessionPrepared" /\ p = Creator => stage = "AwaitOpponentKeys"
      /\ log[p].stage = "SessionPrepared" /\ p # Creator => stage = "KeysPrepared"
      /\ log[p].stage # "SessionPrepared" => stage = log[p].stage
  BY CreatorStageOrder, JoinerStageOrder DEF Stage, NextStage
<1>3. stage \in CreatorStages \cup JoinerStages
  BY <1>1, <1>2 DEF CreatorStages, JoinerStages, Logs
<1>4. KnownPeer(p) \in SUBSET Parties
  BY <1>1 DEF KnownPeer, Logs, Parties
<1>5. c \in Procs /\ c.received = proc[p].received /\ c.fault = proc[p].fault
  <2> DEFINE pin == proc[p].pin \cup KnownPeer(p)
  <2>1. pin \in SUBSET Parties /\ c = [proc[p] EXCEPT !.opened = TRUE, !.pin = pin]
    BY <1>1, <1>4 DEF Procs
  <2> HIDE DEF pin
  <2> QED BY <1>1, <2>1 DEF Procs
<1> HIDE DEF c, stage
<1>6. /\ l \in Logs /\ l.stage = stage /\ l.peer = log[p].peer
      /\ l.nextSend = log[p].nextSend /\ l.nextReceive = log[p].nextReceive
      /\ l.publication = log[p].publication /\ l.pending = log[p].pending
      /\ l.initial = log[p].initial /\ l.final = log[p].final
  BY <1>1, <1>3 DEF Logs
<1> HIDE DEF l
<1>7. At(p, log[p])
  BY GenuineFacts
<1>8. At(p, l)
  BY <1>2, <1>6, <1>7 DEF At, CreatorAt, JoinerAt, Ended
<1>9. Known(p, l, c) = Known(p, log[p], proc[p])
  BY <1>5, <1>6 DEF Known
<1>10. l.stage = "Expired" => log[p].stage = "Expired"
  BY <1>2, <1>6
<1> QED BY <1>1, <1>5, <1>6, <1>8, <1>9, <1>10, SameShuffles

LEMMA GenuinePrepare ==
    ASSUME TInv, SInv', NEW p \in Parties, PreparePublication(p)
    PROVE  TInv'
<1>1. PICK m \in PendingMessage(p) :
         log' = [log EXCEPT ![p].publication = {[to |-> proc[p].pin, at |-> Now(p), message |-> m]}]
  BY DEF PreparePublication
<1> DEFINE d == [to |-> proc[p].pin, at |-> Now(p), message |-> m]
           l == [log[p] EXCEPT !.publication = {d}]
<1>2. log' = [log EXCEPT ![p] = l] /\ proc' = [proc EXCEPT ![p] = proc[p]]
      /\ UNCHANGED <<relay, clock, ahead>> /\ log[p] \in Logs /\ proc[p] \in Procs
  BY <1>1, GenuineFacts DEF PreparePublication, TInv, SInv, Types
<1>3. m \in Messages /\ Authored(m, log[m.from])
  <2>1. CASE log[p].pending = {}
    <3>1. m = KeyMessage(p) /\ KeyMessage(p).from = p
      BY <2>1 DEF PendingMessage, KeyMessage
    <3>2. KeyMessage(p) \in Messages
      BY DEF KeyMessage, Messages, Kinds
    <3> QED BY <3>1, <3>2 DEF Authored
  <2>2. CASE log[p].pending # {}
    <3>1. m \in log[p].pending /\ m \in Known(p, log[p], proc[p])
      BY <2>2 DEF PendingMessage, Known
    <3>2. m \in Messages
      BY <1>2, <3>1 DEF Logs
    <3> QED BY <3>1, <3>2, GenuineFacts
  <2> QED BY <2>1, <2>2
<1>4. d \in Carriers /\ d.message = m
  <2>1. SInv
    BY GenuineFacts
  <2>2. Now(p) \in Int
    BY <2>1, OwnFacts
  <2> QED BY <1>2, <1>3, <2>2 DEF Carriers, Procs
<1> HIDE DEF d
<1>5. /\ l \in Logs /\ l.stage = log[p].stage /\ l.peer = log[p].peer
      /\ l.nextSend = log[p].nextSend /\ l.nextReceive = log[p].nextReceive
      /\ l.publication = {d} /\ l.pending = log[p].pending
      /\ l.initial = log[p].initial /\ l.final = log[p].final
  BY <1>2, <1>4 DEF Logs
<1> HIDE DEF l
<1>6. At(p, log[p])
  BY GenuineFacts
<1>7. At(p, l)
  BY <1>5, <1>6 DEF At, CreatorAt, JoinerAt
<1>8. \A n \in Known(p, l, proc[p]) : n \in Known(p, log[p], proc[p]) \/ Authored(n, log[n.from])
  BY <1>3, <1>4, <1>5 DEF Known
<1> QED BY <1>2, <1>5, <1>7, <1>8, SameShuffles

LEMMA GenuineRecord ==
    ASSUME TInv, SInv', NEW p \in Parties, RecordPublished(p)
    PROVE  TInv'
<1> DEFINE l == [log[p] EXCEPT !.nextSend = log[p].nextSend + 1, !.publication = {},
                               !.pending = {}, !.stage = NextStage(p)]
           c == [proc[p] EXCEPT !.written = FALSE]
<1>0. SInv /\ log[p] \in Logs /\ proc[p] \in Procs
  BY GenuineFacts
<1>1. /\ log' = [log EXCEPT ![p] = l] /\ proc' = [proc EXCEPT ![p] = c]
      /\ UNCHANGED <<relay, clock, ahead>>
  BY DEF RecordPublished
<1>2. Ready(p) /\ log[p].stage \in PublishingStages /\ log[p].stage \in StagesOf(p)
  BY <1>0, OwnFacts DEF RecordPublished, HearsOnePeer, SavesItsNext
<1>3. \/ p # Creator /\ log[p].stage = "KeysPrepared" /\ NextStage(p) = "AwaitOpponentKeys"
      \/ p # Creator /\ log[p].stage = "InitialShufflePrepared" /\ NextStage(p) = "AwaitFinalShuffle"
      \/ p = Creator /\ log[p].stage = "KeysPrepared" /\ NextStage(p) = "AwaitInitialShuffle"
      \/ p = Creator /\ log[p].stage = "FinalShufflePrepared" /\ NextStage(p) = "Agreed"
  BY <1>2, CreatorStageOrder, JoinerStageOrder
  DEF NextStage, Stage, PublishingStages, StagesOf, CreatorStages, JoinerStages, Ended
<1>4. NextStage(p) \in CreatorStages \cup JoinerStages
  BY <1>3 DEF CreatorStages, JoinerStages, Ended
<1>5. c \in Procs /\ c.received = proc[p].received /\ c.fault = proc[p].fault
  BY <1>0 DEF Procs
<1>6. /\ l \in Logs /\ l.stage = NextStage(p) /\ l.peer = log[p].peer
      /\ l.nextSend = log[p].nextSend + 1 /\ l.nextReceive = log[p].nextReceive
      /\ l.publication = {} /\ l.pending = {}
      /\ l.initial = log[p].initial /\ l.final = log[p].final
  <2>1. log[p] \in Logs /\ NextStage(p) \in CreatorStages \cup JoinerStages
    BY <1>0, <1>4
  <2>2. RecordedFrom(log[p], l, NextStage(p))
    BY <2>1, PublishedLog
  <2> QED BY <2>2 DEF RecordedFrom
<1> HIDE DEF l, c
<1>7. log[p].stage = "KeysPrepared" => log[p].nextSend = 0
  BY <1>0, OwnFacts DEF SavesItsNext, Unanswered
<1>8. At(p, l)
  <2>1. CASE p = Creator
    <3>1. CreatorAt(log[p])
      BY <2>1, GenuineFacts DEF At
    <3>2. CASE log[p].stage = "KeysPrepared" /\ NextStage(p) = "AwaitInitialShuffle"
      BY <1>6, <1>7, <2>1, <3>1, <3>2 DEF At, CreatorAt
    <3>3. CASE log[p].stage = "FinalShufflePrepared" /\ NextStage(p) = "Agreed"
      BY <1>6, <2>1, <3>1, <3>3 DEF At, CreatorAt
    <3> QED BY <1>3, <2>1, <3>2, <3>3
  <2>2. CASE p # Creator
    <3>1. JoinerAt(log[p])
      BY <2>2, GenuineFacts DEF At
    <3>2. CASE log[p].stage = "KeysPrepared" /\ NextStage(p) = "AwaitOpponentKeys"
      BY <1>6, <1>7, <2>2, <3>1, <3>2 DEF At, JoinerAt, Ended
    <3>3. CASE log[p].stage = "InitialShufflePrepared" /\ NextStage(p) = "AwaitFinalShuffle"
      BY <1>6, <2>2, <3>1, <3>3 DEF At, JoinerAt, Ended
    <3> QED BY <1>3, <2>2, <3>2, <3>3
  <2> QED BY <2>1, <2>2
<1>9. Known(p, l, c) \subseteq Known(p, log[p], proc[p])
  BY <1>5, <1>6 DEF Known
<1>10. l.stage # "Expired"
  BY <1>3, <1>6
<1> QED BY <1>1, <1>5, <1>6, <1>8, <1>9, <1>10, SameShuffles

(***************************************************************************)
(* Shuffling.                                                              *)
(***************************************************************************)
LEMMA GenuineShuffleInitial ==
    ASSUME TInv, SInv', NEW p \in Parties, ShuffleInitial(p)
    PROVE  TInv'
<1> DEFINE m == Shuffle(p, "InitialShuffle", 0, 0)
           l == [log[p] EXCEPT !.pending = {m}, !.initial = {m}, !.stage = NextStage(p)]
<1>0. SInv /\ log[p] \in Logs /\ proc[p] \in Procs /\ At(p, log[p])
  BY GenuineFacts
<1>1. /\ log' = [log EXCEPT ![p] = l] /\ proc' = [proc EXCEPT ![p] = proc[p]]
      /\ UNCHANGED <<relay, clock, ahead>> /\ log[p].stage = "InitialShuffle"
  BY <1>0 DEF ShuffleInitial, Stage, TInv, SInv, Types
<1>2. p # Creator /\ NextStage(p) = "InitialShufflePrepared"
  <2>1. log[p].stage \in StagesOf(p)
    BY <1>0, OwnFacts DEF SavesItsNext
  <2>2. p # Creator
    BY <1>1, <2>1 DEF StagesOf, CreatorStages, Ended
  <2> QED BY <1>1, <2>2, JoinerStageOrder DEF NextStage, Stage
<1>3. JoinerAt(log[p]) /\ log[p].nextSend = 1 /\ log[p].initial = {}
  BY <1>0, <1>1, <1>2 DEF At, JoinerAt
<1>4. m \in Messages
  BY <1>0, ShuffleMessage DEF Kinds
<1>5. m.from = p /\ m.seq = 1 /\ m.kind = "InitialShuffle" /\ m.binding = {p}
  BY <1>2, <1>3 DEF Shuffle, Binding
<1> HIDE DEF m
<1>6. NextStage(p) \in CreatorStages \cup JoinerStages
  BY <1>2 DEF JoinerStages
<1>7. /\ l \in Logs /\ l.stage = NextStage(p) /\ l.peer = log[p].peer /\ l.pending = {m}
      /\ l.nextSend = log[p].nextSend /\ l.nextReceive = log[p].nextReceive
      /\ l.publication = log[p].publication /\ l.initial = {m} /\ l.final = log[p].final
  BY <1>0, <1>4, <1>6 DEF Logs
<1> HIDE DEF l
<1>8. At(p, l)
  BY <1>1, <1>2, <1>3, <1>7 DEF At, JoinerAt, Ended
<1>9. KeepsShuffles(p, log[p], l)
  BY <1>2, <1>3 DEF KeepsShuffles
<1>10. Authored(m, l)
  BY <1>2, <1>5, <1>7 DEF Authored
<1>11. \A n \in Known(p, l, proc[p]) :
          n \in Known(p, log[p], proc[p]) \/ (n.from = p /\ Authored(n, l))
  BY <1>2, <1>5, <1>7, <1>10 DEF Known
<1>12. proc[p].fault = "none" /\ \A n \in proc[p].received : n.from # p
  BY GenuineFacts
<1>13. l.stage # "Expired" /\ (\A d \in relay' : d \in relay)
  BY <1>1, <1>2, <1>7
<1> QED BY <1>0, <1>1, <1>2, <1>7, <1>8, <1>9, <1>11, <1>12, <1>13, GenuineStep

LEMMA GenuineShuffleFinal ==
    ASSUME TInv, SInv', NEW p \in Parties, ShuffleFinal(p)
    PROVE  TInv'
<1> DEFINE over == DeckOf(log[p].initial)
           deadline == Now(p) + Timeout
           m == Shuffle(p, "FinalShuffle", over, deadline)
           l == [log[p] EXCEPT !.pending = {m}, !.final = {m}, !.stage = NextStage(p)]
<1>0. SInv /\ log[p] \in Logs /\ proc[p] \in Procs /\ At(p, log[p])
  BY GenuineFacts
<1>1. /\ log' = [log EXCEPT ![p] = l] /\ proc' = [proc EXCEPT ![p] = proc[p]]
      /\ UNCHANGED <<relay, clock, ahead>> /\ log[p].stage = "FinalShuffle"
  BY <1>0 DEF ShuffleFinal, Stage, TInv, SInv, Types
<1>2. p = Creator /\ NextStage(p) = "FinalShufflePrepared"
  <2>1. log[p].stage \in StagesOf(p)
    BY <1>0, OwnFacts DEF SavesItsNext
  <2>2. p = Creator
    BY <1>1, <2>1 DEF StagesOf, JoinerStages, Ended
  <2> QED BY <1>1, <2>2, CreatorStageOrder DEF NextStage, Stage
<1>3. /\ CreatorAt(log[p]) /\ log[p].nextSend = 1 /\ log[p].final = {}
      /\ log[p].initial # {} /\ log[p].peer # {}
  <2>1. CreatorAt(log[p]) /\ log[p].nextSend = 1 /\ log[p].final = {}
    BY <1>0, <1>1, <1>2 DEF At, CreatorAt
  <2>2. log[p].initial # {}
    BY <1>0, <1>1, OwnFacts DEF SavesItsNext
  <2>3. log[p].peer # {}
    BY <1>0, <1>1, <1>2, OwnFacts DEF HearsOnePeer, Answered
  <2> QED BY <2>1, <2>2, <2>3
<1>4. over \in Nat /\ deadline \in Int /\ deadline <= clock + Timeout
  <2>1. (CHOOSE n \in log[p].initial : TRUE) \in Messages
    BY <1>0, <1>3 DEF Logs
  <2>2. over \in Nat
    BY <2>1 DEF DeckOf, Messages
  <2>3. Now(p) = clock /\ clock \in Nat /\ Timeout \in Nat
    BY <1>0, <1>2, OwnFacts, WindowAssumption DEF Now
  <2> QED BY <2>2, <2>3
<1> HIDE DEF deadline
<1>5. m \in Messages
  BY <1>0, <1>4, ShuffleMessage DEF Kinds
<1>6. /\ m.from = p /\ m.seq = 1 /\ m.kind = "FinalShuffle" /\ m.binding = log[p].peer
      /\ m.over = DeckOf(log[p].initial) /\ m.deadline = deadline
  BY <1>2, <1>3 DEF Shuffle, Binding
<1> HIDE DEF m, over
<1>7. NextStage(p) \in CreatorStages \cup JoinerStages
  BY <1>2 DEF CreatorStages
<1>8. /\ l \in Logs /\ l.stage = NextStage(p) /\ l.peer = log[p].peer /\ l.pending = {m}
      /\ l.nextSend = log[p].nextSend /\ l.nextReceive = log[p].nextReceive
      /\ l.publication = log[p].publication /\ l.initial = log[p].initial /\ l.final = {m}
  BY <1>0, <1>5, <1>7 DEF Logs
<1> HIDE DEF l
<1>9. At(p, l)
  BY <1>1, <1>2, <1>3, <1>8 DEF At, CreatorAt
<1>10. KeepsShuffles(p, log[p], l)
  BY <1>2, <1>3 DEF KeepsShuffles
<1>11. Authored(m, l)
  BY <1>2, <1>6, <1>8 DEF Authored
<1>12. \A n \in Known(p, l, proc[p]) :
          n \in Known(p, log[p], proc[p]) \/ (n.from = p /\ Authored(n, l))
  BY <1>2, <1>6, <1>8, <1>11 DEF Known
<1>13. proc[p].fault = "none" /\ \A n \in proc[p].received : n.from # p
  BY GenuineFacts
<1>14. /\ \A d \in relay' : d \in relay
       /\ \E n \in Messages : l.final = {n} /\ n.deadline <= clock + Timeout
  BY <1>1, <1>4, <1>5, <1>6, <1>8
<1> QED BY <1>0, <1>1, <1>2, <1>3, <1>8, <1>9, <1>10, <1>12, <1>13, <1>14, GenuineStep

(***************************************************************************)
(* Receiving.                                                              *)
(***************************************************************************)
\* What taking a message does to the log: it meets the peer, takes one of the two
\* shuffles, or calls the deadline missed.
ReceivedFrom(k, l, stage) == l \in Logs /\ Untouched(k, l) /\ l.stage = stage
TakesPeer(k, l, m) ==
    /\ l.peer = {m.from} /\ l.initial = k.initial /\ l.final = k.final
    /\ l.nextReceive = k.nextReceive + 1
TakesInitial(k, l, m) == l.peer = k.peer /\ l.initial = {m} /\ l.final = k.final
TakesFinal(k, l, m) == l.peer = k.peer /\ l.initial = k.initial /\ l.final = {m}

LEMMA PeerTaken ==
    ASSUME NEW k \in Logs, NEW m \in Messages, NEW stage \in CreatorStages \cup JoinerStages, NEW l,
           l = [k EXCEPT !.peer = {m.from}, !.nextReceive = @ + 1, !.stage = stage]
    PROVE  ReceivedFrom(k, l, stage) /\ TakesPeer(k, l, m)
<1>1. {m.from} \in SUBSET Parties /\ k.nextReceive + 1 \in Nat
  BY DEF Messages, Logs
<1>2. ReceivedFrom(k, l, stage)
  BY <1>1 DEF Logs, ReceivedFrom, Untouched
<1>3. TakesPeer(k, l, m)
  BY DEF Logs, TakesPeer
<1> QED BY <1>2, <1>3

LEMMA InitialTaken ==
    ASSUME NEW k \in Logs, NEW m \in Messages, NEW stage \in CreatorStages \cup JoinerStages, NEW l,
           l = [k EXCEPT !.initial = {m}, !.nextReceive = @ + 1, !.stage = stage]
    PROVE  ReceivedFrom(k, l, stage) /\ TakesInitial(k, l, m)
<1>1. {m} \in SUBSET Messages /\ k.nextReceive + 1 \in Nat
  BY DEF Logs
<1>2. ReceivedFrom(k, l, stage)
  BY <1>1 DEF Logs, ReceivedFrom, Untouched
<1>3. TakesInitial(k, l, m)
  BY DEF Logs, TakesInitial
<1> QED BY <1>2, <1>3

LEMMA FinalTaken ==
    ASSUME NEW k \in Logs, NEW m \in Messages, NEW stage \in CreatorStages \cup JoinerStages, NEW l,
           l = [k EXCEPT !.final = {m}, !.nextReceive = @ + 1, !.stage = stage]
    PROVE  ReceivedFrom(k, l, stage) /\ TakesFinal(k, l, m)
<1>1. {m} \in SUBSET Messages /\ k.nextReceive + 1 \in Nat
  BY DEF Logs
<1>2. ReceivedFrom(k, l, stage)
  BY <1>1 DEF Logs, ReceivedFrom, Untouched
<1>3. TakesFinal(k, l, m)
  BY DEF Logs, TakesFinal
<1> QED BY <1>2, <1>3

LEMMA MissedLog ==
    ASSUME NEW k \in Logs, NEW l, l = [k EXCEPT !.stage = "Expired"]
    PROVE  /\ ReceivedFrom(k, l, "Expired")
           /\ l.peer = k.peer /\ l.initial = k.initial /\ l.final = k.final
<1>1. "Expired" \in CreatorStages \cup JoinerStages
  BY DEF CreatorStages, Ended
<1> QED BY <1>1 DEF Logs, ReceivedFrom, Untouched

\* What a party that awaits a message has from its peer.
LEMMA ArrivedFacts ==
    ASSUME TInv, NEW p \in Parties, Ready(p), Awaiting(p), NEW m \in Arrived(p)
    PROVE  /\ m \in Messages /\ m.from \in Parties /\ m.from # p
           /\ m.seq = log[p].nextReceive /\ Authored(m, log[m.from])
           /\ p # Creator => m.from = Creator
           /\ InContext(p, m)
<1>1. /\ SInv /\ log[p] \in Logs /\ proc[p] \in Procs /\ At(p, log[p])
      /\ m \in proc[p].received /\ m.seq = log[p].nextReceive
      /\ proc[p].opened /\ HearsOnePeer(p, log[p], proc[p])
  BY GenuineFacts, OwnFacts, ReadyFacts DEF Arrived
<1>2. m \in Messages /\ m.from \in Parties /\ m.from # p /\ Authored(m, log[m.from])
  <2>1. m \in Messages
    BY <1>1 DEF Procs
  <2>2. m \in Known(p, log[p], proc[p])
    BY <1>1 DEF Known
  <2> QED BY <1>1, <2>1, <2>2, GenuineFacts DEF Messages
<1>3. proc[p].pin = {m.from} /\ (PeerIn(p, log[p]) # {} => proc[p].pin = PeerIn(p, log[p]))
  BY <1>1 DEF HearsOnePeer
<1>4. p # Creator => m.from = Creator
  BY <1>3 DEF PeerIn
<1>5. log[p].peer \in {{}, {m.from}}
  <2>1. CASE p = Creator
    BY <1>3, <2>1 DEF PeerIn
  <2>2. CASE p # Creator
    BY <1>1, <1>4, <2>2 DEF At, JoinerAt
  <2> QED BY <2>1, <2>2
<1>6. p = Creator /\ log[p].peer = {} => m.seq = 0 /\ m.kind = "KeyOffer"
  <2> SUFFICES ASSUME p = Creator, log[p].peer = {} PROVE m.seq = 0 /\ m.kind = "KeyOffer"
    OBVIOUS
  <2>1. m.seq # 1
    BY <1>2, ShufflerIsChosen
  <2> QED BY <1>2, <2>1, AuthoredKinds
<1> QED BY <1>1, <1>2, <1>4, <1>5, <1>6 DEF InContext

\* The final shuffle that the creator has made is for the joiner who hears of it, and
\* over the deck of that joiner.
LEMMA FinalFits ==
    ASSUME TInv, NEW p \in Parties, p # Creator, log[p].peer # {}, NEW m \in Messages,
           m.from = Creator, m.seq = 1, Authored(m, log[Creator])
    PROVE  /\ m.kind = "FinalShuffle" /\ m.binding = {p} /\ m.over = DeckOf(log[p].initial)
           /\ log[Creator].final = {m} /\ log[Creator].peer = {p}
<1>1. /\ m.kind = "FinalShuffle" /\ m.binding = log[Creator].peer
      /\ m.over = DeckOf(log[Creator].initial) /\ log[Creator].final = {m}
  BY AuthoredKinds
<1>2. log[Creator].peer = {p}
  BY GenuineFacts, OwnFacts DEF Chosen
<1>3. log[p].initial = log[Creator].initial
  <2>1. CreatorAt(log[Creator])
    BY DEF TInv, At, Parties
  <2>2. PICK n \in Messages : /\ log[Creator].initial = {n}
                              /\ log[Creator].peer = {n.from} /\ n.seq = 1
    BY <1>1, <2>1 DEF CreatorAt
  <2>3. n.from = p
    BY <1>2, <2>2
  <2>4. Creator \in Parties
    BY DEF Parties
  <2>5. n \in Known(Creator, log[Creator], proc[Creator])
    BY <2>2 DEF Known
  <2>6. Authored(n, log[p])
    BY <2>3, <2>4, <2>5, GenuineFacts
  <2> QED BY <2>2, <2>3, <2>6, AuthoredKinds
<1> QED BY <1>1, <1>2, <1>3

\* A joiner with the right time calls a deadline missed only when it is.
LEMMA MissedIsLate ==
    ASSUME TInv, NEW p \in Joiners, NEW m \in Messages, m \in log[Creator].final,
           ~DeadlineWindow(Now(p), m.deadline)
    PROVE  Late(p, m)
<1>1. clock \in Nat /\ ahead[p] \in Int /\ m.deadline \in Int /\ m.deadline <= clock + Timeout
  BY DEF TInv, SInv, Types, Messages, Deadlines
<1>2. Now(p) = clock + ahead[p]
  BY PartiesAssumption DEF Now
<1> QED BY <1>1, <1>2, WindowAssumption DEF Late, DeadlineWindow

\* p takes m from its peer; what the log becomes depends on what it awaits.
Takes(p, m) ==
    /\ Ready(p) /\ Awaiting(p) /\ m \in Arrived(p)
    /\ log' = [log EXCEPT ![p] = AdmittedMessage(p, m)]
    /\ proc' = [proc EXCEPT ![p] = [proc[p] EXCEPT !.cursor = log[p].nextReceive]]
    /\ UNCHANGED <<relay, clock, ahead, stops>>

LEMMA CursorMoves ==
    ASSUME TInv, NEW p \in Parties
    PROVE  LET c == [proc[p] EXCEPT !.cursor = log[p].nextReceive]
           IN /\ c \in Procs /\ c.received = proc[p].received /\ c.fault = "none"
              /\ \A m \in c.received : m.from # p
<1>1. proc[p] \in Procs /\ log[p].nextReceive \in Nat
  BY GenuineFacts DEF Logs
<1>2. proc[p].fault = "none" /\ \A m \in proc[p].received : m.from # p
  BY GenuineFacts
<1> DEFINE c == [proc[p] EXCEPT !.cursor = log[p].nextReceive]
<1>3. c \in Procs /\ c.received = proc[p].received /\ c.fault = proc[p].fault
  BY <1>1 DEF Procs
<1> QED BY <1>2, <1>3

LEMMA GenuineKeys ==
    ASSUME TInv, SInv', NEW p \in Parties, NEW m \in Arrived(p), Takes(p, m),
           Stage(p) = "AwaitOpponentKeys"
    PROVE  TInv'
<1> DEFINE l == AdmittedMessage(p, m)
           c == [proc[p] EXCEPT !.cursor = log[p].nextReceive]
<1>1. /\ SInv /\ log[p] \in Logs /\ At(p, log[p]) /\ log[p].stage = "AwaitOpponentKeys"
      /\ NextStage(p) \in CreatorStages \cup JoinerStages
  BY GenuineFacts, ReadyFacts, NextStages DEF Takes, Stage, StagesOf
<1>2. /\ c \in Procs /\ c.received = proc[p].received /\ c.fault = "none"
      /\ \A n \in c.received : n.from # p
  BY CursorMoves
<1>3. /\ m \in Messages /\ m.from \in Parties /\ m.from # p /\ Authored(m, log[m.from])
      /\ m.seq = log[p].nextReceive /\ (p # Creator => m.from = Creator)
  BY ArrivedFacts DEF Takes
<1>4. m.seq = 0 /\ log[p].initial = {} /\ log[p].final = {}
  BY <1>1, <1>3 DEF At, CreatorAt, JoinerAt
<1>5. m.kind = IF p = Creator THEN "KeyOffer" ELSE "KeyReply"
  <2>1. m.kind = IF m.from = Creator THEN "KeyReply" ELSE "KeyOffer"
    BY <1>3, <1>4, AuthoredKinds
  <2> QED BY <1>3, <2>1
<1>6. l = [log[p] EXCEPT !.peer = {m.from}, !.nextReceive = @ + 1, !.stage = NextStage(p)]
  BY <1>5 DEF AdmittedMessage, AdmittedPeer
<1>7. log' = [log EXCEPT ![p] = l] /\ proc' = [proc EXCEPT ![p] = c] /\ UNCHANGED <<relay, clock, ahead>>
  BY DEF Takes
<1> HIDE DEF l, c
<1>8. ReceivedFrom(log[p], l, NextStage(p)) /\ TakesPeer(log[p], l, m)
  BY <1>1, <1>3, <1>6, PeerTaken
<1>9. NextStage(p) = IF p = Creator THEN "KeysPrepared" ELSE "InitialShuffle"
  BY <1>1, CreatorStageOrder, JoinerStageOrder DEF NextStage, Stage
<1>10. At(p, l)
  <2>1. /\ l.stage = NextStage(p) /\ l.peer = {m.from} /\ l.initial = {} /\ l.final = {}
        /\ l.nextReceive = log[p].nextReceive + 1 /\ l.nextSend = log[p].nextSend
    BY <1>4, <1>8 DEF ReceivedFrom, TakesPeer, Untouched
  <2>2. log[p].nextReceive = 0 /\ (p # Creator => log[p].nextSend = 1)
    BY <1>1 DEF At, CreatorAt, JoinerAt
  <2>3. l.nextReceive = 1 /\ (p # Creator => l.nextSend = 1)
    BY <2>1, <2>2
  <2>4. CASE p = Creator
    BY <1>3, <1>9, <2>1, <2>3, <2>4 DEF At, CreatorAt
  <2>5. CASE p # Creator
    BY <1>3, <1>9, <2>1, <2>3, <2>5 DEF At, JoinerAt, Ended
  <2> QED BY <2>4, <2>5
<1>11. KeepsShuffles(p, log[p], l)
  BY <1>4, <1>8 DEF KeepsShuffles, TakesPeer
<1>12. Known(p, l, c) = Known(p, log[p], proc[p]) /\ l.final = log[p].final
  BY <1>2, <1>8 DEF Known, ReceivedFrom, TakesPeer, Untouched
<1>13. l \in Logs /\ l.stage # "Expired" /\ (\A d \in relay' : d \in relay)
  BY <1>7, <1>8, <1>9 DEF ReceivedFrom
<1> QED BY <1>2, <1>7, <1>10, <1>11, <1>12, <1>13, GenuineStep

LEMMA GenuineInitial ==
    ASSUME TInv, SInv', NEW p \in Parties, NEW m \in Arrived(p), Takes(p, m),
           Stage(p) = "AwaitInitialShuffle"
    PROVE  TInv'
<1> DEFINE l == AdmittedMessage(p, m)
           c == [proc[p] EXCEPT !.cursor = log[p].nextReceive]
<1>1. /\ SInv /\ log[p] \in Logs /\ At(p, log[p]) /\ log[p].stage = "AwaitInitialShuffle"
      /\ Stage(p) \in StagesOf(p)
  BY GenuineFacts, ReadyFacts DEF Takes, Stage
<1>2. /\ c \in Procs /\ c.received = proc[p].received /\ c.fault = "none"
      /\ \A n \in c.received : n.from # p
  BY CursorMoves
<1>3. /\ m \in Messages /\ m.from \in Parties /\ m.from # p /\ Authored(m, log[m.from])
      /\ m.seq = log[p].nextReceive
  BY ArrivedFacts DEF Takes
<1>4. p = Creator /\ NextStage(p) = "FinalShuffle"
  <2>1. p = Creator
    BY <1>1 DEF Stage, StagesOf, JoinerStages, Ended
  <2> QED BY <1>1, <2>1, CreatorStageOrder DEF NextStage, Stage
<1>5. /\ CreatorAt(log[p]) /\ m.seq = 1 /\ log[p].initial = {} /\ log[p].final = {}
      /\ log[p].nextSend = 1
  BY <1>1, <1>3, <1>4 DEF At, CreatorAt
<1>6. m.kind = "InitialShuffle" /\ m.binding = {m.from} /\ log[p].peer = {m.from}
  BY <1>3, <1>4, <1>5, AuthoredKinds, ShufflerIsChosen
<1>7. l = [log[p] EXCEPT !.initial = {m}, !.nextReceive = @ + 1, !.stage = NextStage(p)]
  <2>1. m.binding = Binding(p)
    BY <1>4, <1>6 DEF Binding
  <2>2. Stage(p) # "AwaitOpponentKeys"
    OBVIOUS
  <2> QED BY <1>6, <2>1, <2>2 DEF AdmittedMessage, AdmittedInitial
<1>8. log' = [log EXCEPT ![p] = l] /\ proc' = [proc EXCEPT ![p] = c] /\ UNCHANGED <<relay, clock, ahead>>
  BY DEF Takes
<1> HIDE DEF l, c
<1>9. NextStage(p) \in CreatorStages \cup JoinerStages
  BY <1>4 DEF CreatorStages
<1>10. ReceivedFrom(log[p], l, NextStage(p)) /\ TakesInitial(log[p], l, m)
  BY <1>1, <1>3, <1>7, <1>9, InitialTaken
<1>11. At(p, l)
  BY <1>3, <1>4, <1>5, <1>6, <1>10 DEF At, CreatorAt, ReceivedFrom, TakesInitial, Untouched
<1>12. KeepsShuffles(p, log[p], l)
  BY <1>4, <1>5 DEF KeepsShuffles
<1>13. \A n \in Known(p, l, c) : n \in Known(p, log[p], proc[p]) \/ Authored(n, log[n.from])
  BY <1>2, <1>3, <1>4, <1>10 DEF Known, ReceivedFrom, TakesInitial, Untouched
<1>14. l \in Logs /\ l.final = log[p].final /\ (\A d \in relay' : d \in relay)
  BY <1>8, <1>10 DEF ReceivedFrom, TakesInitial
<1> QED BY <1>2, <1>4, <1>8, <1>11, <1>12, <1>13, <1>14, GenuineStep

LEMMA GenuineFinal ==
    ASSUME TInv, SInv', NEW p \in Parties, NEW m \in Arrived(p), Takes(p, m),
           Stage(p) = "AwaitFinalShuffle"
    PROVE  TInv'
<1> DEFINE l == AdmittedMessage(p, m)
           c == [proc[p] EXCEPT !.cursor = log[p].nextReceive]
<1>1. /\ SInv /\ log[p] \in Logs /\ At(p, log[p]) /\ log[p].stage = "AwaitFinalShuffle"
      /\ Stage(p) \in StagesOf(p)
  BY GenuineFacts, ReadyFacts DEF Takes, Stage
<1>2. /\ c \in Procs /\ c.received = proc[p].received /\ c.fault = "none"
      /\ \A n \in c.received : n.from # p
  BY CursorMoves
<1>3. p # Creator /\ p \in Joiners /\ NextStage(p) = "Agreed"
  <2>1. p # Creator
    BY <1>1 DEF Stage, StagesOf, CreatorStages, Ended
  <2> QED BY <1>1, <2>1, JoinerStageOrder DEF NextStage, Stage, Parties
<1>4. /\ m \in Messages /\ m.from = Creator /\ Authored(m, log[Creator])
      /\ m.seq = log[p].nextReceive
  BY <1>3, ArrivedFacts DEF Takes
<1>5. JoinerAt(log[p]) /\ m.seq = 1 /\ log[p].peer # {}
  BY <1>1, <1>3, <1>4 DEF At, JoinerAt
<1>6. /\ m.kind = "FinalShuffle" /\ m.binding = {p} /\ m.over = DeckOf(log[p].initial)
      /\ log[Creator].final = {m}
  BY <1>3, <1>4, <1>5, FinalFits
<1>7. \/ l = [log[p] EXCEPT !.stage = "Expired"] /\ ~DeadlineWindow(Now(p), m.deadline)
      \/ l = [log[p] EXCEPT !.final = {m}, !.nextReceive = @ + 1, !.stage = NextStage(p)]
  <2>1. m.binding = Binding(p)
    BY <1>3, <1>6 DEF Binding
  <2>2. l = AdmittedFinal(p, m)
    BY DEF AdmittedMessage
  <2> HIDE DEF l
  <2> QED BY <1>6, <2>1, <2>2 DEF AdmittedFinal
<1>8. log' = [log EXCEPT ![p] = l] /\ proc' = [proc EXCEPT ![p] = c] /\ UNCHANGED <<relay, clock, ahead>>
  BY DEF Takes
<1> HIDE DEF l, c
<1>9. CASE l = [log[p] EXCEPT !.stage = "Expired"] /\ ~DeadlineWindow(Now(p), m.deadline)
  <2>1. /\ ReceivedFrom(log[p], l, "Expired") /\ l.peer = log[p].peer
        /\ l.initial = log[p].initial /\ l.final = log[p].final
    BY <1>1, <1>9, MissedLog
  <2>2. At(p, l)
    BY <1>1, <1>3, <1>5, <2>1 DEF At, JoinerAt, ReceivedFrom, Untouched
  <2>3. Late(p, m) /\ m \in log[Creator].final
    BY <1>3, <1>4, <1>6, <1>9, MissedIsLate
  <2>4. KeepsShuffles(p, log[p], l)
    BY <1>3, <2>1 DEF KeepsShuffles
  <2>5. Known(p, l, c) = Known(p, log[p], proc[p])
    BY <1>2, <2>1 DEF Known, ReceivedFrom, Untouched
  <2>6. l \in Logs /\ (\A d \in relay' : d \in relay)
    BY <1>8, <2>1 DEF ReceivedFrom
  <2> QED BY <1>2, <1>3, <1>8, <2>2, <2>3, <2>4, <2>5, <2>6, GenuineStep
<1>10. CASE l = [log[p] EXCEPT !.final = {m}, !.nextReceive = @ + 1, !.stage = NextStage(p)]
  <2>1. ReceivedFrom(log[p], l, "Agreed") /\ TakesFinal(log[p], l, m)
    <3>1. "Agreed" \in CreatorStages \cup JoinerStages
      BY DEF CreatorStages, Ended
    <3> QED BY <1>1, <1>3, <1>4, <1>10, <3>1, FinalTaken
  <2>2. At(p, l)
    BY <1>3, <1>4, <1>5, <2>1 DEF At, JoinerAt, ReceivedFrom, TakesFinal, Untouched
  <2>3. KeepsShuffles(p, log[p], l)
    BY <1>3, <2>1 DEF KeepsShuffles, TakesFinal
  <2>4. \A n \in Known(p, l, c) : n \in Known(p, log[p], proc[p]) \/ Authored(n, log[n.from])
    BY <1>2, <1>3, <1>4, <2>1 DEF Known, ReceivedFrom, TakesFinal, Untouched
  <2>5. l \in Logs /\ l.stage # "Expired" /\ (\A d \in relay' : d \in relay)
    BY <1>8, <2>1 DEF ReceivedFrom
  <2> QED BY <1>2, <1>3, <1>8, <2>2, <2>3, <2>4, <2>5, GenuineStep
<1> QED BY <1>7, <1>9, <1>10

\* Whatever is received is in context, and nothing honest is refused.
LEMMA GenuineReceive ==
    ASSUME TInv, SInv', NEW p \in Parties, Receive(p)
    PROVE  TInv'
<1>1. PICK m \in Arrived(p) :
        /\ log' = [log EXCEPT ![p] = IF InContext(p, m) THEN AdmittedMessage(p, m) ELSE log[p]]
        /\ proc' = [proc EXCEPT ![p] = IF InContext(p, m)
                                       THEN [proc[p] EXCEPT !.cursor = log[p].nextReceive]
                                       ELSE Down("context")]
  BY DEF Receive
<1>2. Ready(p) /\ Awaiting(p) /\ UNCHANGED <<relay, clock, ahead, stops>>
  BY DEF Receive
<1>3. InContext(p, m)
  BY <1>2, ArrivedFacts
<1>4. Takes(p, m)
  BY <1>1, <1>2, <1>3 DEF Takes
<1> QED BY <1>2, <1>4, GenuineKeys, GenuineInitial, GenuineFinal DEF Awaiting

(***************************************************************************)
(* Every step.                                                             *)
(***************************************************************************)
\* Time only passes: what was late stays late.
LEMMA GenuineClock ==
    ASSUME TInv, SInv', UNCHANGED <<log, proc, relay, ahead>>, clock' \in {clock, clock + 1}
    PROVE  TInv'
<1>1. /\ clock \in Nat /\ ahead \in [Joiners -> Int] /\ clock' \in Nat /\ clock <= clock'
      /\ \A m \in log[Creator].final : m.deadline \in Int
  BY DEF TInv, SInv, Types, Logs, Messages, Parties
<1>2. ASSUME NEW j \in Joiners, NEW m \in log[Creator].final, Late(j, m) PROVE Late(j, m)'
  <2>1. Now(j) = clock + ahead[j] /\ Now(j)' = clock' + ahead[j]
    BY PartiesAssumption DEF Now
  <2>2. ahead[j] \in Int /\ m.deadline \in Int
    BY <1>1
  <2> QED BY <1>1, <1>2, <2>1, <2>2, WindowAssumption DEF Late
<1>3. Deadlines'
  <2>1. \A m \in log[Creator].final : m.deadline <= clock' + Timeout
    BY <1>1, WindowAssumption DEF TInv, Deadlines
  <2>2. \A j \in Joiners : log[j].stage = "Expired" => \E m \in log[Creator].final : Late(j, m)'
    BY <1>2 DEF TInv, Deadlines
  <2>3. log[Creator].final = {} \/ \E m \in Messages : log[Creator].final = {m}
    BY DEF TInv, Deadlines
  <2> QED BY <2>1, <2>2, <2>3 DEF Deadlines, Late, Now
<1>4. \A q \in Parties : At(q, log[q])' /\ (proc[q].fault = "none")'
         /\ \A m \in proc'[q].received : m.from # q
  BY DEF TInv, At, CreatorAt, JoinerAt
<1>5. \A q \in Parties : \A m \in Known(q, log[q], proc[q])' : Authored(m, log[m.from])'
  BY DEF TInv, Known, Authored, DeckOf
<1>6. \A d \in relay' : Authored(d.message, log[d.message.from])'
  BY DEF TInv, Authored, DeckOf
<1> QED BY <1>3, <1>4, <1>5, <1>6 DEF TInv

LEMMA NextTInv == TInv /\ [Next]_vars => TInv'
<1> SUFFICES ASSUME TInv, [Next]_vars PROVE TInv'
  OBVIOUS
<1>1. SInv'
  BY NextSInv DEF TInv
<1>2. CASE Tick
  BY <1>1, <1>2, GenuineClock DEF Tick
<1>3. CASE Quiet \/ UNCHANGED vars
  BY <1>1, <1>3, GenuineClock DEF Quiet, vars
<1>4. ASSUME NEW p \in Parties, PartyStep(p) \/ Stop(p) \/ Start(p) PROVE TInv'
  BY <1>1, <1>4, GenuineOpen, GenuinePrepare, GenuineQuiet, GenuineRecord, GenuineReceive,
     GenuineShuffleInitial, GenuineShuffleFinal DEF PartyStep
<1>5. ASSUME NEW p \in Parties, NEW d \in relay, Deliver(p, d) PROVE TInv'
  BY <1>1, <1>5, GenuineDeliver
<1> QED BY <1>2, <1>3, <1>4, <1>5 DEF Next

LEMMA TInvAlways == Spec => []TInv
<1> QED BY InitTInv, NextTInv, PTL DEF Spec

\* Parties that run this code never take one another for an equivocator, an intruder
\* or a cheat, however often they stop and whatever the relay repeats or reorders
\* (transport.go, reduce.go, setup_admission.go).
THEOREM HonestTraffic == Spec => []HonestTrafficIsAdmitted
<1>1. TInv => HonestTrafficIsAdmitted
  BY DEF TInv, At, HonestTrafficIsAdmitted, Stage
<1> QED BY <1>1, TInvAlways, PTL

\* A joiner whose clock is within the allowed skew refuses the offer only when too
\* little time is left to fund (setup_admission.go).
THEOREM Expiry == Spec => []ExpiredMeansLate
<1>1. TInv => ExpiredMeansLate
  <2> SUFFICES ASSUME TInv, NEW j \in Joiners, Stage(j) = "Expired",
                      ahead[j] \in -SkewAllowed..SkewAllowed, NEW m \in log[Creator].final
               PROVE  Now(j) + Margin > m.deadline
    BY DEF ExpiredMeansLate
  <2>1. \E n \in log[Creator].final : Late(j, n)
    BY DEF TInv, Deadlines, Stage
  <2>2. \A n \in log[Creator].final : n = m
    BY DEF TInv, Deadlines
  <2> QED BY <2>1, <2>2 DEF Late
<1> QED BY <1>1, TInvAlways, PTL

(***************************************************************************)
(* The offer of one contract.                                              *)
(***************************************************************************)
\* Joiner j has taken a contract or refused it.
HasAnswered(j) == log[j].final # {} \/ log[j].stage = "Expired"

\* Whoever has answered is the joiner whom the creator chose, and what it took is what
\* the creator offered.
LEMMA AnswerFacts ==
    ASSUME TInv, NEW j \in Joiners, HasAnswered(j)
    PROVE  /\ log[Creator].peer = {j} /\ log[Creator].final # {}
           /\ log[j].final # {} => log[j].final = log[Creator].final
           /\ log[j].stage = "Expired" => log[j].final = {}
           /\ Over(j)
<1>1. j \in Parties /\ j # Creator
  BY PartiesAssumption DEF Parties
<1>2. JoinerAt(log[j]) /\ SInv /\ log[j].stage \in StagesOf(j)
  BY <1>1, GenuineFacts, OwnFacts DEF At, SavesItsNext
<1>3. /\ log[j].final # {} => log[j].stage = "Agreed"
      /\ log[j].stage = "Expired" => log[j].final = {}
  BY <1>2 DEF JoinerAt
<1>4. log[j].stage \in {"Agreed", "Expired"}
  BY <1>3 DEF HasAnswered
<1>5. log[Creator].peer = {j}
  BY <1>1, <1>2, <1>4, OwnFacts DEF JoinerAt, Ended, Chosen
<1>6. ASSUME log[j].final # {} PROVE log[j].final = log[Creator].final
  <2>1. PICK m \in Messages : log[j].final = {m} /\ m.from = Creator /\ m.seq = 1
    BY <1>2, <1>6 DEF JoinerAt
  <2>2. m \in Known(j, log[j], proc[j])
    BY <1>1, <2>1 DEF Known
  <2>3. Authored(m, log[Creator])
    BY <1>1, <2>1, <2>2, GenuineFacts
  <2> QED BY <2>1, <2>3, AuthoredKinds
<1>7. log[Creator].final # {}
  <2>1. CASE log[j].final # {}
    BY <1>6, <2>1
  <2>2. CASE log[j].stage = "Expired"
    BY <1>1, <2>2, GenuineFacts
  <2> QED BY <2>1, <2>2 DEF HasAnswered
<1> QED BY <1>3, <1>4, <1>5, <1>6, <1>7 DEF Over, Stage

\* What the answer is, in terms of the logs.
LEMMA AnswerIs ==
    ASSUME TInv
    PROVE  /\ (\E j \in Joiners : log[j].final # {}) => Answer = "taken"
           /\ (\E j \in Joiners : log[j].stage = "Expired") => Answer = "refused"
           /\ (\A j \in Joiners : ~HasAnswered(j)) => Answer = "none"
<1>1. ASSUME NEW j \in Joiners, log[j].final # {} PROVE Answer = "taken"
  <2>1. HasAnswered(j)
    BY <1>1 DEF HasAnswered
  <2>2. UNION {log[k].final : k \in Joiners} = log[Creator].final
    <3>1. log[j].final = log[Creator].final
      BY <1>1, <2>1, AnswerFacts
    <3>2. \A k \in Joiners : log[k].final \subseteq log[Creator].final
      BY AnswerFacts DEF HasAnswered
    <3> QED BY <3>1, <3>2
  <2>3. Taken = Offered
    BY <2>2 DEF Taken, Offered
  <2>4. PICK m : m \in log[Creator].final
    BY <2>1, AnswerFacts
  <2>5. Contract(m) \in Taken
    BY <2>3, <2>4 DEF Offered
  <2> QED BY <2>3, <2>5 DEF Answer
<1>2. ASSUME \A j \in Joiners : log[j].final = {} PROVE Taken = {}
  <2>1. UNION {log[k].final : k \in Joiners} = {}
    BY <1>2
  <2> QED BY <2>1 DEF Taken
<1>3. ASSUME NEW j \in Joiners, log[j].stage = "Expired" PROVE Answer = "refused"
  <2>1. ASSUME NEW k \in Joiners PROVE log[k].final = {}
    <3>1. HasAnswered(j)
      BY <1>3 DEF HasAnswered
    <3>2. CASE HasAnswered(k)
      <4>1. {k} = {j}
        BY <3>1, <3>2, AnswerFacts
      <4> QED BY <1>3, <3>1, <4>1, AnswerFacts
    <3>3. CASE ~HasAnswered(k)
      BY <3>3 DEF HasAnswered
    <3> QED BY <3>2, <3>3
  <2>2. Taken = {}
    BY <1>2, <2>1
  <2> QED BY <1>3, <2>2 DEF Answer, Stage
<1>4. ASSUME \A j \in Joiners : ~HasAnswered(j) PROVE Answer = "none"
  <2>1. \A j \in Joiners : log[j].final = {} /\ log[j].stage # "Expired"
    BY <1>4 DEF HasAnswered
  <2> QED BY <1>2, <2>1 DEF Answer, Stage
<1> QED BY <1>1, <1>3, <1>4

\* A step changes the log of one party at most, and not of one that is done; the
\* creator's final shuffle is made once.
LEMMA LogMoves ==
    ASSUME TInv, [Next]_vars
    PROVE  \/ log' = log
           \/ \E p \in Parties :
                 /\ \A q \in Parties : q # p => log'[q] = log[q]
                 /\ ~Over(p)
                 /\ p = Creator => \/ log'[p].final = log[p].final
                                   \/ log[p].final = {} /\ log'[p].stage = "FinalShufflePrepared"
<1>1. ASSUME Tick \/ Quiet \/ UNCHANGED vars PROVE log' = log
  BY <1>1 DEF Tick, Quiet, vars
<1>2. ASSUME NEW p \in Parties, Stop(p) \/ Start(p) \/ Poll(p) \/ Publish(p) PROVE log' = log
  BY <1>2 DEF Stop, Start, Poll, Publish
<1>3. ASSUME NEW p \in Parties, NEW d \in relay, Deliver(p, d) PROVE log' = log
  BY <1>3 DEF Deliver
<1> DEFINE Moves(p) == /\ \A q \in Parties : q # p => log'[q] = log[q]
                       /\ ~Over(p)
                       /\ p = Creator => \/ log'[p].final = log[p].final
                                         \/ /\ log[p].final = {}
                                            /\ log'[p].stage = "FinalShufflePrepared"
<1>4. ASSUME NEW p \in Parties,
             Open(p) \/ PreparePublication(p) \/ RecordPublished(p) \/ Receive(p)
             \/ ShuffleInitial(p) \/ ShuffleFinal(p)
      PROVE  Moves(p)
  <2>1. SInv /\ log \in [Parties -> Logs] /\ log[p] \in Logs /\ At(p, log[p]) /\ Stage(p) \in StagesOf(p)
    BY GenuineFacts, OwnFacts DEF TInv, SInv, Types, SavesItsNext, Stage
  <2>2. ~Over(p) /\ (Open(p) \/ Ready(p))
    BY <1>4 DEF Open, PreparePublication, RecordPublished, Receive, ShuffleInitial, ShuffleFinal,
       Ready, Running
  <2>3. \A q \in Parties : q # p => log'[q] = log[q]
    BY <1>4, <2>1 DEF Open, PreparePublication, RecordPublished, Receive, ShuffleInitial, ShuffleFinal
  <2>4. ASSUME p = Creator
        PROVE  \/ log'[p].final = log[p].final
               \/ log[p].final = {} /\ log'[p].stage = "FinalShufflePrepared"
    <3>1. CASE Open(p)
      BY <2>1, <3>1 DEF Open, Logs
    <3>2. CASE PreparePublication(p)
      BY <2>1, <3>2 DEF PreparePublication, Logs
    <3>3. CASE RecordPublished(p)
      <4> DEFINE l == [log[p] EXCEPT !.nextSend = log[p].nextSend + 1, !.publication = {},
                                     !.pending = {}, !.stage = NextStage(p)]
      <4>1. log' = [log EXCEPT ![p] = l]
        BY <3>3 DEF RecordPublished
      <4>2. l.final = log[p].final
        BY <2>1 DEF Logs
      <4> HIDE DEF l
      <4> QED BY <2>1, <4>1, <4>2
    <3>4. CASE Receive(p)
      <4>1. PICK m \in Arrived(p) :
               log' = [log EXCEPT ![p] = IF InContext(p, m) THEN AdmittedMessage(p, m) ELSE log[p]]
        BY <3>4 DEF Receive
      <4>2. CASE InContext(p, m)
        <5> DEFINE l == AdmittedMessage(p, m)
        <5>1. Stage(p) \in {"AwaitOpponentKeys", "AwaitInitialShuffle"}
          BY <2>1, <2>4, <3>4 DEF Receive, Awaiting, StagesOf, CreatorStages, Ended
        <5>2. l \in {AdmittedPeer(p, m), AdmittedInitial(p, m)}
          BY <5>1 DEF AdmittedMessage
        <5>3. AdmittedPeer(p, m).final = log[p].final
          BY <2>1 DEF AdmittedPeer, Logs
        <5>4. AdmittedInitial(p, m).final = log[p].final
          BY <2>1 DEF AdmittedInitial, Logs
        <5>5. l.final = log[p].final
          BY <5>2, <5>3, <5>4
        <5>6. log' = [log EXCEPT ![p] = l]
          BY <4>1, <4>2
        <5> HIDE DEF l
        <5> QED BY <2>1, <5>5, <5>6
      <4>3. CASE ~InContext(p, m)
        BY <2>1, <4>1, <4>3
      <4> QED BY <4>2, <4>3
    <3>5. CASE ShuffleInitial(p)
      BY <2>1, <2>4, <3>5 DEF ShuffleInitial, StagesOf, CreatorStages, Ended
    <3>6. CASE ShuffleFinal(p)
      <4> DEFINE m == Shuffle(p, "FinalShuffle", DeckOf(log[p].initial), Now(p) + Timeout)
                 l == [log[p] EXCEPT !.pending = {m}, !.final = {m}, !.stage = NextStage(p)]
      <4>1. log' = [log EXCEPT ![p] = l] /\ Stage(p) = "FinalShuffle" /\ log[p].stage = "FinalShuffle"
        BY <3>6 DEF ShuffleFinal, Stage
      <4>2. l.stage = NextStage(p)
        BY <2>1 DEF Logs
      <4>3. NextStage(p) = "FinalShufflePrepared"
        BY <2>4, <4>1, CreatorStageOrder DEF NextStage
      <4>4. log[p].final = {}
        BY <2>1, <2>4, <4>1 DEF At, CreatorAt
      <4> HIDE DEF l
      <4> QED BY <2>1, <4>1, <4>2, <4>3, <4>4
    <3> QED BY <1>4, <3>1, <3>2, <3>3, <3>4, <3>5, <3>6
  <2> QED BY <2>2, <2>3, <2>4
<1> HIDE DEF Moves
<1>5. log' = log \/ \E p \in Parties : Moves(p)
  <2>1. ASSUME NEW p \in Parties, PartyStep(p) PROVE log' = log \/ Moves(p)
    BY <1>2, <1>4, <2>1 DEF PartyStep
  <2>2. \/ Tick \/ Quiet \/ UNCHANGED vars
        \/ \E p \in Parties : PartyStep(p) \/ Stop(p) \/ Start(p)
        \/ \E p \in Parties, d \in relay : Deliver(p, d)
    BY DEF Next
  <2>3. CASE \E p \in Parties : PartyStep(p) \/ Stop(p) \/ Start(p)
    BY <1>2, <2>1, <2>3, Zenon
  <2>4. CASE \E p \in Parties, d \in relay : Deliver(p, d)
    BY <1>3, <2>4, Zenon
  <2> QED BY <1>1, <2>2, <2>3, <2>4
<1> QED BY <1>5 DEF Moves

\* The contract of a final shuffle that waits to be published.
LEMMA OfferFacts ==
    ASSUME TInv, log[Creator].stage = "FinalShufflePrepared"
    PROVE  Offered = {} \/ \E c \in AllContracts : Offered = {c}
<1>1. Creator \in Parties
  BY DEF Parties
<1>2. SInv /\ log[Creator] \in Logs /\ CreatorAt(log[Creator])
  BY <1>1, GenuineFacts DEF At
<1>3. PICK m \in Messages : log[Creator].pending = {m} /\ m.from = Creator
  BY <1>1, <1>2, OwnFacts DEF SavesItsNext, PublishingStages
<1>4. log[Creator].final = {m}
  BY <1>2, <1>3 DEF CreatorAt
<1>5. m \in Known(Creator, log[Creator], proc[Creator])
  BY <1>3 DEF Known
<1>6. Authored(m, log[Creator])
  BY <1>1, <1>3, <1>5, GenuineFacts
<1>7. log[Creator].peer \subseteq Joiners
  BY <1>2 DEF CreatorAt, Logs, Parties
<1>8. m.binding \in SUBSET Joiners
  <2>1. KeyMessage(m.from).binding = {}
    BY DEF KeyMessage
  <2> QED BY <1>3, <1>6, <1>7, <2>1 DEF Authored
<1>9. Contract(m) \in AllContracts
  BY <1>8 DEF Contract, AllContracts, Messages
<1> QED BY <1>4, <1>9 DEF Offered

\* What the step of the offer rests on, before it and after it.
OfferInv ==
    /\ TInv
    /\ (\E j \in Joiners : log[j].final # {}) => Answer = "taken"
    /\ (\E j \in Joiners : log[j].stage = "Expired") => Answer = "refused"
    /\ (\A j \in Joiners : ~HasAnswered(j)) => Answer = "none"
    /\ \A j \in Joiners : HasAnswered(j) => log[Creator].final # {}
    /\ log[Creator].stage = "FinalShufflePrepared" =>
          Offered = {} \/ \E c \in AllContracts : Offered = {c}

LEMMA OfferInvHolds == TInv => OfferInv
  BY AnswerIs, AnswerFacts, OfferFacts DEF OfferInv

LEMMA OfferStep ==
    ASSUME OfferInv, OfferInv', [Next]_vars
    PROVE  [TheOffer!Next]_(TheOffer!vars)
<1>0. TInv /\ Creator \in Parties /\ Joiners \subseteq Parties /\ Creator \notin Joiners
  BY PartiesAssumption DEF Parties, OfferInv
<1>1. CASE log' = log
  BY <1>1 DEF TheOffer!vars, Offered, Answer, Taken, Contract, Stage
<1>2. ASSUME NEW p \in Parties, \A q \in Parties : q # p => log'[q] = log[q], ~Over(p),
             p = Creator => \/ log'[p].final = log[p].final
                            \/ log[p].final = {} /\ log'[p].stage = "FinalShufflePrepared"
      PROVE  [TheOffer!Next]_(TheOffer!vars)
  <2>1. CASE p = Creator
    <3>1. \A j \in Joiners : log'[j] = log[j]
      BY <1>0, <1>2, <2>1
    <3>2. \A j \in Joiners : log[j].final # {} => log'[Creator].final = log[Creator].final
      <4> SUFFICES ASSUME NEW j \in Joiners, log[j].final # {}
                   PROVE  log'[Creator].final = log[Creator].final
        OBVIOUS
      <4>1. log[Creator].final # {}
        BY <1>0, AnswerFacts DEF HasAnswered
      <4> QED BY <1>2, <2>1, <4>1
    <3>3. Answer' = Answer
      <4>1. Taken' = Taken
        BY <3>1 DEF Taken, Contract
      <4>2. CASE Taken = {}
        BY <3>1, <4>1, <4>2 DEF Answer, Stage
      <4>3. CASE Taken # {}
        <5>1. PICK j \in Joiners : log[j].final # {}
          BY <4>3 DEF Taken
        <5>2. log'[j].final # {}
          BY <3>1, <5>1
        <5>3. Answer = "taken"
          BY <5>1 DEF OfferInv
        <5>4. Answer' = "taken"
          BY <5>2 DEF OfferInv
        <5> QED BY <5>3, <5>4
      <4> QED BY <4>2, <4>3
    <3>4. CASE log'[Creator].final = log[Creator].final
      BY <3>3, <3>4 DEF TheOffer!vars, Offered, Contract
    <3>5. CASE log[Creator].final = {} /\ log'[Creator].stage = "FinalShufflePrepared"
      <4>1. Offered = {}
        BY <3>5 DEF Offered
      <4>2. Offered' = {} \/ \E c \in AllContracts : Offered' = {c}
        BY <3>5 DEF OfferInv
      <4>3. CASE Offered' = {}
        BY <3>3, <4>1, <4>3 DEF TheOffer!vars
      <4>4. CASE \E c \in AllContracts : Offered' = {c}
        BY <3>3, <4>1, <4>4 DEF TheOffer!Next, TheOffer!MakeOffer
      <4> QED BY <4>2, <4>3, <4>4
    <3> QED BY <1>2, <2>1, <3>4, <3>5
  <2>2. CASE p # Creator
    <3>1. log'[Creator] = log[Creator]
      BY <1>0, <1>2, <2>2
    <3>2. Offered' = Offered
      BY <3>1 DEF Offered, Contract
    <3>3. CASE \E j \in Joiners : HasAnswered(j)
      <4>1. PICK j \in Joiners : HasAnswered(j)
        BY <3>3
      <4>2. j # p
        BY <1>0, <1>2, <4>1, AnswerFacts
      <4>3. log'[j] = log[j]
        BY <1>0, <1>2, <4>1, <4>2
      <4>4. log[j].final # {} => Answer = "taken" /\ Answer' = "taken"
        BY <4>3 DEF OfferInv
      <4>5. log[j].stage = "Expired" => Answer = "refused" /\ Answer' = "refused"
        BY <4>3 DEF OfferInv
      <4>6. Answer' = Answer
        BY <4>1, <4>4, <4>5 DEF HasAnswered
      <4> QED BY <3>2, <4>6 DEF TheOffer!vars
    <3>4. CASE \A j \in Joiners : ~HasAnswered(j)
      <4>1. Answer = "none"
        BY <3>4 DEF OfferInv
      <4>2. CASE \E j \in Joiners : HasAnswered(j)'
        <5>1. PICK j \in Joiners : HasAnswered(j)'
          BY <4>2
        <5>2. log'[Creator].final # {}
          BY <5>1 DEF OfferInv
        <5>3. Offered # {}
          <6>1. PICK m : m \in log[Creator].final
            BY <3>1, <5>2
          <6>2. Contract(m) \in Offered
            BY <6>1 DEF Offered
          <6> QED BY <6>2
        <5>4. Answer' \in {"taken", "refused"}
          BY <5>1 DEF OfferInv, HasAnswered
        <5> QED BY <3>2, <4>1, <5>3, <5>4 DEF TheOffer!Next, TheOffer!AnswerOffer
      <4>3. CASE \A j \in Joiners : ~HasAnswered(j)'
        <5>1. Answer' = "none"
          BY <4>3 DEF OfferInv
        <5> QED BY <3>2, <4>1, <5>1 DEF TheOffer!vars
      <4> QED BY <4>2, <4>3
    <3> QED BY <3>3, <3>4
  <2> QED BY <2>1, <2>2
<1> QED BY <1>0, <1>1, <1>2, LogMoves

\* The creator makes one offer, to one joiner, and never changes it; that joiner takes
\* exactly the contract offered or refuses it for good (reduce.go, setup_admission.go).
THEOREM OneContract == Spec => OffersOneContract
<1>1. Init => TheOffer!Init
  <2> SUFFICES ASSUME Init PROVE TheOffer!Init
    OBVIOUS
  <2>1. \A p \in Parties : log[p].final = {} /\ log[p].stage = "SessionPrepared"
    BY DEF Init, EmptyLog
  <2>2. Offered = {}
    BY <2>1 DEF Offered, Parties
  <2>3. Answer = "none"
    <3>1. \A j \in Joiners : ~HasAnswered(j)
      BY <2>1 DEF HasAnswered, Parties
    <3> QED BY <3>1, InitTInv, AnswerIs
  <2> QED BY <2>2, <2>3 DEF TheOffer!Init
<1>2. OfferInv /\ OfferInv' /\ [Next]_vars => [TheOffer!Next]_(TheOffer!vars)
  BY OfferStep
<1> QED BY <1>1, <1>2, OfferInvHolds, TInvAlways, PTL DEF Spec, OffersOneContract
=============================================================================
