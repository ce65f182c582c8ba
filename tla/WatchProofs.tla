---------------------------- MODULE WatchProofs -----------------------------
(***************************************************************************)
(* Proofs about Watch, for any number of changes, failures, queued events  *)
(* and waiting hints: no reader waits for a wakeup that has been lost.     *)
(***************************************************************************)
EXTENDS Watch, TLAPS

(***************************************************************************)
(* The inductive invariant, part by part.                                  *)
(***************************************************************************)
Phases == {"step", "attach", "halted", "inspect", "select", "poll", "check", "look again",
           "rest", "attaching", "refresh", "next", "retry"}

\* What the index may have said by now; it announces no change that it has not accepted.
Frames(n) == [kind : {"started", "changed"}, change : 0..n]

Wires(n) == [registered : BOOLEAN, frames : Seq(Frames(n))]
Streams(n) == [state : {"closed", "opening", "live", "terminated"}, ready : BOOLEAN,
               events : Seq(Frames(n)), gapSent : BOOLEAN]
Readers(n) == [kind : {"driver", "balance"}, phase : Phases, goal : Waits \cup {"none"},
               hint : 0..n]
Watches(n) == [phase : {"none", "reading", "waking", "ended"}, changed : BOOLEAN,
               hints : Seq(0..n), gap : BOOLEAN, fault : BOOLEAN]

\* Hints, events and frames tell of changes that have happened.
Typed ==
    /\ changes \in Nat /\ known \in Nat /\ unavailable \in BOOLEAN
    /\ wire \in Wires(changes)
    /\ stream \in Streams(changes)
    /\ reader \in Readers(changes)
    /\ watch \in Watches(changes)

\* A live subscription is registered: what changes from now on is sent.
Registered ==
    /\ wire.frames # <<>> => wire.registered
    /\ wire.registered => stream.state \in {"opening", "live"}
    /\ stream.state = "live" => wire.registered /\ stream.ready
    /\ stream.ready => stream.state \in {"live", "terminated"}

\* A stream that is ready and was not read has something to read.
Answered == Ready => Terminated \/ stream.events # <<>>

\* The driver: its goroutine reads an attached stream and ends with a wakeup; a watch that
\* ended and woke the driver already is replaced before the driver waits again.
DriverFits ==
    reader.kind = "driver" =>
        /\ reader.phase \in {"attach", "halted"} => watch = NoWatch
        /\ reader.phase = "attach" => Answered
        /\ watch.phase # "none" => stream.state \in {"live", "terminated"}
        /\ watch.fault => watch.phase \in {"waking", "ended"}
        /\ watch.phase = "ended" => watch.fault
        /\ OpponentsTurn /\ watch.phase = "ended" /\ ~watch.changed =>
              reader.phase \in {"step", "poll", "check"}
        /\ OpponentsTurn /\ watch.phase = "none" =>
              reader.phase \in {"step", "attach", "halted"}

\* The balance: it asks only after it is attached.
BalanceFits ==
    reader.kind = "balance" =>
        /\ watch = NoWatch
        /\ reader.phase \in {"refresh", "next"} => stream.state \in {"live", "terminated"}
        /\ reader.phase = "next" => ~unavailable

WInv == Typed /\ Registered /\ DriverFits /\ BalanceFits /\ NoWakeupIsLost

(***************************************************************************)
(* Sequences and frames.                                                   *)
(***************************************************************************)
LEMMA MoreOf == ASSUME NEW S, NEW T, S \subseteq T, NEW s \in Seq(S) PROVE s \in Seq(T)
  OBVIOUS

LEMMA NotEmpty ==
    ASSUME NEW S, NEW s \in Seq(S), NEW e \in S
    PROVE  Append(s, e) # <<>> /\ Append(s, e) \in Seq(S)
<1>1. Append(s, e) \in Seq(S) /\ Len(Append(s, e)) = Len(s) + 1 /\ Len(s) \in Nat
  OBVIOUS
<1>2. Len(Append(s, e)) # 0
  BY <1>1
<1> QED BY <1>1, <1>2

LEMMA Parts ==
    ASSUME NEW S, NEW s \in Seq(S), s # <<>> PROVE Head(s) \in S /\ Tail(s) \in Seq(S)
  OBVIOUS

LEMMA FrameFacts ==
    /\ \A n \in Nat : Started \in Frames(n) /\ \A k \in 1..n : Changed(k) \in Frames(n)
    /\ \A n \in Nat : Frames(n) \subseteq Frames(n + 1) /\ 0..n \subseteq 0..(n + 1)
    /\ Started.kind = "started" /\ \A k : Changed(k).kind = "changed" /\ Changed(k).change = k
    /\ Gap.kind = "gap" /\ Error.kind = "error"
  BY DEF Started, Changed, Gap, Error, Frames

LEMMA FreshTypes ==
    /\ \A n \in Nat : NoWatch \in Watches(n)
    /\ NoWatch.phase = "none" /\ ~NoWatch.fault /\ ~NoWatch.changed
    /\ \A n \in Nat, state \in {"closed", "opening"} :
          /\ NoWire \in Wires(n)
          /\ [NoStream EXCEPT !.state = state] \in Streams(n)
          /\ [NoStream EXCEPT !.state = state].state = state
          /\ ~[NoStream EXCEPT !.state = state].ready
    /\ NoStream = [NoStream EXCEPT !.state = "closed"]
    /\ ~NoWire.registered /\ NoWire.frames = <<>>
<1>1. /\ \A n : <<>> \in Seq(0..n) /\ <<>> \in Seq(Frames(n))
      /\ [NoStream EXCEPT !.state = "closed"] = NoStream
  BY DEF NoStream
<1>2. ASSUME NEW n \in Nat
      PROVE  NoWatch \in Watches(n) /\ NoWire \in Wires(n)
  BY <1>1 DEF NoWatch, NoWire, Wires, Watches
<1>3. ASSUME NEW n \in Nat, NEW state \in {"closed", "opening"}
      PROVE  /\ [NoStream EXCEPT !.state = state] \in Streams(n)
             /\ [NoStream EXCEPT !.state = state].state = state
             /\ ~[NoStream EXCEPT !.state = state].ready
  <2>1. NoStream \in Streams(n) /\ ~NoStream.ready
    BY <1>1 DEF NoStream, Streams
  <2> QED BY <2>1 DEF Streams
<1>4. NoWatch.phase = "none" /\ ~NoWatch.fault /\ ~NoWatch.changed
      /\ ~NoWire.registered /\ NoWire.frames = <<>>
  BY DEF NoWatch, NoWire
<1> QED BY <1>1, <1>2, <1>3, <1>4

LEMMA InitWInv == Init => WInv
<1> SUFFICES ASSUME Init PROVE WInv
  OBVIOUS
<1>1. changes = 0 /\ known = 0 /\ wire = NoWire /\ stream = NoStream /\ watch = NoWatch
      /\ unavailable = FALSE
      /\ reader \in [kind : {"driver", "balance"}, phase : {"step"}, goal : {"none"}, hint : {0}]
  BY DEF Init, StreamInit
<1>2. Typed
  <2>1. NoWire \in Wires(0) /\ NoStream \in Streams(0)
    BY DEF NoWire, NoStream, Wires, Streams
  <2>2. reader \in Readers(0)
    <3>1. 0 \in 0..0
      OBVIOUS
    <3> QED BY <1>1, <3>1 DEF Phases, Readers
  <2>3. NoWatch \in Watches(0)
    BY FreshTypes
  <2> QED BY <1>1, <2>1, <2>2, <2>3 DEF Typed
<1>3. Registered /\ DriverFits /\ BalanceFits
  BY <1>1 DEF Registered, DriverFits, BalanceFits, Answered, NoWire, NoStream, NoWatch, Ready
<1>4. NoWakeupIsLost
  BY <1>1 DEF NoWakeupIsLost, Driver, Balance
<1> QED BY <1>2, <1>3, <1>4 DEF WInv

(***************************************************************************)
(* The stream.                                                             *)
(***************************************************************************)
\* The readers' side is left alone by the index and the adapter.
Aside == UNCHANGED <<reader, watch, shownVars>>

LEMMA ChangeWInv == ASSUME WInv, Change, Aside PROVE WInv'
<1> DEFINE n == changes
           frames == wire.frames
<1>1. /\ changes \in Nat /\ changes' = changes + 1
      /\ UNCHANGED <<stream, reader, watch, known, unavailable>>
      /\ frames \in Seq(Frames(n))
  BY DEF WInv, Typed, Change, Aside, shownVars, Wires
<1>2. ~wire.registered => wire' = wire
  BY DEF Change
<1>3. wire.registered => /\ wire'.registered /\ wire'.frames = Append(frames, Changed(n + 1))
                         /\ wire' \in Wires(n + 1)
  <2>1. frames \in Seq(Frames(n + 1)) /\ Changed(n + 1) \in Frames(n + 1)
    BY <1>1, MoreOf, FrameFacts
  <2>2. Append(frames, Changed(n + 1)) \in Seq(Frames(n + 1))
    BY <2>1
  <2> QED BY <2>2 DEF Change, WInv, Typed, Wires
<1>4. wire'.registered = wire.registered
  BY <1>2, <1>3 DEF WInv, Typed, Wires
<1>5. Typed'
  <2>1. wire' \in Wires(n + 1)
    BY <1>1, <1>2, <1>3, MoreOf, FrameFacts DEF WInv, Typed, Wires
  <2>2. stream.events \in Seq(Frames(n + 1)) /\ watch.hints \in Seq(0..(n + 1))
        /\ reader.hint \in 0..(n + 1)
    <3>1. stream.events \in Seq(Frames(n)) /\ watch.hints \in Seq(0..n) /\ reader.hint \in 0..n
      BY DEF WInv, Typed, Streams, Readers, Watches
    <3>2. Frames(n) \subseteq Frames(n + 1) /\ 0..n \subseteq 0..(n + 1)
      BY <1>1, FrameFacts
    <3>3. stream.events \in Seq(Frames(n + 1))
      BY <3>1, <3>2, MoreOf
    <3>4. watch.hints \in Seq(0..(n + 1))
      BY <3>1, <3>2, MoreOf
    <3> QED BY <3>1, <3>2, <3>3, <3>4
  <2>3. stream \in Streams(n + 1)
    BY <2>2 DEF WInv, Typed, Streams
  <2>4. reader \in Readers(n + 1)
    BY <2>2 DEF WInv, Typed, Readers
  <2>5. watch \in Watches(n + 1)
    BY <2>2 DEF WInv, Typed, Watches
  <2> QED BY <1>1, <2>1, <2>3, <2>4, <2>5 DEF WInv, Typed
<1>6. Registered' /\ DriverFits' /\ BalanceFits'
  BY <1>1, <1>2, <1>4 DEF WInv, Registered, DriverFits, BalanceFits, Answered, Ready, Terminated,
     OpponentsTurn
<1>7. wire.registered => /\ wire'.frames # <<>>
                         /\ \E i \in DOMAIN wire'.frames : wire'.frames[i].kind = "changed"
  <2> SUFFICES ASSUME wire.registered
               PROVE  /\ wire'.frames # <<>>
                      /\ \E i \in DOMAIN wire'.frames : wire'.frames[i].kind = "changed"
    OBVIOUS
  <2>1. Len(frames) + 1 \in DOMAIN Append(frames, Changed(n + 1))
        /\ Append(frames, Changed(n + 1))[Len(frames) + 1] = Changed(n + 1)
    BY <1>1
  <2> QED BY <1>3, <2>1, FrameFacts DEF Wires
<1>8. NoWakeupIsLost'
  <2>1. stream.state = "live" => Announced' /\ ChangeAnnounced'
    BY <1>7 DEF WInv, Registered, Announced, ChangeAnnounced
  <2>2. Terminated => Announced' /\ ChangeAnnounced'
    BY <1>1 DEF Announced, ChangeAnnounced, Terminated
  <2>3. ASSUME Driver("select") \/ Driver("rest"), OpponentsTurn
        PROVE  watch.changed \/ watch.phase = "waking" \/ (watch.phase = "reading" /\ Announced')
    BY <2>1, <2>2, <2>3 DEF WInv, Typed, DriverFits, Driver, Terminated, Watches
  <2>4. Balance("next") => ChangeAnnounced'
    BY <2>1, <2>2 DEF WInv, BalanceFits, Balance, Terminated
  <2>5. known <= changes + 1
    BY <1>1 DEF WInv, Typed, NoWakeupIsLost
  <2> QED BY <1>1, <2>3, <2>4, <2>5 DEF NoWakeupIsLost, Driver, Balance, OpponentsTurn
<1> QED BY <1>5, <1>6, <1>8 DEF WInv

\* What a step of the stream must keep, the readers being left alone.
LEMMA StreamStep ==
    ASSUME WInv, Aside, UNCHANGED changes, Typed', Registered',
           stream.state \in {"live", "terminated"} => stream'.state \in {"live", "terminated"},
           Answered => Answered', Announced => Announced', ChangeAnnounced => ChangeAnnounced'
    PROVE  WInv'
<1>1. UNCHANGED <<reader, watch, known, unavailable>>
  BY DEF Aside, shownVars
<1>2. DriverFits' /\ BalanceFits'
  BY <1>1 DEF WInv, DriverFits, BalanceFits, OpponentsTurn
<1>3. NoWakeupIsLost'
  BY <1>1 DEF WInv, NoWakeupIsLost, Driver, Balance, OpponentsTurn, Current
<1> QED BY <1>2, <1>3 DEF WInv

\* An overflow and a broken connection end the stream; its events stay unread.
LEMMA EndedStep ==
    ASSUME WInv, Aside, UNCHANGED changes,
           stream' = [stream EXCEPT !.state = "terminated"], wire' = NoWire
    PROVE  WInv'
<1>1. stream'.state = "terminated" /\ ~wire'.registered /\ wire'.frames = <<>>
  BY DEF WInv, Typed, Streams, NoWire
<1>2. Typed'
  <2>1. /\ UNCHANGED <<reader, watch, known, unavailable, changes>>
        /\ NoWire \in Wires(changes)
    BY DEF Aside, shownVars, NoWire, Wires
  <2>2. stream' \in Streams(changes)
    BY DEF WInv, Typed, Streams
  <2> QED BY <2>1, <2>2 DEF WInv, Typed
<1>3. Terminated' /\ Registered'
  BY <1>1 DEF Terminated, Registered
<1> QED BY <1>1, <1>2, <1>3, StreamStep DEF Answered, Announced, ChangeAnnounced

LEMMA RegisterWInv == ASSUME WInv, Register, Aside PROVE WInv'
<1>1. /\ stream.state = "opening" /\ wire' = [registered |-> TRUE, frames |-> <<Started>>]
      /\ UNCHANGED <<changes, stream>>
  BY DEF Register
<1>2. Typed'
  <2>1. <<Started>> \in Seq(Frames(changes))
    BY FrameFacts DEF WInv, Typed
  <2> QED BY <1>1, <2>1 DEF WInv, Typed, Aside, shownVars, Wires
<1>3. Registered'
  BY <1>1 DEF WInv, Registered
<1>4. ~wire.registered
  BY DEF Register
<1>5. Answered => Answered'
  BY <1>1 DEF Answered, Ready, Terminated
<1>6. Announced'
  BY <1>1 DEF Announced
<1>7. ChangeAnnounced => ChangeAnnounced'
  <2>1. DOMAIN wire.frames = {}
    BY <1>4 DEF WInv, Registered
  <2> QED BY <1>1, <2>1 DEF ChangeAnnounced, Terminated
<1> QED BY <1>1, <1>2, <1>3, <1>5, <1>6, <1>7, StreamStep

LEMMA RecvWInv == ASSUME WInv, Recv, Aside PROVE WInv'
<1> DEFINE F == Frames(changes)
           frames == wire.frames
           events == stream.events
<1>1. /\ frames \in Seq(F) /\ events \in Seq(F) /\ frames # <<>> /\ UNCHANGED changes
      /\ wire.registered /\ stream.state \in {"opening", "live"}
  BY DEF WInv, Typed, Registered, Recv, Wires, Streams
<1>2. CASE Len(events) < QueueSize
  <2>1. stream' = [stream EXCEPT !.state = "live", !.ready = TRUE,
                                    !.events = Append(events, Head(frames))]
        /\ wire' = [wire EXCEPT !.frames = Tail(frames)]
    BY <1>2 DEF Recv
  <2>2. /\ stream'.state = "live" /\ stream'.ready /\ stream'.events = Append(events, Head(frames))
        /\ wire'.registered /\ wire'.frames = Tail(frames)
    BY <1>1, <2>1 DEF WInv, Typed, Wires, Streams
  <2>3. Append(events, Head(frames)) \in Seq(F) /\ Tail(frames) \in Seq(F)
        /\ Append(events, Head(frames)) # <<>>
    <3>1. Head(frames) \in F /\ Tail(frames) \in Seq(F)
      BY <1>1
    <3>2. Append(events, Head(frames)) \in Seq(F)
      BY <1>1, <3>1
    <3>3. Append(events, Head(frames)) # <<>>
      BY <1>1, <3>1, NotEmpty
    <3> QED BY <3>1, <3>2, <3>3
  <2>4. Typed'
    BY <1>1, <2>1, <2>3 DEF WInv, Typed, Aside, shownVars, Wires, Streams
  <2>5. Registered' /\ Answered' /\ Announced'
    BY <2>2, <2>3 DEF Registered, Answered, Announced
  <2>6. ~Terminated
    BY <1>1 DEF Terminated
  <2>7. ASSUME NEW i \in DOMAIN events, events[i].kind = "changed" PROVE ChangeAnnounced'
    <3>1. i \in DOMAIN Append(events, Head(frames)) /\ Append(events, Head(frames))[i] = events[i]
      BY <1>1
    <3> QED BY <2>2, <2>7, <3>1 DEF ChangeAnnounced
  <2>8. ASSUME NEW i \in DOMAIN frames, frames[i].kind = "changed" PROVE ChangeAnnounced'
    <3>1. CASE i = 1
      <4>1. Append(events, Head(frames))[Len(events) + 1] = frames[i]
            /\ Len(events) + 1 \in DOMAIN Append(events, Head(frames))
        BY <1>1, <3>1
      <4> QED BY <2>2, <2>8, <4>1 DEF ChangeAnnounced
    <3>2. CASE i # 1
      <4>1. i - 1 \in DOMAIN Tail(frames) /\ Tail(frames)[i - 1] = frames[i]
        BY <1>1, <3>2
      <4> QED BY <2>2, <2>8, <4>1 DEF ChangeAnnounced
    <3> QED BY <3>1, <3>2
  <2>9. ChangeAnnounced => ChangeAnnounced'
    BY <2>6, <2>7, <2>8 DEF ChangeAnnounced
  <2> QED BY <1>1, <2>2, <2>4, <2>5, <2>9, StreamStep
<1>3. CASE ~(Len(events) < QueueSize)
  <2>1. stream' = [stream EXCEPT !.state = "terminated"] /\ wire' = NoWire
    BY <1>3 DEF Recv
  <2> QED BY <1>1, <2>1, EndedStep
<1> QED BY <1>2, <1>3

LEMMA BreakWInv == ASSUME WInv, Break, Aside PROVE WInv'
  BY EndedStep DEF Break

(***************************************************************************)
(* The goroutine of the driver's watch.                                    *)
(***************************************************************************)
\* Reading takes the first event of a stream, or learns of its end.
LEMMA ReadEffect ==
    ASSUME WInv, NEW event, ReadNext(event), UNCHANGED <<changes, wire>>
    PROVE  /\ stream' \in Streams(changes)
           /\ stream'.state = stream.state /\ stream'.ready = stream.ready
           /\ event.kind = "changed" => event.change \in 0..changes
           /\ ~Terminated => /\ stream.events # <<>> /\ event = Head(stream.events)
                             /\ stream'.events = Tail(stream.events)
<1>1. CASE Terminated
  <2>1. stream' = [stream EXCEPT !.gapSent = TRUE] /\ event \in {Gap, Error}
    BY <1>1 DEF ReadNext
  <2> QED BY <1>1, <2>1, FrameFacts DEF WInv, Typed, Streams
<1>2. CASE ~Terminated
  <2>1. /\ stream.events # <<>> /\ event = Head(stream.events)
        /\ stream' = [stream EXCEPT !.events = Tail(stream.events)]
    BY <1>2 DEF ReadNext
  <2>2. stream.events \in Seq(Frames(changes))
    BY DEF WInv, Typed, Streams
  <2>3. Tail(stream.events) \in Seq(Frames(changes)) /\ event \in Frames(changes)
    BY <2>1, <2>2
  <2>4. event.change \in 0..changes
    BY <2>3 DEF Frames
  <2> QED BY <1>2, <2>1, <2>3, <2>4 DEF WInv, Typed, Streams
<1> QED BY <1>1, <1>2

LEMMA StoredType ==
    ASSUME WInv, NEW event, event.kind = "changed" => event.change \in 0..changes
    PROVE  Stored(event) \in Watches(changes)
<1>1. watch \in Watches(changes)
  BY DEF WInv, Typed, Watches
<1>2. CASE event.kind = "changed" /\ Len(watch.hints) < HintSize
  <2>1. Append(watch.hints, event.change) \in Seq(0..changes)
    BY <1>1, <1>2, NotEmpty DEF Watches
  <2>2. Stored(event) = [watch EXCEPT !.hints = Append(watch.hints, event.change)]
    BY <1>2 DEF Stored
  <2> QED BY <1>1, <2>1, <2>2 DEF Watches
<1>3. CASE ~(event.kind = "changed" /\ Len(watch.hints) < HintSize)
  <2>1. Stored(event) \in {watch, [watch EXCEPT !.gap = TRUE], [watch EXCEPT !.fault = TRUE]}
    BY <1>3 DEF Stored
  <2> QED BY <1>1, <2>1 DEF Watches
<1> QED BY <1>2, <1>3

LEMMA RelayWInv == ASSUME WInv, Relay PROVE WInv'
<1>1. PICK event : ReadNext(event) /\ watch' = [Stored(event) EXCEPT !.phase = "waking"]
  BY DEF Relay
<1>2. UNCHANGED <<changes, wire, reader, known, unavailable>> /\ watch.phase = "reading"
  BY DEF Relay, shownVars
<1>3. watch' \in Watches(changes) /\ watch'.phase = "waking"
  BY <1>1, <1>2, ReadEffect, StoredType DEF Watches
<1>4. Typed'
  BY <1>1, <1>2, <1>3, ReadEffect DEF WInv, Typed, Watches
<1>5. Registered'
  BY <1>1, <1>2, ReadEffect DEF WInv, Registered
<1>6. reader.kind = "driver" /\ reader.phase \notin {"attach", "halted"}
  BY <1>2, FreshTypes DEF WInv, Typed, DriverFits, BalanceFits, Readers
<1>7. DriverFits' /\ BalanceFits'
  BY <1>1, <1>2, <1>3, <1>6, ReadEffect DEF WInv, DriverFits, BalanceFits, OpponentsTurn
<1>8. NoWakeupIsLost'
  BY <1>2, <1>3, <1>6 DEF WInv, NoWakeupIsLost, Balance
<1> QED BY <1>4, <1>5, <1>7, <1>8 DEF WInv

LEMMA WakeWInv == ASSUME WInv, Wake PROVE WInv'
<1>1. /\ watch.phase = "waking"
      /\ watch' = [watch EXCEPT !.changed = TRUE,
                                !.phase = IF watch.fault THEN "ended" ELSE "reading"]
      /\ UNCHANGED <<changes, wire, stream, reader, known, unavailable>>
  BY DEF Wake, streamVars, shownVars
<1>2. /\ watch' \in Watches(changes) /\ watch'.changed /\ watch'.fault = watch.fault
      /\ watch'.phase = IF watch.fault THEN "ended" ELSE "reading"
  BY <1>1 DEF WInv, Typed, Watches
<1>3. Typed' /\ Registered'
  BY <1>1, <1>2 DEF WInv, Typed, Watches, Registered
<1>4. reader.kind = "driver" /\ reader.phase \notin {"attach", "halted"}
  BY <1>1, FreshTypes DEF WInv, Typed, DriverFits, BalanceFits, Readers
<1>5. DriverFits' /\ BalanceFits'
  BY <1>1, <1>2, <1>4 DEF WInv, DriverFits, BalanceFits, OpponentsTurn
<1>6. NoWakeupIsLost'
  BY <1>1, <1>2, <1>4 DEF WInv, NoWakeupIsLost, Balance
<1> QED BY <1>3, <1>5, <1>6 DEF WInv

(***************************************************************************)
(* The driver.                                                             *)
(***************************************************************************)
LEMMA Goes ==
    ASSUME WInv, NEW p \in Phases, GoTo(p)
    PROVE  /\ reader' \in Readers(changes) /\ reader'.kind = reader.kind /\ reader'.phase = p
           /\ reader'.goal = "none" /\ reader'.hint = 0
<1>1. reader \in Readers(changes) /\ 0 \in 0..changes
  BY DEF WInv, Typed, Readers
<1> QED BY <1>1 DEF GoTo, Readers

\* A step between two waits that leaves the stream and the progress of the watch alone.
LEMMA LoopStep ==
    ASSUME WInv, reader.kind = "driver", NEW p \in Phases \ {"attach", "halted", "select"},
           reader' \in Readers(changes), reader'.kind = "driver", reader'.phase = p,
           watch' \in Watches(changes), watch'.phase = watch.phase, watch'.fault = watch.fault,
           UNCHANGED <<changes, wire, stream, known, unavailable>>,
           OpponentsTurn /\ watch.phase = "ended" /\ ~watch'.changed =>
              p \in {"step", "poll", "check"},
           OpponentsTurn /\ watch.phase = "none" => p = "step",
           OpponentsTurn /\ p = "rest" => ~(known < changes)
    PROVE  WInv'
<1>1. Typed' /\ Registered'
  BY DEF WInv, Typed, Registered, Readers, Watches
<1>2. DriverFits' /\ BalanceFits'
  BY DEF WInv, DriverFits, BalanceFits, OpponentsTurn
<1>3. NoWakeupIsLost'
  BY DEF WInv, NoWakeupIsLost, Driver, Balance, OpponentsTurn
<1> QED BY <1>1, <1>2, <1>3 DEF WInv

\* The same with the watch left alone.
LEMMA GoStep ==
    ASSUME WInv, reader.kind = "driver", NEW p \in Phases \ {"attach", "halted", "select"}, GoTo(p),
           UNCHANGED <<changes, wire, stream, watch, known, unavailable>>,
           OpponentsTurn /\ watch.phase = "ended" /\ ~watch.changed =>
              p \in {"step", "poll", "check"},
           OpponentsTurn /\ watch.phase = "none" => p = "step",
           OpponentsTurn /\ p = "rest" => ~(known < changes)
    PROVE  WInv'
<1>1. reader' \in Readers(changes) /\ reader'.kind = "driver" /\ reader'.phase = p
  BY Goes
<1>2. watch \in Watches(changes)
  BY DEF WInv, Typed, Watches
<1> QED BY <1>1, <1>2, LoopStep

\* A fresh attachment begins with no watch and an empty stream.
LEMMA EnsureStep ==
    ASSUME WInv, reader.kind = "driver", NEW p \in Waits, Ensure(p),
           UNCHANGED <<changes, known, unavailable>>,
           p = "select" => ~(known < changes)
    PROVE  WInv'
<1>1. p \in Phases /\ "attach" \in Phases
  BY DEF Waits, Phases
<1>2. CASE Healthy
  <2>1. GoTo(p) /\ UNCHANGED <<wire, stream, watch>>
    BY <1>2 DEF Ensure
  <2>2. watch.phase \notin {"none", "ended"} /\ ~watch.fault
    BY <1>2 DEF Healthy, WInv, DriverFits
  <2>3. reader' \in Readers(changes) /\ reader'.kind = "driver" /\ reader'.phase = p
    BY <1>1, <2>1, Goes
  <2>4. Typed' /\ Registered'
    BY <2>1, <2>3 DEF WInv, Typed, Registered, Readers
  <2>5. DriverFits' /\ BalanceFits'
    BY <2>1, <2>2, <2>3 DEF WInv, DriverFits, BalanceFits, OpponentsTurn, Waits
  <2>6. NoWakeupIsLost'
    BY <2>1, <2>3 DEF WInv, NoWakeupIsLost, Driver, Balance, Waits
  <2> QED BY <2>4, <2>5, <2>6 DEF WInv
<1>3. CASE ~Healthy
  <2>1. /\ stream' = [NoStream EXCEPT !.state = "opening"] /\ wire' = NoWire /\ watch' = NoWatch
        /\ reader' = [reader EXCEPT !.phase = "attach", !.goal = p, !.hint = 0]
    BY <1>3 DEF Ensure, Subscribe
  <2>2. reader' \in Readers(changes) /\ reader'.kind = "driver" /\ reader'.phase = "attach"
    <3>1. reader \in Readers(changes) /\ 0 \in 0..changes
      BY DEF WInv, Typed, Readers
    <3> QED BY <1>1, <2>1, <3>1 DEF Readers
  <2>3. Typed' /\ Registered'
    BY <2>1, <2>2, FreshTypes DEF WInv, Typed, Registered, Readers
  <2>4. DriverFits' /\ BalanceFits'
    BY <2>1, <2>2, FreshTypes DEF DriverFits, BalanceFits, Answered, Ready
  <2>5. NoWakeupIsLost'
    BY <2>2 DEF WInv, NoWakeupIsLost, Driver, Balance
  <2> QED BY <2>3, <2>4, <2>5 DEF WInv
<1> QED BY <1>2, <1>3

\* Having learnt of a change, the driver has no watch.
LEMMA LearnStep ==
    ASSUME WInv, reader.kind = "driver", Learn, known < changes, UNCHANGED <<changes, unavailable>>
    PROVE  WInv'
<1>1. /\ known' = known + 1 /\ stream' = NoStream /\ wire' = NoWire /\ watch' = NoWatch
      /\ known \in Nat /\ changes \in Nat
  BY DEF Learn, Unsubscribe, WInv, Typed
<1>2. reader' \in Readers(changes) /\ reader'.kind = "driver" /\ reader'.phase = "step"
  <2>1. "step" \in Phases
    BY DEF Phases
  <2> QED BY <2>1, Goes DEF Learn
<1>3. Typed' /\ Registered'
  <2>1. /\ stream' \in Streams(changes)
        /\ stream'.state = "closed" /\ ~stream'.ready
    BY <1>1, FreshTypes
  <2>2. /\ wire' \in Wires(changes)
        /\ ~wire'.registered /\ wire'.frames = <<>>
    BY <1>1, FreshTypes
  <2>3. watch' \in Watches(changes) /\ known' \in Nat
    BY <1>1, FreshTypes DEF Watches
  <2> QED BY <1>2, <2>1, <2>2, <2>3 DEF WInv, Typed, Registered, Readers, Watches
<1>4. DriverFits' /\ BalanceFits'
  BY <1>1, <1>2, FreshTypes DEF DriverFits, BalanceFits
<1>5. NoWakeupIsLost'
  BY <1>1, <1>2 DEF NoWakeupIsLost, Driver, Balance
<1> QED BY <1>3, <1>4, <1>5 DEF WInv

LEMMA BeginStepWInv == ASSUME WInv, BeginStep PROVE WInv'
<1>1. reader.kind = "driver" /\ UNCHANGED <<changes, known, unavailable>>
  BY DEF BeginStep, Driver, shownVars
<1>2. CASE OpponentsTurn
  BY <1>1, <1>2, EnsureStep DEF BeginStep, Waits
<1>3. CASE ~OpponentsTurn
  <2>1. "inspect" \in Phases
    BY DEF Phases
  <2> QED BY <1>1, <1>3, <2>1, GoStep DEF BeginStep
<1> QED BY <1>2, <1>3

LEMMA InspectWInv == ASSUME WInv, Inspect PROVE WInv'
<1>1. reader.kind = "driver" /\ reader.phase = "inspect" /\ UNCHANGED <<changes, unavailable>>
  BY DEF Inspect, Driver
<1>2. CASE known < changes
  BY <1>1, <1>2, LearnStep DEF Inspect
<1>3. CASE ~(known < changes) /\ OpponentsTurn /\ Ensure("select")
  BY <1>1, <1>3, EnsureStep DEF Inspect, Waits
<1>4. CASE ~(known < changes) /\ GoTo("rest") /\ UNCHANGED <<wire, stream, watch>>
  <2>1. "rest" \in Phases
    BY DEF Phases
  <2>2. UNCHANGED known
    BY <1>4 DEF Inspect
  <2>3. OpponentsTurn => watch.phase # "none" /\ ~(watch.phase = "ended" /\ ~watch.changed)
    BY <1>1 DEF WInv, DriverFits
  <2> QED BY <1>1, <1>4, <2>1, <2>2, <2>3, GoStep
<1> QED BY <1>2, <1>3, <1>4 DEF Inspect

LEMMA TakeHintWInv == ASSUME WInv, TakeHint PROVE WInv'
<1>1. /\ reader.kind = "driver" /\ reader.phase \in {"select", "poll"} /\ watch.hints # <<>>
      /\ reader' = [reader EXCEPT !.phase = "check", !.hint = Head(watch.hints)]
      /\ watch' = [watch EXCEPT !.hints = Tail(watch.hints)]
      /\ UNCHANGED <<changes, wire, stream, known, unavailable>>
  BY DEF TakeHint, Driver, streamVars, shownVars
<1>2. reader \in Readers(changes) /\ watch \in Watches(changes)
  BY DEF WInv, Typed, Readers, Watches
<1>3. Head(watch.hints) \in 0..changes /\ Tail(watch.hints) \in Seq(0..changes)
  <2>1. watch.hints \in Seq(0..changes)
    BY <1>2 DEF Watches
  <2> QED BY <1>1, <2>1, Parts
<1>4. /\ reader' \in Readers(changes) /\ reader'.kind = "driver" /\ reader'.phase = "check"
      /\ watch' \in Watches(changes) /\ watch'.phase = watch.phase /\ watch'.fault = watch.fault
  BY <1>1, <1>2, <1>3 DEF Readers, Watches, Phases
<1>5. OpponentsTurn => watch.phase # "none"
  BY <1>1 DEF WInv, DriverFits
<1>6. "check" \in Phases
  BY DEF Phases
<1> QED BY <1>1, <1>4, <1>5, <1>6, LoopStep

LEMMA NoHintWInv == ASSUME WInv, NoHint PROVE WInv'
<1>1. /\ reader.kind = "driver" /\ reader.phase = "poll" /\ GoTo("check")
      /\ UNCHANGED <<changes, wire, stream, watch, known, unavailable>>
  BY DEF NoHint, Driver, streamVars, shownVars
<1>2. OpponentsTurn => watch.phase # "none"
  BY <1>1 DEF WInv, DriverFits
<1>3. "check" \in Phases
  BY DEF Phases
<1> QED BY <1>1, <1>2, <1>3, GoStep

LEMMA WokenWInv == ASSUME WInv, Woken PROVE WInv'
<1> DEFINE p == AfterWaiting
<1>1. /\ reader.kind = "driver" /\ reader.phase \in {"select", "rest"} /\ GoTo(p)
      /\ watch' = [watch EXCEPT !.changed = FALSE]
      /\ UNCHANGED <<changes, wire, stream, known, unavailable>>
  BY DEF Woken, WaitingForWatch, Driver, streamVars, shownVars
<1>2. p \in {"poll", "step"} /\ p \in Phases
  BY DEF AfterWaiting, Phases
<1>3. /\ watch' \in Watches(changes) /\ watch'.phase = watch.phase /\ watch'.fault = watch.fault
  BY <1>1 DEF WInv, Typed, Watches
<1>4. OpponentsTurn => watch.phase # "none"
  BY <1>1 DEF WInv, DriverFits
<1> HIDE DEF p
<1>5. reader' \in Readers(changes) /\ reader'.kind = "driver" /\ reader'.phase = p
  BY <1>1, <1>2, Goes
<1> QED BY <1>1, <1>2, <1>3, <1>4, <1>5, LoopStep

LEMMA TimerWInv == ASSUME WInv, Timer PROVE WInv'
<1> DEFINE p == AfterWaiting
<1>1. /\ reader.kind = "driver" /\ reader.phase \in {"select", "rest"} /\ GoTo(p)
      /\ UNCHANGED <<changes, wire, stream, watch, known, unavailable>>
  BY DEF Timer, WaitingForWatch, Driver, streamVars, shownVars
<1>2. p \in {"poll", "step"} /\ p \in Phases
  BY DEF AfterWaiting, Phases
<1>3. OpponentsTurn => watch.phase # "none"
  BY <1>1 DEF WInv, DriverFits
<1> HIDE DEF p
<1> QED BY <1>1, <1>2, <1>3, GoStep

LEMMA CheckHintWInv == ASSUME WInv, CheckHint PROVE WInv'
<1>1. reader.kind = "driver" /\ reader.phase = "check" /\ UNCHANGED <<changes, unavailable>>
  BY DEF CheckHint, Driver
<1>2. CASE ~Healthy
  BY <1>1, <1>2, EnsureStep DEF CheckHint, Waits
<1>3. CASE Healthy /\ reader.hint = known + 1
  <2>1. known < changes
    BY <1>3 DEF WInv, Typed, Readers
  <2> QED BY <1>1, <1>3, <2>1, LearnStep DEF CheckHint
<1>4. CASE Healthy /\ reader.hint # known + 1
  <2>1. GoTo("look again") /\ UNCHANGED <<wire, stream, watch, known>>
    BY <1>4 DEF CheckHint
  <2>2. watch.phase \notin {"none", "ended"}
    BY <1>1, <1>4 DEF Healthy, WInv, DriverFits
  <2>3. "look again" \in Phases
    BY DEF Phases
  <2> QED BY <1>1, <2>1, <2>2, <2>3, GoStep
<1> QED BY <1>2, <1>3, <1>4

LEMMA LookAgainWInv == ASSUME WInv, LookAgain PROVE WInv'
<1>1. reader.kind = "driver" /\ reader.phase = "look again" /\ UNCHANGED <<changes, unavailable>>
  BY DEF LookAgain, Driver
<1>2. CASE known < changes
  BY <1>1, <1>2, LearnStep DEF LookAgain
<1>3. CASE ~(known < changes)
  <2>1. GoTo("rest") /\ UNCHANGED <<wire, stream, watch, known>>
    BY <1>3 DEF LookAgain
  <2>2. OpponentsTurn => watch.phase # "none" /\ ~(watch.phase = "ended" /\ ~watch.changed)
    BY <1>1 DEF WInv, DriverFits
  <2>3. "rest" \in Phases
    BY DEF Phases
  <2> QED BY <1>1, <1>3, <2>1, <2>2, <2>3, GoStep
<1> QED BY <1>2, <1>3

\* What changed while attaching is in the stream, behind the frame that made it ready.
LEMMA AttachedWInv == ASSUME WInv, NEW p \in Waits, Attached(p) PROVE WInv'
<1>1. /\ reader.kind = "driver" /\ reader.phase = "attach" /\ Ready /\ GoTo(p)
      /\ watch' = [NoWatch EXCEPT !.phase = "reading"]
      /\ UNCHANGED <<changes, wire, stream, known, unavailable>>
  BY DEF Attached, Attaching, Driver, streamVars, shownVars
<1>2. p \in Phases /\ p \in {"inspect", "select", "look again"}
  BY DEF Waits, Phases
<1>3. /\ watch' \in Watches(changes) /\ watch'.phase = "reading" /\ ~watch'.fault
  BY <1>1, FreshTypes DEF WInv, Typed, Watches, NoWatch
<1>4. reader' \in Readers(changes) /\ reader'.kind = "driver" /\ reader'.phase = p
  BY <1>1, <1>2, Goes
<1>5. stream.state \in {"live", "terminated"} /\ Announced
  BY <1>1 DEF WInv, Registered, DriverFits, Answered, Announced, Ready, Terminated
<1>6. Typed' /\ Registered'
  BY <1>1, <1>3, <1>4 DEF WInv, Typed, Registered, Readers, Watches
<1>7. DriverFits' /\ BalanceFits'
  BY <1>2, <1>3, <1>4, <1>5, <1>1 DEF DriverFits, BalanceFits
<1>8. Announced'
  BY <1>1, <1>5 DEF Announced, Terminated
<1>9. NoWakeupIsLost'
  BY <1>1, <1>3, <1>4, <1>8 DEF WInv, NoWakeupIsLost, Balance
<1> QED BY <1>6, <1>7, <1>9 DEF WInv

LEMMA AttachmentFailedWInv == ASSUME WInv, NEW p, AttachmentFailed(p) PROVE WInv'
<1>1. /\ reader.kind = "driver" /\ reader.phase = "attach" /\ GoTo("halted")
      /\ stream' = NoStream /\ wire' = NoWire
      /\ UNCHANGED <<changes, watch, known, unavailable>>
  BY DEF AttachmentFailed, Attaching, Driver, Unsubscribe, shownVars
<1>2. reader' \in Readers(changes) /\ reader'.kind = "driver" /\ reader'.phase = "halted"
  <2>1. "halted" \in Phases
    BY DEF Phases
  <2> QED BY <1>1, <2>1, Goes
<1>3. watch = NoWatch
  BY <1>1 DEF WInv, DriverFits
<1>4. Typed' /\ Registered'
  BY <1>1, <1>2, FreshTypes DEF WInv, Typed, Registered, Readers
<1>5. DriverFits' /\ BalanceFits'
  BY <1>1, <1>2, <1>3, FreshTypes DEF DriverFits, BalanceFits
<1>6. NoWakeupIsLost'
  BY <1>1, <1>2 DEF WInv, NoWakeupIsLost, Driver, Balance
<1> QED BY <1>4, <1>5, <1>6 DEF WInv

(***************************************************************************)
(* The balance.                                                            *)
(***************************************************************************)
\* A step of the balance that keeps the stream's registration.
LEMMA BalanceStep ==
    ASSUME WInv, reader.kind = "balance", NEW p \in Phases, GoTo(p), Typed', Registered',
           UNCHANGED watch,
           p \in {"refresh", "next"} => stream'.state \in {"live", "terminated"},
           p = "next" => ~unavailable' /\ Current',
           known' <= changes'
    PROVE  WInv'
<1>1. reader'.kind = "balance" /\ reader'.phase = p
  BY Goes
<1>2. DriverFits' /\ BalanceFits'
  BY <1>1 DEF WInv, DriverFits, BalanceFits
<1>3. NoWakeupIsLost'
  BY <1>1 DEF NoWakeupIsLost, Driver, Balance
<1> QED BY <1>2, <1>3 DEF WInv

LEMMA UnavailableStep ==
    ASSUME WInv, reader.kind = "balance", Unavailable PROVE WInv'
<1>1. /\ stream' = NoStream /\ wire' = NoWire /\ unavailable' = TRUE /\ GoTo("retry")
      /\ UNCHANGED <<changes, known, watch>>
  BY DEF Unavailable, Unsubscribe
<1>2. "retry" \in Phases
  BY DEF Phases
<1>3. reader' \in Readers(changes)
  BY <1>1, <1>2, Goes
<1>4. Typed' /\ Registered'
  <2>1. /\ stream' \in Streams(changes)
        /\ stream'.state = "closed" /\ ~stream'.ready
    BY <1>1, FreshTypes DEF WInv, Typed
  <2>2. /\ wire' \in Wires(changes)
        /\ ~wire'.registered /\ wire'.frames = <<>>
    BY <1>1, FreshTypes DEF WInv, Typed
  <2> QED BY <1>1, <1>3, <2>1, <2>2 DEF WInv, Typed, Registered, Readers
<1>5. known' <= changes'
  BY <1>1 DEF WInv, NoWakeupIsLost
<1> QED BY <1>1, <1>2, <1>4, <1>5, BalanceStep

LEMMA AttachWInv == ASSUME WInv, Attach PROVE WInv'
<1>1. /\ reader.kind = "balance" /\ GoTo("attaching")
      /\ stream' = [NoStream EXCEPT !.state = "opening"] /\ wire' = NoWire
      /\ UNCHANGED <<changes, known, unavailable, watch>>
  BY DEF Attach, Balance, Subscribe, shownVars
<1>2. "attaching" \in Phases
  BY DEF Phases
<1>3. reader' \in Readers(changes)
  BY <1>1, <1>2, Goes
<1>4. Typed' /\ Registered'
  <2>1. /\ stream' \in Streams(changes)
        /\ stream'.state = "opening" /\ ~stream'.ready
    BY <1>1, FreshTypes DEF WInv, Typed
  <2>2. /\ wire' \in Wires(changes)
        /\ ~wire'.registered /\ wire'.frames = <<>>
    BY <1>1, FreshTypes DEF WInv, Typed
  <2> QED BY <1>1, <1>3, <2>1, <2>2 DEF WInv, Typed, Registered, Readers
<1>5. known' <= changes'
  BY <1>1 DEF WInv, NoWakeupIsLost
<1> QED BY <1>1, <1>2, <1>4, <1>5, BalanceStep

\* The balance goes on with its stream as it is.
LEMMA SameStream ==
    ASSUME WInv, NEW p \in Phases, GoTo(p), UNCHANGED <<changes, wire, stream, watch>>,
           known' \in Nat, unavailable' \in BOOLEAN
    PROVE  Typed' /\ Registered'
<1>1. reader' \in Readers(changes)
  BY Goes
<1> QED BY <1>1 DEF WInv, Typed, Registered, Readers

LEMMA AttachEndsWInv == ASSUME WInv, AttachEnds PROVE WInv'
<1>1. reader.kind = "balance"
  BY DEF AttachEnds, Balance
<1>2. CASE Ready /\ GoTo("refresh") /\ UNCHANGED <<streamVars, watch, shownVars>>
  <2>1. "refresh" \in Phases /\ UNCHANGED <<changes, wire, stream, watch, known, unavailable>>
    BY <1>2 DEF Phases, streamVars, shownVars
  <2>2. stream.state \in {"live", "terminated"} /\ known <= changes
    BY <1>2 DEF WInv, Registered, Ready, NoWakeupIsLost
  <2>3. known \in Nat /\ unavailable \in BOOLEAN
    BY DEF WInv, Typed
  <2>4. Typed' /\ Registered'
    BY <1>2, <2>1, <2>3, SameStream
  <2> QED BY <1>1, <1>2, <2>1, <2>2, <2>4, BalanceStep
<1>3. CASE Unavailable
  BY <1>1, <1>3, UnavailableStep
<1> QED BY <1>2, <1>3 DEF AttachEnds

\* Whatever changes from here on is announced: the subscription was there before.
LEMMA RefreshWInv == ASSUME WInv, Refresh PROVE WInv'
<1>1. /\ reader.kind = "balance" /\ reader.phase = "refresh" /\ GoTo("next")
      /\ known' = changes /\ unavailable' = FALSE /\ UNCHANGED <<changes, wire, stream, watch>>
  BY DEF Refresh, Balance, streamVars
<1>2. "next" \in Phases /\ changes \in Nat
  BY DEF Phases, WInv, Typed
<1>3. stream.state \in {"live", "terminated"}
  BY <1>1 DEF WInv, BalanceFits
<1>4. Typed' /\ Registered'
  BY <1>1, <1>2, SameStream
<1>5. Current' /\ known' <= changes'
  BY <1>1, <1>2 DEF Current
<1> QED BY <1>1, <1>2, <1>3, <1>4, <1>5, BalanceStep

LEMMA RefreshFailsWInv == ASSUME WInv, RefreshFails PROVE WInv'
  BY UnavailableStep DEF RefreshFails, Balance

LEMMA ReadEventWInv == ASSUME WInv, ReadEvent PROVE WInv'
<1>1. reader.kind = "balance" /\ reader.phase = "next" /\ UNCHANGED changes
      /\ stream.state \in {"live", "terminated"}
  BY DEF ReadEvent, Balance, Unavailable, WInv, BalanceFits
<1>2. CASE ReadNext(Started) /\ UNCHANGED <<changes, wire, failures, reader, watch, shownVars>>
  <2>1. UNCHANGED <<changes, wire, reader, watch, known, unavailable>> /\ ~Terminated
    BY <1>2, FrameFacts DEF shownVars, ReadNext
  <2>2. /\ stream' \in Streams(changes)
        /\ stream'.state = stream.state /\ stream'.ready = stream.ready
        /\ stream.events # <<>> /\ Started = Head(stream.events)
        /\ stream'.events = Tail(stream.events)
    BY <1>2, <2>1, ReadEffect
  <2>3. Typed' /\ Registered'
    BY <2>1, <2>2 DEF WInv, Typed, Registered
  <2>4. DriverFits' /\ BalanceFits'
    BY <1>1, <2>1, <2>2 DEF WInv, DriverFits, BalanceFits
  <2>5. ASSUME NEW i \in DOMAIN stream.events, stream.events[i].kind = "changed"
        PROVE  ChangeAnnounced'
    <3>1. stream.events \in Seq(Frames(changes))
      BY DEF WInv, Typed, Streams
    <3>2. i # 1
      BY <2>2, <2>5, <3>1, FrameFacts
    <3>3. i - 1 \in DOMAIN Tail(stream.events) /\ Tail(stream.events)[i - 1] = stream.events[i]
      BY <2>2, <3>1, <3>2
    <3> QED BY <2>2, <2>5, <3>3 DEF ChangeAnnounced
  <2>6. ChangeAnnounced => ChangeAnnounced'
    BY <2>1, <2>5 DEF ChangeAnnounced
  <2>7. NoWakeupIsLost'
    BY <1>1, <2>1, <2>6 DEF WInv, NoWakeupIsLost, Driver, Balance, Current
  <2> QED BY <2>3, <2>4, <2>7 DEF WInv
<1>3. ASSUME NEW k, ReadNext(Changed(k)), GoTo("refresh"),
             UNCHANGED <<changes, wire, failures, watch, shownVars>>
      PROVE  WInv'
  <2>1. UNCHANGED <<changes, wire, watch, known, unavailable>> /\ "refresh" \in Phases
    BY <1>3 DEF shownVars, Phases
  <2>2. /\ stream' \in Streams(changes)
        /\ stream'.state = stream.state /\ stream'.ready = stream.ready
    BY <1>3, <2>1, ReadEffect
  <2>3. reader' \in Readers(changes)
    BY <1>3, <2>1, Goes
  <2>4. Typed' /\ Registered'
    BY <2>1, <2>2, <2>3 DEF WInv, Typed, Registered, Readers
  <2>5. known' <= changes'
    BY <2>1 DEF WInv, NoWakeupIsLost
  <2> QED BY <1>1, <1>3, <2>1, <2>2, <2>4, <2>5, BalanceStep
<1>4. CASE Terminated /\ Unavailable
  BY <1>1, <1>4, UnavailableStep
<1> QED BY <1>2, <1>3, <1>4 DEF ReadEvent

LEMMA RetryWInv == ASSUME WInv, Retry PROVE WInv'
<1>1. /\ reader.kind = "balance" /\ GoTo("step")
      /\ UNCHANGED <<changes, wire, stream, watch, known, unavailable>>
  BY DEF Retry, Balance, streamVars, shownVars
<1>2. "step" \in Phases /\ known \in Nat /\ unavailable \in BOOLEAN /\ known <= changes
  BY DEF Phases, WInv, Typed, NoWakeupIsLost
<1>3. Typed' /\ Registered'
  BY <1>1, <1>2, SameStream
<1> QED BY <1>1, <1>2, <1>3, BalanceStep

(***************************************************************************)
(* The theorem.                                                            *)
(***************************************************************************)
LEMMA NextWInv == WInv /\ [Next]_vars => WInv'
<1> SUFFICES ASSUME WInv, [Next]_vars PROVE WInv'
  OBVIOUS
<1>1. CASE (Change \/ Register \/ Recv \/ Break) /\ UNCHANGED <<reader, watch, shownVars>>
  BY <1>1, ChangeWInv, RegisterWInv, RecvWInv, BreakWInv DEF Aside
<1>2. CASE Relay \/ Wake
  BY <1>2, RelayWInv, WakeWInv
<1>3. CASE DriverSteps
  BY <1>3, BeginStepWInv, InspectWInv, TakeHintWInv, NoHintWInv, WokenWInv, CheckHintWInv,
     LookAgainWInv, AttachedWInv, AttachmentFailedWInv DEF DriverSteps
<1>4. CASE Timer
  BY <1>4, TimerWInv
<1>5. CASE BalanceSteps
  BY <1>5, AttachWInv, AttachEndsWInv, RefreshWInv, ReadEventWInv, RetryWInv DEF BalanceSteps
<1>6. CASE RefreshFails
  BY <1>6, RefreshFailsWInv
<1>7. CASE UNCHANGED vars
  BY <1>7 DEF WInv, Typed, Registered, Answered, DriverFits, BalanceFits, NoWakeupIsLost, vars,
     streamVars, shownVars, Ready, Terminated, OpponentsTurn, Driver, Balance, Current, Announced,
     ChangeAnnounced
<1> QED BY <1>1, <1>2, <1>3, <1>4, <1>5, <1>6, <1>7 DEF Next

\* For any number of changes, failures and waiting events and hints: a reader that waits
\* without having seen the last change is about to be woken, and none has recorded more
\* than has happened.
THEOREM WakeupsAreKept == Spec => []NoWakeupIsLost
<1>1. WInv => NoWakeupIsLost
  BY DEF WInv
<1> QED BY <1>1, InitWInv, NextWInv, PTL DEF Spec
=============================================================================
