---------------------------- MODULE ScriptStream ----------------------------
(***************************************************************************)
(* One subscription to the changes of a script, from the Arkade indexer to *)
(* the reader of Next (src/internal/adapters/subscription/subscription.go, *)
(* indexdata/subscription.go).  A change is a transaction that the index   *)
(* answers queries about from now on; its frame only hints at it.          *)
(***************************************************************************)
EXTENDS Integers, Sequences

CONSTANTS
    QueueSize,      \* events that a stream holds for its reader
    MaxChanges,     \* bound: changes of the script
    MaxFailures     \* bound: broken connections and failed queries

ASSUME StreamAssumption ==
    QueueSize \in Nat \ {0} /\ {MaxChanges, MaxFailures} \subseteq Nat

VARIABLES
    changes,        \* how many changes the index has accepted
    wire,           \* the server's side: is it registered, frames on their way
    stream,         \* the adapter's side
    failures

streamVars == <<changes, wire, stream, failures>>

NoWire == [registered |-> FALSE, frames |-> <<>>]
NoStream == [state |-> "closed", ready |-> FALSE, events |-> <<>>, gapSent |-> FALSE]

StreamInit == changes = 0 /\ wire = NoWire /\ stream = NoStream /\ failures = 0

MayFail == failures < MaxFailures

(***************************************************************************)
(* The indexer: it pushes what changes after it registered the filter.     *)
(***************************************************************************)
Started == [kind |-> "started", change |-> 0]
Changed(k) == [kind |-> "changed", change |-> k]

Change ==
    /\ changes < MaxChanges
    /\ changes' = changes + 1
    /\ wire' = IF wire.registered
               THEN [wire EXCEPT !.frames = Append(@, Changed(changes + 1))] ELSE wire
    /\ UNCHANGED <<stream, failures>>

Register ==
    /\ stream.state = "opening" /\ ~wire.registered
    /\ wire' = [registered |-> TRUE, frames |-> <<Started>>]
    /\ UNCHANGED <<changes, stream, failures>>

(***************************************************************************)
(* The adapter.                                                            *)
(***************************************************************************)
\* Owner.subscribe begins an attachment.  Its caller waits until the stream is ready
\* or has ended; when both are true it may see either.
Subscribe == stream' = [NoStream EXCEPT !.state = "opening"] /\ wire' = NoWire
Terminated == stream.state = "terminated"
Ready == stream.ready
Refused == Terminated

Unsubscribe == stream' = NoStream /\ wire' = NoWire

\* stream.run: the first frame confirms the attachment; a full queue ends the stream.
Recv ==
    /\ stream.state \in {"opening", "live"} /\ wire.frames # <<>>
    /\ IF Len(stream.events) < QueueSize
       THEN /\ stream' = [stream EXCEPT !.state = "live", !.ready = TRUE,
                                      !.events = Append(@, Head(wire.frames))]
            /\ wire' = [wire EXCEPT !.frames = Tail(@)]
       ELSE stream' = [stream EXCEPT !.state = "terminated"] /\ wire' = NoWire
    /\ UNCHANGED <<changes, failures>>

\* The connection ends, or is not confirmed in time (AttachTimeout).
Break ==
    /\ stream.state \in {"opening", "live"} /\ MayFail
    /\ stream' = [stream EXCEPT !.state = "terminated"] /\ wire' = NoWire
    /\ failures' = failures + 1
    /\ UNCHANGED changes

(***************************************************************************)
(* stream.Next, as a step of its reader.  Failure takes priority over      *)
(* queued events: a gap is reported, then the error.                       *)
(***************************************************************************)
Gap == [kind |-> "gap", change |-> 0]
Error == [kind |-> "error", change |-> 0]

ReadNext(event) ==
    IF Terminated
    THEN /\ event = (IF stream.gapSent THEN Error ELSE Gap)
         /\ stream' = [stream EXCEPT !.gapSent = TRUE]
    ELSE /\ stream.events # <<>> /\ event = Head(stream.events)
         /\ stream' = [stream EXCEPT !.events = Tail(@)]
=============================================================================
