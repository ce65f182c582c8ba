------------------------------ MODULE Bundles ------------------------------
(***************************************************************************)
(* A transaction on its way through the services that co-sign it: the main *)
(* packet and a checkpoint packet for every source (src/internal/wallet/   *)
(* bundle.go, signing.go, merge.go).  A packet is its unsigned transaction,*)
(* the fields around it and the signatures collected in it.                *)
(***************************************************************************)
EXTENDS Integers, Sequences, FiniteSets

Signers == {"player", "emulator", "arkd"}

\* A signature as its signer made it, or an altered one.
Signature(signer) == [by |-> signer, value |-> "made"]
Altered(sig) == [sig EXCEPT !.value = "altered"]

RebuiltFields == {"utxo", "leaf", "tree"}
AllFields == RebuiltFields \cup {"metadata"}

\* The main transaction, and one that nobody asked for.
Main == -1
Another == -2

Packet(tx) == [tx |-> tx, fields |-> AllFields, sigs |-> {}]

\* Prepare: a checkpoint per source, named for it (a natural number).
Prepared(sources) ==
    [main |-> Packet(Main), checkpoints |-> [i \in 1..Len(sources) |-> Packet(sources[i])]]

EachPacket(bundle, op(_)) ==
    [main |-> op(bundle.main),
     checkpoints |-> [i \in 1..Len(bundle.checkpoints) |-> op(bundle.checkpoints[i])]]

AllPackets(bundle) ==
    {bundle.main} \cup {bundle.checkpoints[i] : i \in 1..Len(bundle.checkpoints)}

Signed(signer, packet) ==
    [packet EXCEPT !.sigs = {s \in @ : s.by # signer} \cup {Signature(signer)}]

\* Wallet.Sign changes only the player's own entries.
Sign(bundle) ==
    LET SignPacket(packet) == Signed("player", packet) IN EachPacket(bundle, SignPacket)

\* CompareBundles: everything but the signatures is the same.
Unsigned(bundle) ==
    LET Strip(packet) == [packet EXCEPT !.sigs = {}] IN EachPacket(bundle, Strip)

(***************************************************************************)
(* mergePSBT, mergeBundles: what a service returned, against the saved     *)
(* work.  Arkd may return checkpoints that it rebuilt from a few fields.   *)
(***************************************************************************)
SameFields(base, remote, rebuilt) ==
    \/ remote.fields = base.fields
    \/ rebuilt /\ "tree" \in base.fields /\ remote.fields = base.fields \cap RebuiltFields

\* Slip: a signature of the response replaces the saved one.
KeepsNoSignatures(base, remote, rebuilt) == TRUE

KeepsSignatures(base, remote, rebuilt) ==
    \A s \in base.sigs :
        /\ \A r \in remote.sigs : r.by = s.by => r = s
        /\ rebuilt \/ s \in remote.sigs

MergesPacket(base, remote, rebuilt) ==
    /\ remote.tx = base.tx
    /\ SameFields(base, remote, rebuilt)
    /\ KeepsSignatures(base, remote, rebuilt)

MergedPacket(base, remote) == [base EXCEPT !.sigs = @ \cup remote.sigs]

\* Checkpoints are matched by their transaction, in any order, each once.
Matching(remote, tx) == {i \in 1..Len(remote) : remote[i].tx = tx}

Merges(base, remote, rebuilt) ==
    /\ Len(base.checkpoints) = Len(remote.checkpoints)
    /\ MergesPacket(base.main, remote.main, FALSE)
    /\ \A i \in 1..Len(base.checkpoints) :
          LET matching == Matching(remote.checkpoints, base.checkpoints[i].tx)
          IN /\ Cardinality(matching) = 1
             /\ \A j \in matching :
                   MergesPacket(base.checkpoints[i], remote.checkpoints[j], rebuilt)

Merged(base, remote) ==
    [main |-> MergedPacket(base.main, remote.main),
     checkpoints |-> [i \in 1..Len(base.checkpoints) |->
        LET j == CHOOSE j \in Matching(remote.checkpoints, base.checkpoints[i].tx) : TRUE
        IN MergedPacket(base.checkpoints[i], remote.checkpoints[j])]]

\* verifyServiceSignatures of a native build.
ServiceSigned(bundle) ==
    \A packet \in AllPackets(bundle) :
        \A s \in {Signature("arkd")} : s \in packet.sigs

(***************************************************************************)
(* What a service may answer to a request: its signatures on all packets,  *)
(* and perhaps something that it should not have touched.                  *)
(***************************************************************************)
Answer(bundle, signer) ==
    LET SignPacket(packet) == Signed(signer, packet) IN EachPacket(bundle, SignPacket)

Rebuilt(answer) ==
    [answer EXCEPT !.checkpoints = [i \in DOMAIN @ |->
        [@[i] EXCEPT !.fields = RebuiltFields, !.sigs = {s \in @ : s.by = "arkd"}]]]

Reordered(answer) ==
    LET n == Len(answer.checkpoints)
    IN [answer EXCEPT !.checkpoints = [i \in 1..n |-> @[n + 1 - i]]]

Damaged(answer, signer) ==
    {[answer EXCEPT !.main.tx = Another],
     [answer EXCEPT !.main.fields = RebuiltFields],
     [answer EXCEPT !.main.sigs = {s \in @ : s.by # "player"}],
     [answer EXCEPT !.checkpoints[1].fields = {"utxo", "leaf"}],
     [answer EXCEPT !.checkpoints[1].tx = answer.checkpoints[Len(answer.checkpoints)].tx],
     [answer EXCEPT !.checkpoints[1].sigs = {Altered(s) : s \in @}],
     [answer EXCEPT !.checkpoints[1].sigs = {s \in @ : s.by # signer}]}

Answers(bundle, signer) ==
    LET answer == Answer(bundle, signer)
    IN {answer, Reordered(answer)}
       \cup (IF signer = "arkd" THEN {Rebuilt(answer)} ELSE {})
       \cup Damaged(answer, signer)
=============================================================================
