----------------------------- MODULE DurableLog -----------------------------
(***************************************************************************)
(* What storage.Log promises its caller (src/internal/storage/log.go),     *)
(* whatever the host: acknowledged records stay, in order, until the user  *)
(* clears the history; what a failed or interrupted append left behind may *)
(* be found after them or not.                                             *)
(***************************************************************************)
EXTENDS Sequences, SequencesExt

CONSTANTS Logs, Records

VARIABLES
    kept,      \* kept[l]: the records that no failure may take away
    seen,      \* seen[l]: the records that a reader would find
    wiping     \* wiping[l]: a clear has begun and neither it nor a later append is confirmed

logVars == <<kept, seen, wiping>>

LogInit ==
    /\ kept = [l \in Logs |-> <<>>] /\ seen = [l \in Logs |-> <<>>]
    /\ wiping = [l \in Logs |-> FALSE]

Keeps(l) == kept'[l] = kept[l] /\ wiping'[l] = wiping[l]

Untouched(l) == seen'[l] = seen[l] /\ Keeps(l)

\* A record appears that nobody has acknowledged yet.
Attempt(l) == (\E r \in Records : seen'[l] = Append(seen[l], r)) /\ Keeps(l)

\* A successful append or clear makes what is there permanent.
Acknowledge(l) ==
    /\ IsPrefix(kept[l], kept'[l]) /\ IsPrefix(kept'[l], seen[l])
    /\ wiping'[l] \in {wiping[l], FALSE}
    /\ seen'[l] = seen[l]

\* A failure takes unacknowledged records away; of an unconfirmed clear it may bring
\* records back.
Revert(l) ==
    /\ IsPrefix(kept[l], seen'[l])
    /\ wiping[l] \/ IsPrefix(seen'[l], seen[l])
    /\ Keeps(l)

\* The explicit clear, record by record or all at once.
Erase(l) ==
    /\ kept'[l] = <<>> /\ IsPrefix(seen'[l], seen[l])
    /\ wiping'[l] \/ seen'[l] = <<>>

\* One step may concern several logs: the machine they are on fails as a whole.
LogNext ==
    /\ DOMAIN kept' = Logs /\ DOMAIN seen' = Logs /\ DOMAIN wiping' = Logs
    /\ \A l \in Logs : Untouched(l) \/ Attempt(l) \/ Acknowledge(l) \/ Revert(l) \/ Erase(l)

LogSpec == LogInit /\ [][LogNext]_logVars
=============================================================================
