------------------------------ MODULE Storage -------------------------------
(***************************************************************************)
(* The two builds of the store, and what both owe their callers            *)
(* (src/internal/storage/protocol.md, "Private log storage").              *)
(***************************************************************************)
EXTENDS BrowserStore, SequencesExt

VARIABLE host   \* the build: chosen by the compiler (go:build js or not)

storageVars == <<fileVars, browserVars, host>>

Init == FilesInit /\ BrowserInit /\ host \in {"files", "browser"}

Next ==
    \/ host = "files" /\ FilesNext /\ UNCHANGED <<browserVars, host>>
    \/ host = "browser" /\ BrowserNext /\ UNCHANGED <<fileVars, host>>

Spec == Init /\ [][Next]_storageVars

(***************************************************************************)
(* Safety.                                                                 *)
(***************************************************************************)
\* "Load returns an intact contiguous sequence" (src/internal/storage/protocol.md:24)
\* after any crash, power loss, failed append or interrupted clear, and one that
\* starts with everything acknowledged since the last clear.
FilesIntact ==
    \A w \in Wallets :
        /\ Complete(files[w]) /\ Complete(disk[w])
        /\ entry[w] = "synced" /\ ~wiped[w] =>
              IsPrefix(acked[w], Listed(disk[w])) /\ IsPrefix(acked[w], Listed(files[w]))

RowsIntact == Loads /\ IsPrefix(confirmed, Listed(rows))

\* A writer that may still append knows exactly how many records there are: nobody
\* else has appended or cleared behind its back, and it has itself not failed half-way.
WritersAreCurrent ==
    /\ \A p \in Processes :
          proc[p].op \in {"open", "written"} /\ ~proc[p].failed =>
              lock[proc[p].wallet] = {p} /\ proc[p].count = Count(files[proc[p].wallet])
    /\ \A t \in Tabs :
          tab[t].op \in {"open", "appending"} /\ ~tab[t].failed =>
              webLock = {t} /\ tab[t].live = next

RecoveredLogIsIntact == FilesIntact /\ RowsIntact /\ WritersAreCurrent

(***************************************************************************)
(* "an acknowledged first record cannot disappear solely because its       *)
(* parent directory entry was never synchronized"                          *)
(* (src/internal/storage/files_native.go:200).                             *)
(***************************************************************************)
AcknowledgedStays ==
    \A w \in Wallets : ~wiped[w] => IsPrefix(acked[w], Listed(files[w]))
=============================================================================
