------------------------- MODULE StorageRefinement --------------------------
(***************************************************************************)
(* Both builds implement the log that the game is written against: one per *)
(* wallet in files, one per origin in a browser.  In files the promise     *)
(* starts when the directory's own entry is on the disk.                   *)
(***************************************************************************)
EXTENDS Storage

Promised(w) == entry[w] = "synced"
FileLog == INSTANCE DurableLog WITH
    Logs <- Wallets,
    kept <- [w \in Wallets |-> IF Promised(w) THEN acked[w] ELSE <<>>],
    seen <- [w \in Wallets |-> Listed(files[w])],
    wiping <- wiped

Origin == {"origin"}
BrowserLog == INSTANCE DurableLog WITH
    Logs <- Origin,
    kept <- [o \in Origin |-> confirmed],
    seen <- [o \in Origin |-> Listed(rows)],
    wiping <- [o \in Origin |-> FALSE]

\* Acknowledged records stay: every step of either build is a step of the promised logs
\* (src/internal/storage/protocol.md) or a stutter.
ImplementsLog == FileLog!LogSpec /\ BrowserLog!LogSpec
=============================================================================
