----------------------------- MODULE FileStore ------------------------------
(***************************************************************************)
(* The native store (src/internal/storage/files_native.go): a directory    *)
(* per wallet with one file per record and an OS lock.  Processes open,    *)
(* append and clear; any of them may die between two system calls, and the *)
(* machine may lose power.  Directory operations reach the disk in the     *)
(* order they were made, at the latest when the directory is synchronized. *)
(***************************************************************************)
EXTENDS Integers, FiniteSets, Sequences

CONSTANTS
    Processes,      \* programs started on this machine
    Wallets,        \* their wallets: one directory each
    Records,        \* contents of records
    None,           \* no record, no wallet
    MaxRecords      \* bound: records per log

ASSUME StoreAssumption ==
    /\ MaxRecords \in Nat \ {0}
    /\ None \notin Records /\ None \notin Wallets

VARIABLES
    entry,      \* entry[w]: the wallet directory's entry in its parent
    lock,       \* lock[w]: the process that holds w's writer.lock, if any
    files,      \* files[w]: the record files as running processes see them
    disk,       \* disk[w]: the record files that survive a power loss
    staged,     \* staged[w]: an .append- staging file is in the directory
    proc,       \* proc[p]: what process p is doing
    acked,      \* acked[w]: what appends have acknowledged since w was cleared
    wiped       \* wiped[w]: records were removed and no later sync has succeeded

fileVars == <<entry, lock, files, disk, staged, proc, acked, wiped>>

Slots == 0..(MaxRecords - 1)
Empty == [i \in Slots |-> None]
Idle == [op |-> "idle", wallet |-> None, count |-> 0, failed |-> FALSE, record |-> None,
         clearing |-> {}]

Present(f) == {i \in Slots : f[i] # None}
Count(f) == Cardinality(Present(f))

\* load wants the sorted names to be those of records 0, 1, 2, ...
Complete(f) == Present(f) = 0..(Count(f) - 1)
Listed(f) == [i \in 1..Count(f) |-> f[i - 1]]

FilesInit ==
    /\ entry = [w \in Wallets |-> "absent"]
    /\ lock = [w \in Wallets |-> {}]
    /\ files = [w \in Wallets |-> Empty]
    /\ disk = [w \in Wallets |-> Empty]
    /\ staged = [w \in Wallets |-> FALSE]
    /\ proc = [p \in Processes |-> Idle]
    /\ acked = [w \in Wallets |-> <<>>]
    /\ wiped = [w \in Wallets |-> FALSE]

Become(p, state) == proc' = [proc EXCEPT ![p] = state]
Unlocked(p) == [w \in Wallets |-> lock[w] \ {p}]

(***************************************************************************)
(* Opening.                                                                *)
(***************************************************************************)
\* durableMkdir: the directory is made, then its parent is synchronized.  A directory
\* that is there already is used as it is.
MakeDirectory(p, w) ==
    /\ proc[p].op = "idle" /\ entry[w] = "absent"
    /\ entry' = [entry EXCEPT ![w] = "made"]
    /\ acked' = [acked EXCEPT ![w] = <<>>] /\ wiped' = [wiped EXCEPT ![w] = FALSE]
    /\ Become(p, [Idle EXCEPT !.op = "mkdir", !.wallet = w])
    /\ UNCHANGED <<lock, files, disk, staged>>

SyncParent(p) ==
    /\ proc[p].op = "mkdir"
    /\ \E ok \in BOOLEAN :
          entry' = IF ok THEN [entry EXCEPT ![proc[p].wallet] = "synced"] ELSE entry
    /\ Become(p, Idle)
    /\ UNCHANGED <<lock, files, disk, staged, acked, wiped>>

\* lockFiles never waits: whoever finds the lock held gives up.
CanLock(p, ws) ==
    proc[p].op = "idle" /\ \A w \in ws : entry[w] # "absent" /\ lock[w] = {}

\* The store opens with the records it finds, or not at all.
OpenFiles(p, w) ==
    LET complete == Complete(files[w]) IN
    /\ CanLock(p, {w})
    /\ lock' = IF complete THEN [lock EXCEPT ![w] = {p}] ELSE lock
    /\ staged' = [staged EXCEPT ![w] = FALSE]
    /\ Become(p, IF complete
                 THEN [Idle EXCEPT !.op = "open", !.wallet = w, !.count = Count(files[w])]
                 ELSE Idle)
    /\ UNCHANGED <<entry, files, disk, acked, wiped>>

CloseFiles(p) ==
    /\ proc[p].op = "open"
    /\ lock' = Unlocked(p) /\ Become(p, Idle)
    /\ UNCHANGED <<entry, files, disk, staged, acked, wiped>>

(***************************************************************************)
(* Appending.  Any error leaves the writer unusable.                       *)
(***************************************************************************)
Poisoned(p) == [proc[p] EXCEPT !.op = "open", !.failed = TRUE, !.record = None]

\* The record is written to a staging file, which is synchronized and closed.
Stage(p, r) ==
    /\ proc[p].op = "open" /\ ~proc[p].failed /\ proc[p].count < MaxRecords
    /\ \E ok \in BOOLEAN :
          /\ Become(p, IF ok THEN [proc[p] EXCEPT !.op = "written", !.record = r] ELSE Poisoned(p))
          /\ staged' = [staged EXCEPT ![proc[p].wallet] = ok]
    /\ UNCHANGED <<entry, lock, files, disk, acked, wiped>>

Rename(p) ==
    LET w == proc[p].wallet IN
    /\ proc[p].op = "written"
    /\ \E ok \in BOOLEAN :
          /\ Become(p, IF ok THEN [proc[p] EXCEPT !.op = "renamed"] ELSE Poisoned(p))
          /\ files' = IF ok THEN [files EXCEPT ![w][proc[p].count] = proc[p].record] ELSE files
    /\ staged' = [staged EXCEPT ![w] = FALSE]
    /\ UNCHANGED <<entry, lock, disk, acked, wiped>>

Synchronized(w) == disk' = [disk EXCEPT ![w] = files[w]]

\* Slip: the record is acknowledged once it has its name.
SyncNothing(p) ==
    LET w == proc[p].wallet IN
    /\ proc[p].op = "renamed"
    /\ acked' = [acked EXCEPT ![w] = Listed(files[w])]
    /\ Become(p, [proc[p] EXCEPT !.op = "open", !.count = proc[p].count + 1, !.record = None])
    /\ UNCHANGED <<entry, lock, files, disk, staged, wiped>>

\* The record is acknowledged once its directory is synchronized.
SyncDirectory(p) ==
    LET w == proc[p].wallet IN
    /\ proc[p].op = "renamed"
    /\ \/ /\ Synchronized(w)
          /\ acked' = [acked EXCEPT ![w] = Listed(files[w])]
          /\ wiped' = [wiped EXCEPT ![w] = FALSE]
          /\ Become(p, [proc[p] EXCEPT !.op = "open", !.count = proc[p].count + 1, !.record = None])
       \/ Become(p, Poisoned(p)) /\ UNCHANGED <<disk, acked, wiped>>
    /\ UNCHANGED <<entry, lock, files, staged>>

(***************************************************************************)
(* Clearing: one wallet, or every wallet that has a directory.             *)
(***************************************************************************)
Existing == {w \in Wallets : entry[w] # "absent"}

\* Every lock is taken and every directory examined before anything is removed.
BeginClear(p, ws) ==
    /\ ws # {} /\ CanLock(p, ws)
    /\ lock' = [w \in Wallets |-> IF w \in ws THEN {p} ELSE lock[w]]
    /\ Become(p, [Idle EXCEPT !.op = "clearing", !.clearing = ws])
    /\ UNCHANGED <<entry, files, disk, staged, acked, wiped>>

\* ClearAll finishes one store before it touches the next.
Reaches(p, w) ==
    proc[p].op = "clearing" /\ w \in proc[p].clearing /\ proc[p].wallet \in {None, w}

Remaining(w) == files[w] # Empty \/ staged[w]
\* Slip: records are removed in the order of their names.
FirstRecordOf(f) == CHOOSE i \in Present(f) : \A j \in Present(f) : j >= i
LastOf(f) == CHOOSE i \in Present(f) : \A j \in Present(f) : j <= i

\* Names are removed from the end: records, then staging files.
RemoveEntry(p, w) ==
    /\ Reaches(p, w) /\ Remaining(w)
    /\ Become(p, [proc[p] EXCEPT !.wallet = w])
    /\ IF files[w] # Empty
       THEN /\ files' = [files EXCEPT ![w][LastOf(files[w])] = None]
            /\ UNCHANGED staged
       ELSE /\ staged' = [staged EXCEPT ![w] = FALSE]
            /\ UNCHANGED files
    /\ acked' = [acked EXCEPT ![w] = <<>>] /\ wiped' = [wiped EXCEPT ![w] = TRUE]
    /\ UNCHANGED <<entry, lock, disk>>

SyncCleared(p, w) ==
    /\ Reaches(p, w) /\ ~Remaining(w)
    /\ Synchronized(w)
    /\ wiped' = [wiped EXCEPT ![w] = FALSE]
    /\ IF proc[p].clearing = {w}
       THEN lock' = Unlocked(p) /\ Become(p, Idle)
       ELSE /\ Become(p, [proc[p] EXCEPT !.clearing = proc[p].clearing \ {w}, !.wallet = None])
            /\ UNCHANGED lock
    /\ UNCHANGED <<entry, files, staged, acked>>

\* A removal or synchronization fails, or the caller gives up: the rest stays.
ClearFails(p) ==
    /\ proc[p].op = "clearing"
    /\ lock' = Unlocked(p) /\ Become(p, Idle)
    /\ UNCHANGED <<entry, files, disk, staged, acked, wiped>>

(***************************************************************************)
(* The machine.                                                            *)
(***************************************************************************)
\* The kernel releases the locks of a process that dies.
Die(p) ==
    /\ proc[p].op # "idle"
    /\ lock' = Unlocked(p) /\ Become(p, Idle)
    /\ UNCHANGED <<entry, files, disk, staged, acked, wiped>>

\* The kernel writes a directory back in its own time.
WriteBack(w) ==
    /\ \/ entry[w] = "made" /\ entry' = [entry EXCEPT ![w] = "synced"] /\ UNCHANGED disk
       \/ disk[w] # files[w] /\ Synchronized(w) /\ UNCHANGED entry
    /\ UNCHANGED <<lock, files, staged, proc, acked, wiped>>

PowerLoss ==
    /\ proc' = [p \in Processes |-> Idle]
    /\ lock' = [w \in Wallets |-> {}]
    /\ entry' = [w \in Wallets |-> IF entry[w] = "made" THEN "absent" ELSE entry[w]]
    /\ files' = [w \in Wallets |-> IF entry[w] = "synced" THEN disk[w] ELSE Empty]
    /\ disk' = files'
    /\ staged' = [w \in Wallets |-> staged[w] /\ entry[w] = "synced"]
    /\ UNCHANGED <<acked, wiped>>

ProcessStep(p) ==
    \/ \E w \in Wallets :
          \/ MakeDirectory(p, w) \/ OpenFiles(p, w)
          \/ BeginClear(p, {w}) \/ RemoveEntry(p, w) \/ SyncCleared(p, w)
    \/ SyncParent(p) \/ CloseFiles(p)
    \/ \E r \in Records : Stage(p, r)
    \/ Rename(p) \/ SyncDirectory(p)
    \/ BeginClear(p, Existing) \/ ClearFails(p) \/ Die(p)

FilesNext ==
    \/ \E p \in Processes : ProcessStep(p)
    \/ \E w \in Wallets : WriteBack(w)
    \/ PowerLoss
=============================================================================
