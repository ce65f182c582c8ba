---------------------------- MODULE StorageProofs ----------------------------
(***************************************************************************)
(* What the store gives back, for any number of processes, wallets, tabs   *)
(* and records: after any crashes, power losses, failed appends and        *)
(* interrupted clears a log is intact and begins with what was             *)
(* acknowledged, a writer knows how long it is, and either build is the    *)
(* log that the game is written against.                                   *)
(***************************************************************************)
EXTENDS StorageRefinement, FiniteSetTheorems, TLAPS

(***************************************************************************)
(* Tables of records, the part that a directory and a database share.      *)
(***************************************************************************)
Tables == [Slots -> Records \cup {None}]

\* The table holds n records, without a gap.
Holds(f, n) == f \in Tables /\ n \in 0..MaxRecords /\ \A i \in Slots : f[i] # None <=> i < n

\* Two tables agree as far as the first goes; the sequence is the start of a table.
Extends(f, g) == Count(f) <= Count(g) /\ \A i \in Slots : i < Count(f) => g[i] = f[i]
Starts(s, f) == s \in Seq(Records) /\ Len(s) <= Count(f) /\ \A i \in 1..Len(s) : s[i] = f[i - 1]

LEMMA HoldsCount ==
    ASSUME NEW f, NEW n, Holds(f, n)
    PROVE  Present(f) = 0..(n - 1) /\ Count(f) = n /\ Complete(f)
<1>1. n \in Nat /\ n <= MaxRecords /\ MaxRecords \in Nat
  BY StoreAssumption DEF Holds
<1>2. Present(f) = 0..(n - 1)
  BY <1>1 DEF Holds, Present, Slots
<1>3. Cardinality(0..(n - 1)) = n
  BY <1>1, FS_Interval
<1> QED BY <1>2, <1>3 DEF Count, Complete

LEMMA CompleteHolds ==
    ASSUME NEW f \in Tables, Complete(f)
    PROVE  Holds(f, Count(f))
<1>1. MaxRecords \in Nat /\ MaxRecords > 0 /\ Present(f) \subseteq Slots
  BY StoreAssumption DEF Present
<1>2. IsFiniteSet(Slots) /\ Cardinality(Slots) = MaxRecords
  BY <1>1, FS_Interval DEF Slots
<1>3. Count(f) \in Nat /\ Count(f) <= MaxRecords
  BY <1>1, <1>2, FS_Subset, FS_CardinalityType DEF Count
<1>4. \A i \in Slots : f[i] # None <=> i < Count(f)
  BY <1>1, <1>3 DEF Complete, Present, Slots
<1> QED BY <1>3, <1>4, <1>1 DEF Holds

LEMMA EmptyHolds == Holds(Empty, 0)
  BY StoreAssumption DEF Holds, Empty, Tables, Slots

\* One more record at the end, or one less.
LEMMA OneMore ==
    ASSUME NEW f, NEW n, Holds(f, n), n < MaxRecords, NEW r \in Records
    PROVE  Holds([f EXCEPT ![n] = r], n + 1) /\ n \in Slots
<1>1. MaxRecords \in Nat /\ n \in Slots /\ r # None /\ n + 1 \in 0..MaxRecords
  BY StoreAssumption DEF Holds, Slots
<1> QED BY <1>1 DEF Holds, Tables, Slots

LEMMA OneLess ==
    ASSUME NEW f, NEW n, Holds(f, n), f # Empty
    PROVE  Holds([f EXCEPT ![LastOf(f)] = None], n - 1)
<1>1. MaxRecords \in Nat /\ n \in Nat /\ n <= MaxRecords
  BY StoreAssumption DEF Holds
<1>2. n > 0
  BY <1>1 DEF Holds, Empty, Tables, Slots
<1>3. Present(f) = 0..(n - 1)
  BY HoldsCount
<1>4. LastOf(f) = n - 1
  <2>1. n - 1 \in Present(f) /\ \A j \in Present(f) : j <= n - 1
    BY <1>1, <1>2, <1>3
  <2>2. \A i \in Present(f) : (\A j \in Present(f) : j <= i) => i = n - 1
    BY <1>1, <1>2, <1>3
  <2> QED BY <2>1, <2>2 DEF LastOf
<1>5. n - 1 \in Slots /\ n - 1 \in 0..MaxRecords
  BY <1>1, <1>2 DEF Slots
<1> QED BY <1>1, <1>4, <1>5 DEF Holds, Tables, Slots

LEMMA ListedTable ==
    ASSUME NEW f, NEW n, Holds(f, n)
    PROVE  /\ Listed(f) \in Seq(Records) /\ Len(Listed(f)) = n
           /\ \A i \in 1..n : Listed(f)[i] = f[i - 1]
           /\ Starts(Listed(f), f)
<1>0. Count(f) = n
  BY HoldsCount
<1>1. Count(f) = n /\ n \in Nat /\ n <= MaxRecords /\ MaxRecords \in Nat
  BY <1>0, StoreAssumption DEF Holds
<1>2. \A i \in 1..n : f[i - 1] \in Records
  BY <1>1 DEF Holds, Tables, Slots
<1>3. Listed(f) = [i \in 1..n |-> f[i - 1]]
  BY <1>1 DEF Listed
<1>4. Listed(f) \in Seq(Records) /\ Len(Listed(f)) = n
  BY <1>1, <1>2, <1>3
<1> QED BY <1>1, <1>3, <1>4 DEF Starts

LEMMA StartsIsPrefix ==
    ASSUME NEW s, NEW f, NEW n, Holds(f, n), Starts(s, f)
    PROVE  IsPrefix(s, Listed(f))
<1>1. /\ Listed(f) \in Seq(Records) /\ Len(Listed(f)) = n
      /\ \A i \in 1..n : Listed(f)[i] = f[i - 1]
  BY ListedTable
<1>0. Count(f) = n
  BY HoldsCount
<1>2. /\ s \in Seq(Records) /\ Len(s) \in Nat /\ Len(s) <= n /\ n \in Nat
      /\ \A i \in 1..Len(s) : s[i] = f[i - 1]
  BY <1>0 DEF Starts, Holds
<1>3. \A i \in 1..Len(s) : s[i] = Listed(f)[i]
  BY <1>1, <1>2
<1>4. SubSeq(s, 1, Len(s)) = SubSeq(Listed(f), 1, Len(s))
  BY <1>1, <1>2, <1>3
<1> QED BY <1>1, <1>2, <1>4 DEF IsPrefix

LEMMA StartsExtends ==
    ASSUME NEW s, NEW f, NEW g, NEW n, NEW k, Holds(f, n), Holds(g, k), Starts(s, f), Extends(f, g)
    PROVE  Starts(s, g)
<1>0. Count(f) = n /\ Count(g) = k
  BY HoldsCount
<1>1. /\ Count(f) = n /\ Count(g) = k /\ n \in Nat /\ k \in Nat /\ n <= k
      /\ MaxRecords \in Nat /\ k <= MaxRecords
  BY <1>0, StoreAssumption DEF Holds, Extends
<1>2. /\ s \in Seq(Records) /\ Len(s) \in Nat /\ Len(s) <= n
      /\ \A i \in 1..Len(s) : s[i] = f[i - 1]
  BY <1>1 DEF Starts
<1>3. \A i \in 1..Len(s) : i - 1 \in Slots /\ i - 1 < n
  BY <1>1, <1>2 DEF Slots
<1>4. \A i \in 1..Len(s) : s[i] = g[i - 1]
  BY <1>1, <1>2, <1>3 DEF Extends
<1> QED BY <1>1, <1>2, <1>4 DEF Starts

LEMMA EmptyCount == Count(Empty) = 0 /\ Complete(Empty) /\ Empty \in Tables
  BY EmptyHolds, HoldsCount DEF Holds

LEMMA ExtendsSelf ==
    ASSUME NEW f \in Tables, Complete(f)
    PROVE  Extends(f, f)
<1>1. Count(f) \in Nat
  BY CompleteHolds DEF Holds
<1> QED BY <1>1 DEF Extends

LEMMA ExtendsMore ==
    ASSUME NEW f, NEW g, NEW n, NEW k, Holds(f, n), Holds(g, k), Extends(f, g), k < MaxRecords,
           NEW r \in Records
    PROVE  Extends(f, [g EXCEPT ![k] = r])
<1>1. Holds([g EXCEPT ![k] = r], k + 1) /\ k \in Slots
  BY OneMore
<1>2. Count(f) = n /\ Count(g) = k /\ Count([g EXCEPT ![k] = r]) = k + 1
  BY <1>1, HoldsCount
<1>3. n \in Nat /\ k \in Nat /\ MaxRecords \in Nat /\ g \in Tables
  BY StoreAssumption DEF Holds
<1>4. n <= k /\ \A i \in Slots : i < n => g[i] = f[i]
  BY <1>2 DEF Extends
<1>5. \A i \in Slots : i < n => [g EXCEPT ![k] = r][i] = f[i]
  BY <1>1, <1>3, <1>4 DEF Tables, Slots
<1>6. n <= k + 1
  BY <1>3, <1>4
<1> QED BY <1>2, <1>5, <1>6 DEF Extends

LEMMA StartsNothing ==
    /\ Starts(<<>>, Empty)
    /\ \A s : Starts(s, Empty) => s = <<>>
<1>1. Count(Empty) = 0
  BY EmptyCount
<1> QED BY <1>1 DEF Starts

(***************************************************************************)
(* The directories and the processes.                                      *)
(***************************************************************************)
ProcessStates ==
    [op : {"idle", "mkdir", "open", "written", "renamed", "clearing"},
     wallet : Wallets \cup {None}, count : Nat, failed : BOOLEAN,
     record : Records \cup {None}, clearing : SUBSET Wallets]

FileTypes ==
    /\ entry \in [Wallets -> {"absent", "made", "synced"}]
    /\ lock \in [Wallets -> SUBSET Processes]
    /\ files \in [Wallets -> Tables] /\ disk \in [Wallets -> Tables]
    /\ staged \in [Wallets -> BOOLEAN] /\ wiped \in [Wallets -> BOOLEAN]
    /\ acked \in [Wallets -> Seq(Records)]
    /\ proc \in [Processes -> ProcessStates]

\* The directory of a wallet: no gap in it, as processes and as the disk see it; a directory
\* that does not exist is empty and nobody holds its lock; the disk has what was acknowledged
\* and processes see what is on the disk, unless a clear is not confirmed.
Directory(w) ==
    /\ Complete(files[w]) /\ Complete(disk[w])
    /\ entry[w] = "absent" => files[w] = Empty /\ disk[w] = Empty /\ lock[w] = {}
    /\ entry[w] # "absent" /\ ~wiped[w] => Starts(acked[w], disk[w]) /\ Extends(disk[w], files[w])
    /\ wiped[w] => acked[w] = <<>>

\* A process that writes or clears holds the lock alone and knows how many records there are.
Works(p) ==
    LET s == proc[p]  w == s.wallet IN
    /\ s.op = "mkdir" => w \in Wallets /\ entry[w] # "absent"
    /\ s.op \in {"open", "written", "renamed"} => w \in Wallets /\ lock[w] = {p}
    /\ s.op \in {"written", "renamed"} => ~s.failed
    /\ s.op \in {"open", "written"} /\ ~s.failed => s.count = Count(files[w])
    /\ s.op = "renamed" => s.count + 1 = Count(files[w])
    /\ s.op = "written" => s.record \in Records /\ s.count < MaxRecords
    /\ s.op = "clearing" => \A v \in s.clearing : lock[v] = {p}

FileInv ==
    FileTypes /\ (\A w \in Wallets : Directory(w)) /\ (\A p \in Processes : Works(p))

LEMMA FilesStart == FilesInit => FileInv
<1> SUFFICES ASSUME FilesInit PROVE FileInv
  OBVIOUS
<1>1. FileTypes
  BY EmptyCount DEF FilesInit, FileTypes, ProcessStates, Idle
<1>2. \A w \in Wallets : Directory(w)
  BY EmptyCount DEF FilesInit, Directory
<1>3. \A p \in Processes : Works(p)
  BY DEF FilesInit, Works, Idle
<1> QED BY <1>1, <1>2, <1>3 DEF FileInv

\* What a step leaves alone: a process whose locked directories it does not touch, and a
\* directory whose records it does not touch.
LEMMA Undisturbed ==
    ASSUME NEW q \in Processes, Works(q), proc'[q] = proc[q], FileTypes,
           \A w \in Wallets : /\ lock[w] = {q} => lock'[w] = {q} /\ files'[w] = files[w]
                              /\ entry[w] # "absent" => entry'[w] # "absent"
    PROVE  Works(q)'
<1>1. proc[q].clearing \in SUBSET Wallets
  BY DEF FileTypes, ProcessStates
<1> QED BY <1>1 DEF Works, Count, Present

LEMMA SameDirectory ==
    ASSUME NEW w \in Wallets, Directory(w), files'[w] = files[w], disk'[w] = disk[w],
           acked'[w] = acked[w], wiped'[w] = wiped[w],
           entry'[w] = "absent" => entry[w] = "absent" /\ lock'[w] = {},
           entry[w] = "absent" => entry'[w] = "absent"
    PROVE  Directory(w)'
  BY DEF Directory, Complete, Count, Present, Starts, Extends

\* Steps of one process that leave every directory as it is and at most give up its locks.
LEMMA OwnStep ==
    ASSUME FileInv, NEW p \in Processes, Works(p)', FileTypes',
           \A q \in Processes \ {p} : proc'[q] = proc[q],
           UNCHANGED <<entry, files, disk, acked, wiped>>,
           \A w \in Wallets : lock'[w] \in {lock[w], lock[w] \ {p}}
    PROVE  FileInv'
<1>1. \A w \in Wallets : Directory(w)'
  BY SameDirectory DEF FileInv, Directory
<1>2. \A q \in Processes \ {p} : Works(q)'
  <2> TAKE q \in Processes \ {p}
  <2>1. \A w \in Wallets : lock[w] = {q} => lock'[w] = {q}
    OBVIOUS
  <2> QED BY <2>1, Undisturbed DEF FileInv
<1> QED BY <1>1, <1>2 DEF FileInv

LEMMA MakeDirectoryStep ==
    ASSUME FileInv, NEW p \in Processes, NEW w \in Wallets, MakeDirectory(p, w)
    PROVE  FileInv'
<1> USE DEF FileInv
<1>1. FileTypes'
  <2>1. <<>> \in Seq(Records)
    OBVIOUS
  <2>2. acked' \in [Wallets -> Seq(Records)]
    BY <2>1 DEF FileTypes, ProcessStates, MakeDirectory
  <2>3. proc' = [proc EXCEPT ![p] = [Idle EXCEPT !.op = "mkdir", !.wallet = w]]
    BY DEF MakeDirectory, Become
  <2> QED BY <2>2, <2>3 DEF FileTypes, ProcessStates, MakeDirectory, Idle
<1>2. Directory(w)'
  <2>1. files'[w] = Empty /\ disk'[w] = Empty /\ lock'[w] = {} /\ entry'[w] = "made"
    BY DEF MakeDirectory, Directory, FileTypes, ProcessStates
  <2>2. acked'[w] = <<>> /\ wiped'[w] = FALSE
    BY DEF MakeDirectory, FileTypes, ProcessStates
  <2>3. Extends(Empty, Empty)
    BY EmptyCount, ExtendsSelf
  <2> QED BY <2>1, <2>2, <2>3, EmptyCount, StartsNothing DEF Directory
<1>3. \A v \in Wallets \ {w} : Directory(v)'
  BY SameDirectory DEF MakeDirectory, FileTypes, ProcessStates, Directory
<1>4. Works(p)'
  BY DEF MakeDirectory, Become, Idle, Works, FileTypes, ProcessStates
<1>5. \A q \in Processes \ {p} : Works(q)'
  <2> TAKE q \in Processes \ {p}
  <2>1. proc'[q] = proc[q]
    BY DEF MakeDirectory, Become, FileTypes, ProcessStates
  <2>2. \A v \in Wallets : entry[v] # "absent" => entry'[v] # "absent"
    BY DEF MakeDirectory, FileTypes, ProcessStates
  <2> QED BY <2>1, <2>2, Undisturbed DEF MakeDirectory
<1> QED BY <1>1, <1>2, <1>3, <1>4, <1>5

LEMMA SyncParentStep ==
    ASSUME FileInv, NEW p \in Processes, SyncParent(p)
    PROVE  FileInv'
<1> USE DEF FileInv
<1>1. proc[p].wallet \in Wallets /\ entry[proc[p].wallet] # "absent"
  BY DEF SyncParent, Works
<1>2. \A v \in Wallets : entry'[v] \in {entry[v], "synced"}
                         /\ (entry'[v] = "absent" <=> entry[v] = "absent")
  BY <1>1 DEF SyncParent, FileTypes, ProcessStates
<1>3. FileTypes'
  BY <1>1 DEF FileTypes, ProcessStates, SyncParent, Become, Idle
<1>4. \A v \in Wallets : Directory(v)'
  BY <1>2, SameDirectory DEF SyncParent, Directory
<1>5. Works(p)'
  BY DEF SyncParent, Become, Idle, Works, FileTypes, ProcessStates
<1>6. \A q \in Processes \ {p} : Works(q)'
  <2> TAKE q \in Processes \ {p}
  <2>1. proc'[q] = proc[q]
    BY DEF SyncParent, Become, FileTypes, ProcessStates
  <2> QED BY <2>1, <1>2, Undisturbed DEF SyncParent
<1> QED BY <1>3, <1>4, <1>5, <1>6

LEMMA OpenFilesStep ==
    ASSUME FileInv, NEW p \in Processes, NEW w \in Wallets, OpenFiles(p, w)
    PROVE  FileInv'
<1> USE DEF FileInv
<1>1. Complete(files[w]) /\ Count(files[w]) \in Nat /\ entry[w] # "absent" /\ lock[w] = {}
  BY CompleteHolds DEF OpenFiles, CanLock, Directory, Holds, FileTypes, ProcessStates
<1>2. lock' = [lock EXCEPT ![w] = {p}]
  BY <1>1 DEF OpenFiles
<1>3. proc' = [proc EXCEPT ![p] =
           [Idle EXCEPT !.op = "open", !.wallet = w, !.count = Count(files[w])]]
  BY <1>1 DEF OpenFiles, Become
<1>4. UNCHANGED <<entry, files, disk, acked, wiped>> /\ staged' = [staged EXCEPT ![w] = FALSE]
  BY DEF OpenFiles
<1>5. FileTypes'
  BY <1>1, <1>2, <1>3, <1>4 DEF FileTypes, ProcessStates, Idle
<1>6. \A v \in Wallets : Directory(v)'
  BY <1>1, <1>2, <1>4, SameDirectory DEF FileTypes, ProcessStates, Directory
<1>7. Works(p)'
  BY <1>1, <1>2, <1>3, <1>4 DEF Works, FileTypes, ProcessStates, Idle
<1>8. \A q \in Processes \ {p} : Works(q)'
  <2> TAKE q \in Processes \ {p}
  <2>1. proc'[q] = proc[q]
    BY <1>3 DEF FileTypes, ProcessStates
  <2>2. \A v \in Wallets : lock[v] = {q} => lock'[v] = {q}
    BY <1>1, <1>2 DEF FileTypes, ProcessStates
  <2> QED BY <2>1, <2>2, <1>4, Undisturbed
<1> QED BY <1>5, <1>6, <1>7, <1>8

LEMMA ReleaseStep ==
    ASSUME FileInv, NEW p \in Processes, CloseFiles(p) \/ ClearFails(p) \/ Die(p)
    PROVE  FileInv'
<1>1. /\ lock' = Unlocked(p) /\ proc' = [proc EXCEPT ![p] = Idle]
      /\ UNCHANGED <<entry, files, disk, staged, acked, wiped>>
  BY DEF CloseFiles, ClearFails, Die, Become
<1>2. FileTypes'
  BY <1>1 DEF FileInv, FileTypes, ProcessStates, Unlocked, Idle
<1>3. Works(p)'
  BY <1>1 DEF FileInv, FileTypes, ProcessStates, Idle, Works
<1>4. \A w \in Wallets : lock'[w] \in {lock[w], lock[w] \ {p}}
  BY <1>1 DEF Unlocked
<1>5. \A q \in Processes \ {p} : proc'[q] = proc[q]
  BY <1>1 DEF FileInv, FileTypes, ProcessStates
<1> QED BY <1>1, <1>2, <1>3, <1>4, <1>5, OwnStep

LEMMA StageStep ==
    ASSUME FileInv, NEW p \in Processes, NEW r \in Records, Stage(p, r)
    PROVE  FileInv'
<1> USE DEF FileInv
<1>1. /\ proc[p].wallet \in Wallets /\ lock[proc[p].wallet] = {p}
      /\ proc[p].count = Count(files[proc[p].wallet]) /\ proc[p].count < MaxRecords
  BY DEF Stage, Works
<1>2. PICK ok \in BOOLEAN :
         /\ proc' = [proc EXCEPT ![p] =
                IF ok THEN [proc[p] EXCEPT !.op = "written", !.record = r] ELSE Poisoned(p)]
         /\ staged' = [staged EXCEPT ![proc[p].wallet] = ok]
  BY DEF Stage, Become
<1>3. proc[p].op = "open" /\ ~proc[p].failed /\ UNCHANGED <<entry, lock, files, disk, acked, wiped>>
  BY DEF Stage
<1>4. \A q \in Processes \ {p} : proc'[q] = proc[q]
  BY <1>2 DEF FileTypes
<1>5. proc[p] \in ProcessStates
  BY DEF FileTypes
<1>6. CASE ok
  <2>1. proc'[p] = [proc[p] EXCEPT !.op = "written", !.record = r]
    BY <1>2, <1>6 DEF FileTypes
  <2>2. FileTypes'
    <3>1. proc'[p] \in ProcessStates
      BY <1>5, <2>1 DEF ProcessStates
    <3> QED BY <1>2, <1>3, <3>1, <2>1 DEF FileTypes
  <2>3. Works(p)'
    BY <1>1, <1>3, <1>5, <2>1 DEF FileTypes, ProcessStates, Works
  <2> QED BY <1>3, <1>4, <2>2, <2>3, OwnStep
<1>7. CASE ~ok
  <2>1. proc'[p] = Poisoned(p)
    BY <1>2, <1>7 DEF FileTypes
  <2>2. FileTypes'
    <3>1. proc'[p] \in ProcessStates
      BY <1>5, <2>1 DEF ProcessStates, Poisoned
    <3> QED BY <1>2, <1>3, <3>1, <2>1 DEF FileTypes
  <2>3. Works(p)'
    BY <1>1, <1>3, <1>5, <2>1 DEF FileTypes, ProcessStates, Works, Poisoned
  <2> QED BY <1>3, <1>4, <2>2, <2>3, OwnStep
<1> QED BY <1>6, <1>7

LEMMA RenameStep ==
    ASSUME FileInv, NEW p \in Processes, Rename(p)
    PROVE  FileInv'
<1> USE DEF FileInv
<1>0. PICK w \in Wallets, k \in Nat, r \in Records :
         w = proc[p].wallet /\ k = proc[p].count /\ r = proc[p].record
  BY DEF Rename, Works, FileTypes, ProcessStates
<1>1. /\ w \in Wallets /\ lock[w] = {p} /\ ~proc[p].failed /\ proc[p] \in ProcessStates
      /\ k = Count(files[w]) /\ k < MaxRecords /\ r \in Records
  BY <1>0 DEF Rename, Works, FileTypes
<1>2. PICK ok \in BOOLEAN :
         /\ proc' = [proc EXCEPT ![p] =
                IF ok THEN [proc[p] EXCEPT !.op = "renamed"] ELSE Poisoned(p)]
         /\ files' = IF ok THEN [files EXCEPT ![w][k] = r] ELSE files
  BY <1>0 DEF Rename, Become
<1>3. staged' = [staged EXCEPT ![w] = FALSE] /\ UNCHANGED <<entry, lock, disk, acked, wiped>>
  BY <1>0 DEF Rename
<1>4. \A q \in Processes \ {p} : proc'[q] = proc[q]
  BY <1>2 DEF FileTypes
<1>5. CASE ok
  <2>1. Holds(files[w], k) /\ Directory(w)
    <3>1. files[w] \in Tables /\ Complete(files[w]) /\ Directory(w)
      BY DEF Directory, FileTypes
    <3> QED BY <1>1, <3>1, CompleteHolds
  <2>2. Holds([files[w] EXCEPT ![k] = r], k + 1) /\ k \in Slots
    BY <1>1, <2>1, OneMore
  <2>3. files' = [files EXCEPT ![w] = [files[w] EXCEPT ![k] = r]]
    BY <1>2, <1>5
  <2>4. files'[w] = [files[w] EXCEPT ![k] = r] /\ files' \in [Wallets -> Tables]
    BY <1>1, <2>2, <2>3 DEF FileTypes, Holds
  <2>5. Complete(files'[w]) /\ Count(files'[w]) = k + 1
    BY <2>2, <2>4, HoldsCount
  <2>6. proc'[p] = [proc[p] EXCEPT !.op = "renamed"]
    BY <1>2, <1>5 DEF FileTypes
  <2>7. FileTypes'
    <3>1. proc'[p] \in ProcessStates
      BY <1>1, <2>6 DEF ProcessStates
    <3> QED BY <1>1, <1>2, <1>3, <2>4, <3>1, <2>6 DEF FileTypes
  <2>8. Directory(w)'
    <3>1. entry[w] # "absent"
      BY <1>1, <2>1 DEF Directory
    <3>2. ASSUME ~wiped[w] PROVE Extends(disk[w], files'[w])
      <4>1. Holds(disk[w], Count(disk[w])) /\ Extends(disk[w], files[w])
        BY <1>1, <3>1, <3>2, <2>1, CompleteHolds DEF Directory, FileTypes
      <4> QED BY <1>1, <2>1, <2>4, <4>1, ExtendsMore
    <3> QED BY <1>1, <1>3, <2>1, <2>5, <3>1, <3>2 DEF Directory, Complete, Count, Present, Starts
  <2>9. \A v \in Wallets \ {w} : files'[v] = files[v]
    BY <1>1, <2>3 DEF FileTypes
  <2>10. \A v \in Wallets \ {w} : Directory(v)'
    BY <1>3, <2>9, SameDirectory DEF Directory
  <2>11. Works(p)'
    BY <1>0, <1>1, <1>3, <2>5, <2>6 DEF Works, ProcessStates
  <2>12. \A q \in Processes \ {p} : Works(q)'
    BY <1>1, <1>3, <1>4, <2>9, Undisturbed
  <2> QED BY <2>7, <2>8, <2>10, <2>11, <2>12
<1>6. CASE ~ok
  <2>1. proc'[p] = Poisoned(p) /\ files' = files
    BY <1>2, <1>6 DEF FileTypes
  <2>2. FileTypes'
    <3>1. proc'[p] \in ProcessStates
      BY <1>1, <2>1 DEF ProcessStates, Poisoned
    <3> QED BY <1>1, <1>2, <1>3, <3>1, <2>1 DEF FileTypes
  <2>3. Works(p)'
    BY <1>0, <1>1, <1>3, <2>1 DEF ProcessStates, Works, Poisoned
  <2> QED BY <1>3, <1>4, <2>1, <2>2, <2>3, OwnStep
<1> QED BY <1>5, <1>6

\* The disk catches up with what processes see.
LEMMA SynchronizedDirectory ==
    ASSUME FileTypes, NEW w \in Wallets, Directory(w), UNCHANGED <<entry, lock, files>>,
           disk' = [disk EXCEPT ![w] = files[w]],
           \/ acked'[w] = acked[w] /\ wiped'[w] = wiped[w]
           \/ acked'[w] = acked[w] /\ ~wiped'[w] /\ (wiped[w] => files[w] = Empty)
           \/ acked'[w] = Listed(files[w]) /\ ~wiped'[w]
    PROVE  Directory(w)' /\ disk' \in [Wallets -> Tables]
           /\ \A v \in Wallets \ {w} : disk'[v] = disk[v]
<1>1. /\ disk'[w] = files[w] /\ files[w] \in Tables /\ disk[w] \in Tables
      /\ disk' \in [Wallets -> Tables]
      /\ \A v \in Wallets \ {w} : disk'[v] = disk[v]
  BY DEF FileTypes
<1>2. Complete(files[w]) /\ Complete(disk[w])
      /\ Holds(files[w], Count(files[w])) /\ Holds(disk[w], Count(disk[w]))
  BY <1>1, CompleteHolds DEF Directory
<1>3. Extends(files[w], files[w]) /\ Starts(Listed(files[w]), files[w])
  BY <1>1, <1>2, ExtendsSelf, ListedTable
<1>4. entry[w] # "absent" /\ ~wiped[w] => Starts(acked[w], files[w])
  BY <1>2, StartsExtends DEF Directory
<1>5. wiped[w] /\ files[w] = Empty => Starts(acked[w], files[w])
  BY StartsNothing DEF Directory
<1>6. entry[w] # "absent" /\ ~wiped'[w] => Starts(acked'[w], files[w])
  BY <1>3, <1>4, <1>5
<1>7. wiped'[w] => acked'[w] = <<>>
  BY DEF Directory
<1>8. entry'[w] = entry[w] /\ lock'[w] = lock[w] /\ files'[w] = files[w]
  OBVIOUS
<1>9. Complete(files'[w]) /\ Complete(disk'[w])
  BY <1>1, <1>2, <1>8
<1>10. entry'[w] = "absent" => files'[w] = Empty /\ disk'[w] = Empty /\ lock'[w] = {}
  BY <1>1, <1>8 DEF Directory
<1>11. entry'[w] # "absent" /\ ~wiped'[w] =>
           Starts(acked'[w], disk'[w]) /\ Extends(disk'[w], files'[w])
  BY <1>1, <1>3, <1>6, <1>8
<1> QED BY <1>1, <1>7, <1>9, <1>10, <1>11 DEF Directory, Complete, Present, Count, Starts, Extends

LEMMA SyncDirectoryStep ==
    ASSUME FileInv, NEW p \in Processes, SyncDirectory(p)
    PROVE  FileInv'
<1> USE DEF FileInv
<1>1. PICK w \in Wallets : w = proc[p].wallet
  BY DEF SyncDirectory, Works
<1>2. /\ lock[w] = {p} /\ ~proc[p].failed /\ proc[p] \in ProcessStates
      /\ proc[p].count + 1 = Count(files[w]) /\ Directory(w)
      /\ UNCHANGED <<entry, lock, files, staged>>
  BY <1>1 DEF SyncDirectory, Works, FileTypes
<1>3. CASE /\ disk' = [disk EXCEPT ![w] = files[w]]
           /\ acked' = [acked EXCEPT ![w] = Listed(files[w])]
           /\ wiped' = [wiped EXCEPT ![w] = FALSE]
           /\ proc' = [proc EXCEPT ![p] = [proc[p] EXCEPT !.op = "open",
                          !.count = proc[p].count + 1, !.record = None]]
  <2>1. acked'[w] = Listed(files[w]) /\ ~wiped'[w]
    BY <1>3 DEF FileTypes
  <2>2. /\ Directory(w)' /\ disk' \in [Wallets -> Tables]
        /\ \A v \in Wallets \ {w} : disk'[v] = disk[v]
    BY <1>2, <1>3, <2>1, SynchronizedDirectory
  <2>3. \A v \in Wallets \ {w} : Directory(v)'
    <3> TAKE v \in Wallets \ {w}
    <3>1. acked'[v] = acked[v] /\ wiped'[v] = wiped[v]
      BY <1>3 DEF FileTypes
    <3> QED BY <1>2, <2>2, <3>1, SameDirectory DEF Directory
  <2>4. Listed(files[w]) \in Seq(Records)
    <3>1. files[w] \in Tables /\ Complete(files[w])
      BY <1>2 DEF FileTypes, Directory
    <3> QED BY <3>1, CompleteHolds, ListedTable
  <2>5. proc'[p] = [proc[p] EXCEPT !.op = "open", !.count = proc[p].count + 1, !.record = None]
        /\ \A q \in Processes \ {p} : proc'[q] = proc[q]
    BY <1>3 DEF FileTypes
  <2>6. FileTypes'
    <3>1. proc'[p] \in ProcessStates
      <4>1. proc[p].count \in Nat /\ proc[p].count + 1 \in Nat
        BY <1>2 DEF ProcessStates
      <4> DEFINE n == proc[p].count + 1
      <4>2. n \in Nat /\ proc'[p] = [proc[p] EXCEPT !.op = "open", !.count = n, !.record = None]
        BY <4>1, <2>5
      <4> HIDE DEF n
      <4> QED BY <1>2, <4>2 DEF ProcessStates
    <3>2. acked' \in [Wallets -> Seq(Records)] /\ wiped' \in [Wallets -> BOOLEAN]
      BY <1>3, <2>4 DEF FileTypes
    <3> QED BY <1>2, <1>3, <2>2, <2>5, <3>1, <3>2 DEF FileTypes
  <2>7. Works(p)'
    BY <1>1, <1>2, <2>5 DEF Works, ProcessStates
  <2>8. \A q \in Processes \ {p} : Works(q)'
    BY <1>2, <2>5, Undisturbed
  <2> QED BY <2>2, <2>3, <2>6, <2>7, <2>8
<1>4. CASE proc' = [proc EXCEPT ![p] = Poisoned(p)] /\ UNCHANGED <<disk, acked, wiped>>
  <2>1. proc'[p] = Poisoned(p) /\ \A q \in Processes \ {p} : proc'[q] = proc[q]
    BY <1>4 DEF FileTypes
  <2>2. FileTypes'
    <3>1. proc'[p] \in ProcessStates
      BY <1>2, <2>1 DEF ProcessStates, Poisoned
    <3> QED BY <1>2, <1>4, <3>1, <2>1 DEF FileTypes
  <2>3. Works(p)'
    BY <1>1, <1>2, <1>4, <2>1 DEF ProcessStates, Works, Poisoned
  <2> QED BY <1>2, <1>4, <2>1, <2>2, <2>3, OwnStep
<1> QED BY <1>1, <1>3, <1>4 DEF SyncDirectory, Become, Synchronized

LEMMA BeginClearStep ==
    ASSUME FileInv, NEW p \in Processes, NEW ws \in SUBSET Wallets, BeginClear(p, ws)
    PROVE  FileInv'
<1> USE DEF FileInv
<1>1. \A w \in ws : entry[w] # "absent" /\ lock[w] = {}
  BY DEF BeginClear, CanLock
<1>2. /\ lock' = [w \in Wallets |-> IF w \in ws THEN {p} ELSE lock[w]]
      /\ proc' = [proc EXCEPT ![p] = [Idle EXCEPT !.op = "clearing", !.clearing = ws]]
      /\ UNCHANGED <<entry, files, disk, staged, acked, wiped>>
  BY DEF BeginClear, Become
<1>3. FileTypes'
  BY <1>2 DEF FileTypes, ProcessStates, Idle
<1>4. \A v \in Wallets : Directory(v)'
  BY <1>1, <1>2, SameDirectory DEF Directory
<1>5. Works(p)'
  BY <1>2 DEF Works, FileTypes, Idle
<1>6. \A q \in Processes \ {p} : Works(q)'
  <2> TAKE q \in Processes \ {p}
  <2>1. proc'[q] = proc[q]
    BY <1>2 DEF FileTypes
  <2>2. \A v \in Wallets : lock[v] = {q} => lock'[v] = {q}
    BY <1>1, <1>2 DEF FileTypes
  <2> QED BY <2>1, <2>2, <1>2, Undisturbed
<1> QED BY <1>3, <1>4, <1>5, <1>6

LEMMA RemoveEntryStep ==
    ASSUME FileInv, NEW p \in Processes, NEW w \in Wallets, RemoveEntry(p, w)
    PROVE  FileInv'
<1> USE DEF FileInv
<1>1. /\ proc[p].op = "clearing" /\ w \in proc[p].clearing /\ proc[p] \in ProcessStates
      /\ lock[w] = {p} /\ Directory(w)
  BY DEF RemoveEntry, Reaches, Works, FileTypes
<1>2. /\ proc' = [proc EXCEPT ![p] = [proc[p] EXCEPT !.wallet = w]]
      /\ acked' = [acked EXCEPT ![w] = <<>>] /\ wiped' = [wiped EXCEPT ![w] = TRUE]
      /\ UNCHANGED <<entry, lock, disk>>
  BY DEF RemoveEntry, Become
<1>3. /\ files' \in [Wallets -> Tables] /\ Complete(files'[w])
      /\ \A v \in Wallets \ {w} : files'[v] = files[v]
      /\ staged' \in [Wallets -> BOOLEAN]
  <2>1. CASE files[w] # Empty
    <3>1. files[w] \in Tables /\ Complete(files[w])
      BY <1>1 DEF FileTypes, Directory
    <3>2. Holds(files[w], Count(files[w]))
      BY <3>1, CompleteHolds
    <3> DEFINE f == [files[w] EXCEPT ![LastOf(files[w])] = None]
    <3>3. Holds(f, Count(files[w]) - 1)
      BY <2>1, <3>2, OneLess
    <3>4. files' = [files EXCEPT ![w] = f] /\ staged' = staged
      BY <2>1 DEF RemoveEntry
    <3>5. f \in Tables /\ Complete(f)
      BY <3>3, HoldsCount DEF Holds
    <3> HIDE DEF f
    <3> QED BY <3>4, <3>5 DEF FileTypes
  <2>2. CASE files[w] = Empty
    BY <1>1, <2>2 DEF FileTypes, Directory, RemoveEntry
  <2> QED BY <2>1, <2>2
<1>4. proc'[p] = [proc[p] EXCEPT !.wallet = w] /\ \A q \in Processes \ {p} : proc'[q] = proc[q]
  BY <1>2 DEF FileTypes
<1>5. FileTypes'
  <2>1. proc'[p] \in ProcessStates
    BY <1>1, <1>4 DEF ProcessStates
  <2>2. acked' \in [Wallets -> Seq(Records)] /\ wiped' \in [Wallets -> BOOLEAN]
    <3>1. <<>> \in Seq(Records)
      OBVIOUS
    <3> QED BY <1>2, <3>1 DEF FileTypes
  <2> QED BY <1>2, <1>3, <1>4, <2>1, <2>2 DEF FileTypes
<1>6. Directory(w)'
  <2>1. acked'[w] = <<>> /\ wiped'[w] = TRUE /\ entry'[w] # "absent"
    BY <1>1, <1>2 DEF FileTypes, Directory
  <2> QED BY <1>1, <1>2, <1>3, <2>1 DEF Directory, Complete, Count, Present
<1>7. \A v \in Wallets \ {w} : Directory(v)'
  BY <1>2, <1>3, SameDirectory DEF FileTypes, Directory
<1>8. Works(p)'
  BY <1>1, <1>2, <1>4 DEF Works, ProcessStates
<1>9. \A q \in Processes \ {p} : Works(q)'
  BY <1>1, <1>2, <1>3, <1>4, Undisturbed
<1> QED BY <1>5, <1>6, <1>7, <1>8, <1>9

LEMMA SyncClearedStep ==
    ASSUME FileInv, NEW p \in Processes, NEW w \in Wallets, SyncCleared(p, w)
    PROVE  FileInv'
<1> USE DEF FileInv
<1>1. /\ proc[p].op = "clearing" /\ w \in proc[p].clearing /\ proc[p] \in ProcessStates
      /\ lock[w] = {p} /\ Directory(w) /\ files[w] = Empty
  BY DEF SyncCleared, Reaches, Remaining, Works, FileTypes
<1>2. /\ disk' = [disk EXCEPT ![w] = files[w]] /\ wiped' = [wiped EXCEPT ![w] = FALSE]
      /\ UNCHANGED <<entry, files, staged, acked>>
  BY DEF SyncCleared, Synchronized
<1>3. \A v \in Wallets : lock'[v] \in {lock[v], lock[v] \ {p}}
  BY DEF SyncCleared, Unlocked
<1>4. /\ proc'[p] \in ProcessStates /\ \A q \in Processes \ {p} : proc'[q] = proc[q]
      /\ proc' \in [Processes -> ProcessStates] /\ lock' \in [Wallets -> SUBSET Processes]
      /\ \/ proc'[p].op = "idle"
         \/ /\ proc'[p].op = "clearing" /\ proc'[p].clearing = proc[p].clearing \ {w}
            /\ lock' = lock
  <2>1. CASE proc[p].clearing = {w}
    <3>1. proc' = [proc EXCEPT ![p] = Idle] /\ lock' = Unlocked(p)
      BY <2>1 DEF SyncCleared, Become
    <3>2. Idle \in ProcessStates /\ Idle.op = "idle"
      BY DEF Idle, ProcessStates
    <3>3. lock' \in [Wallets -> SUBSET Processes]
      BY <3>1 DEF FileTypes, Unlocked
    <3> QED BY <3>1, <3>2, <3>3 DEF FileTypes
  <2>2. CASE proc[p].clearing # {w}
    <3> DEFINE s == [proc[p] EXCEPT !.clearing = proc[p].clearing \ {w}, !.wallet = None]
    <3>1. proc' = [proc EXCEPT ![p] = s] /\ lock' = lock
      BY <2>2 DEF SyncCleared, Become
    <3>2. s \in ProcessStates /\ s.op = "clearing" /\ s.clearing = proc[p].clearing \ {w}
      BY <1>1 DEF ProcessStates
    <3> HIDE DEF s
    <3> QED BY <3>1, <3>2 DEF FileTypes
  <2> QED BY <2>1, <2>2
<1>5. /\ disk' \in [Wallets -> Tables] /\ disk'[w] = Empty
      /\ \A v \in Wallets \ {w} : disk'[v] = disk[v] /\ wiped'[v] = wiped[v]
      /\ wiped' \in [Wallets -> BOOLEAN] /\ wiped'[w] = FALSE
  BY <1>1, <1>2 DEF FileTypes
<1>6. FileTypes'
  BY <1>2, <1>4, <1>5 DEF FileTypes
<1>7. Directory(w)'
  <2>1. entry[w] # "absent" /\ Extends(Empty, Empty)
    BY <1>1, EmptyCount, ExtendsSelf DEF Directory
  <2>2. Starts(acked[w], Empty)
    <3>1. CASE wiped[w]
      BY <1>1, <3>1, StartsNothing DEF Directory
    <3>2. CASE ~wiped[w]
      <4>1. Starts(acked[w], disk[w]) /\ Extends(disk[w], Empty)
        BY <1>1, <2>1, <3>2 DEF Directory
      <4>2. disk[w] \in Tables /\ Complete(disk[w])
        BY <1>1 DEF Directory, FileTypes
      <4> QED BY <4>1, <4>2, CompleteHolds, EmptyHolds, StartsExtends
    <3> QED BY <3>1, <3>2
  <2>3. files'[w] = Empty /\ acked'[w] = acked[w] /\ entry'[w] = entry[w]
    BY <1>1, <1>2
  <2>4. /\ Complete(files'[w]) /\ Complete(disk'[w]) /\ entry'[w] # "absent"
        /\ Starts(acked'[w], disk'[w]) /\ Extends(disk'[w], files'[w]) /\ ~wiped'[w]
    BY <1>5, <2>1, <2>2, <2>3, EmptyCount
  <2> QED BY <2>4 DEF Directory
<1>8. \A v \in Wallets \ {w} : Directory(v)'
  <2> TAKE v \in Wallets \ {w}
  <2>1. entry[v] = "absent" => lock'[v] = {}
    BY <1>3 DEF Directory
  <2> QED BY <1>2, <1>5, <2>1, SameDirectory
<1>9. Works(p)'
  BY <1>1, <1>4 DEF Works
<1>10. \A q \in Processes \ {p} : Works(q)'
  <2> TAKE q \in Processes \ {p}
  <2>1. \A v \in Wallets : lock[v] = {q} => lock'[v] = {q}
    BY <1>3
  <2> QED BY <1>2, <1>4, <2>1, Undisturbed
<1> QED BY <1>6, <1>7, <1>8, <1>9, <1>10

LEMMA WriteBackStep ==
    ASSUME FileInv, NEW w \in Wallets, WriteBack(w)
    PROVE  FileInv'
<1> USE DEF FileInv
<1>1. UNCHANGED <<lock, files, staged, proc, acked, wiped>>
  BY DEF WriteBack
<1>2. CASE entry[w] = "made" /\ entry' = [entry EXCEPT ![w] = "synced"] /\ UNCHANGED disk
  <2>1. FileTypes'
    BY <1>1, <1>2 DEF FileTypes
  <2>2. \A v \in Wallets : entry'[v] = "absent" <=> entry[v] = "absent"
    BY <1>2 DEF FileTypes
  <2>3. \A v \in Wallets : Directory(v)'
    BY <1>1, <1>2, <2>2, SameDirectory DEF Directory
  <2>4. \A q \in Processes : Works(q)'
    BY <1>1, <2>2, Undisturbed
  <2> QED BY <2>1, <2>3, <2>4
<1>3. CASE disk' = [disk EXCEPT ![w] = files[w]] /\ UNCHANGED entry
  <2>1. /\ Directory(w)' /\ disk' \in [Wallets -> Tables]
        /\ \A v \in Wallets \ {w} : disk'[v] = disk[v]
    BY <1>1, <1>3, SynchronizedDirectory
  <2>2. \A v \in Wallets \ {w} : Directory(v)'
    BY <1>1, <1>3, <2>1, SameDirectory DEF Directory
  <2>3. FileTypes'
    BY <1>1, <1>3, <2>1 DEF FileTypes
  <2>4. \A q \in Processes : Works(q)'
    BY <1>1, <1>3, Undisturbed
  <2> QED BY <2>1, <2>2, <2>3, <2>4
<1> QED BY <1>2, <1>3 DEF WriteBack, Synchronized

LEMMA PowerLossStep ==
    ASSUME FileInv, PowerLoss
    PROVE  FileInv'
<1> USE DEF FileInv
<1>1. FileTypes'
  <2>1. files' \in [Wallets -> Tables] /\ disk' \in [Wallets -> Tables]
    BY EmptyCount DEF PowerLoss, FileTypes
  <2>2. proc' \in [Processes -> ProcessStates]
    BY DEF PowerLoss, Idle, ProcessStates
  <2> QED BY <2>1, <2>2 DEF FileTypes, PowerLoss
<1>2. \A w \in Wallets : Directory(w)'
  <2> TAKE w \in Wallets
  <2>1. files'[w] = disk'[w] /\ lock'[w] = {} /\ acked'[w] = acked[w] /\ wiped'[w] = wiped[w]
    BY DEF PowerLoss
  <2>2. CASE entry[w] = "synced"
    <3>1. disk'[w] = disk[w] /\ entry'[w] = "synced"
      BY <2>2 DEF PowerLoss
    <3>2. Extends(disk[w], disk[w]) /\ Directory(w)
      BY ExtendsSelf DEF Directory, FileTypes
    <3>3. /\ Complete(files'[w]) /\ Complete(disk'[w]) /\ Extends(disk'[w], files'[w])
          /\ ~wiped'[w] => Starts(acked'[w], disk'[w])
          /\ wiped'[w] => acked'[w] = <<>>
      BY <2>1, <2>2, <3>1, <3>2 DEF Directory
    <3> QED BY <3>1, <3>3 DEF Directory
  <2>3. CASE entry[w] # "synced"
    <3>1. disk'[w] = Empty /\ entry'[w] = "absent"
      BY <2>3 DEF PowerLoss, FileTypes
    <3>2. wiped'[w] => acked'[w] = <<>>
      BY <2>1 DEF Directory
    <3>3. /\ Complete(files'[w]) /\ Complete(disk'[w])
          /\ files'[w] = Empty
      BY <2>1, <3>1, EmptyCount
    <3> QED BY <2>1, <3>1, <3>2, <3>3 DEF Directory
  <2> QED BY <2>2, <2>3
<1>3. \A p \in Processes : Works(p)'
  BY DEF PowerLoss, Works, Idle
<1> QED BY <1>1, <1>2, <1>3

LEMMA FilesStep ==
    ASSUME FileInv, FilesNext
    PROVE  FileInv'
<1>1. ASSUME NEW p \in Processes, ProcessStep(p) PROVE FileInv'
  <2>1. CASE \E w \in Wallets : MakeDirectory(p, w) \/ OpenFiles(p, w)
    BY <2>1, MakeDirectoryStep, OpenFilesStep
  <2>2. CASE \E w \in Wallets : BeginClear(p, {w})
    BY <2>2, BeginClearStep
  <2>3. CASE \E w \in Wallets : RemoveEntry(p, w) \/ SyncCleared(p, w)
    BY <2>3, RemoveEntryStep, SyncClearedStep
  <2>4. CASE SyncParent(p) \/ Rename(p) \/ SyncDirectory(p)
    BY <2>4, SyncParentStep, RenameStep, SyncDirectoryStep
  <2>5. CASE \E r \in Records : Stage(p, r)
    BY <2>5, StageStep
  <2>6. CASE BeginClear(p, Existing)
    <3>1. Existing \in SUBSET Wallets
      BY DEF Existing
    <3> QED BY <2>6, <3>1, BeginClearStep
  <2>7. CASE CloseFiles(p) \/ ClearFails(p) \/ Die(p)
    BY <2>7, ReleaseStep
  <2> QED BY <1>1, <2>1, <2>2, <2>3, <2>4, <2>5, <2>6, <2>7 DEF ProcessStep
<1>2. ASSUME NEW w \in Wallets, WriteBack(w) PROVE FileInv'
  BY <1>2, WriteBackStep
<1>3. CASE PowerLoss
  BY <1>3, PowerLossStep
<1> QED BY <1>1, <1>2, <1>3 DEF FilesNext

(***************************************************************************)
(* The database and the tabs.                                              *)
(***************************************************************************)
TabStates ==
    [op : {"closed", "open", "appending", "appended", "erasing"}, live : Nat,
     failed : BOOLEAN, record : Records \cup {None}]

BrowserTypes ==
    /\ rows \in Tables /\ next \in Nat /\ webLock \in SUBSET Tabs
    /\ tab \in [Tabs -> TabStates]

\* Whoever is not closed has the lock, and knows the number unless it failed half-way.
Shows(t) ==
    LET s == tab[t] IN
    /\ s.op # "closed" => webLock = {t}
    /\ s.op \in {"appending", "appended"} => ~s.failed
    /\ s.op \in {"open", "appending"} /\ ~s.failed => s.live = next
    /\ s.op = "appending" => s.record \in Records /\ s.live < MaxRecords
    /\ s.op = "appended" => s.live + 1 = next

BrowserInv ==
    /\ BrowserTypes
    /\ Holds(rows, next) /\ Starts(confirmed, rows)
    /\ \A t \in Tabs : Shows(t)

LEMMA BrowserStart == BrowserInit => BrowserInv
<1> SUFFICES ASSUME BrowserInit PROVE BrowserInv
  OBVIOUS
<1>1. BrowserTypes
  BY EmptyCount DEF BrowserInit, BrowserTypes, TabStates, Closed
<1>2. Holds(rows, next) /\ Starts(confirmed, rows)
  BY EmptyHolds, StartsNothing DEF BrowserInit
<1>3. \A t \in Tabs : Shows(t)
  BY DEF BrowserInit, Shows, Closed
<1> QED BY <1>1, <1>2, <1>3 DEF BrowserInv

\* Steps that write nothing: the other tabs are closed, or this one only leaves.
LEMMA TabOnly ==
    ASSUME BrowserInv, NEW t \in Tabs, NEW s \in TabStates, tab' = [tab EXCEPT ![t] = s],
           UNCHANGED <<rows, next>>, Starts(confirmed', rows), webLock' \in SUBSET Tabs,
           Shows(t)', \A u \in Tabs \ {t} : webLock = {u} => webLock' = {u}
    PROVE  BrowserInv'
<1> USE DEF BrowserInv
<1>1. BrowserTypes'
  BY DEF BrowserTypes
<1>2. Holds(rows', next') /\ Starts(confirmed', rows')
  OBVIOUS
<1>3. \A u \in Tabs \ {t} : Shows(u)'
  BY DEF BrowserTypes, Shows
<1> QED BY <1>1, <1>2, <1>3

LEMMA TabSteps ==
    ASSUME BrowserInv, NEW t \in Tabs, TabStep(t)
    PROVE  BrowserInv'
<1> USE DEF BrowserInv
<1>1. /\ tab[t] \in TabStates /\ Closed \in TabStates /\ Closed.op = "closed"
      /\ webLock \in SUBSET Tabs /\ {} \in SUBSET Tabs /\ {t} \in SUBSET Tabs
  BY DEF BrowserTypes, TabStates, Closed
<1>2. CASE OpenTab(t)
  <2>1. Loads /\ webLock = {}
    <3>1. Loads
      BY HoldsCount DEF Loads
    <3> QED BY <1>2, <3>1 DEF OpenTab
  <2> DEFINE s == [Closed EXCEPT !.op = "open", !.live = next]
  <2>2. tab' = [tab EXCEPT ![t] = s] /\ webLock' = {t} /\ UNCHANGED <<rows, next, confirmed>>
    BY <1>2, <2>1 DEF OpenTab, Show
  <2>3. s \in TabStates
    BY DEF TabStates, Closed, BrowserTypes
  <2>4. Shows(t)'
    BY <2>2 DEF Shows, BrowserTypes, Closed
  <2>5. \A u \in Tabs \ {t} : webLock = {u} => webLock' = {u}
    BY <2>1
  <2> HIDE DEF s
  <2> QED BY <1>1, <2>2, <2>3, <2>4, <2>5, TabOnly
<1>3. CASE LeaveTab(t)
  <2>1. webLock = {t}
    BY <1>3 DEF LeaveTab, Shows
  <2>2. tab' = [tab EXCEPT ![t] = Closed] /\ webLock' = {} /\ UNCHANGED <<rows, next, confirmed>>
    BY <1>3, <2>1 DEF LeaveTab, Show
  <2>3. Shows(t)'
    BY <1>1, <2>2 DEF Shows, BrowserTypes, Closed
  <2>4. \A u \in Tabs \ {t} : webLock # {u}
    BY <2>1
  <2> QED BY <1>1, <2>2, <2>3, <2>4, TabOnly
<1>4. ASSUME NEW r \in Records, BeginTransaction(t, r) PROVE BrowserInv'
  <2> DEFINE s == [tab[t] EXCEPT !.op = "appending", !.record = r]
  <2>1. /\ tab' = [tab EXCEPT ![t] = s] /\ UNCHANGED <<rows, next, webLock, confirmed>>
        /\ tab[t].op = "open" /\ ~tab[t].failed /\ tab[t].live < MaxRecords
    BY <1>4 DEF BeginTransaction, Show
  <2>2. s \in TabStates /\ s.op = "appending" /\ s.record = r
        /\ s.live = tab[t].live /\ s.failed = tab[t].failed
    BY <1>1 DEF TabStates
  <2> HIDE DEF s
  <2>3. Shows(t)'
    BY <2>1, <2>2 DEF Shows, BrowserTypes
  <2> QED BY <1>1, <2>1, <2>2, <2>3, TabOnly
<1>5. CASE CommitAppend(t)
  <2> DEFINE s == [tab[t] EXCEPT !.op = "appended"]
             f == [rows EXCEPT ![next] = tab[t].record]
  <2>1. /\ tab' = [tab EXCEPT ![t] = s] /\ rows' = f /\ next' = next + 1
        /\ UNCHANGED <<webLock, confirmed>>
        /\ tab[t].op = "appending" /\ next = tab[t].live
    BY <1>5 DEF CommitAppend, Show
  <2>2. webLock = {t} /\ ~tab[t].failed /\ tab[t].record \in Records /\ next < MaxRecords
    BY <2>1 DEF Shows
  <2>3. Holds(rows', next')
    BY <2>1, <2>2, OneMore
  <2>4. Starts(confirmed', rows')
    <3>1. Extends(rows, rows)
      BY HoldsCount, ExtendsSelf DEF BrowserTypes
    <3>2. Extends(rows, f)
      BY <3>1, <2>2, ExtendsMore
    <3> QED BY <2>1, <2>3, <3>2, StartsExtends
  <2>5. s \in TabStates /\ s.op = "appended" /\ s.live = tab[t].live /\ s.failed = tab[t].failed
    BY <1>1 DEF TabStates
  <2> HIDE DEF s, f
  <2>6. BrowserTypes'
    BY <1>1, <2>1, <2>3, <2>5 DEF BrowserTypes, Holds
  <2>7. Shows(t)'
    BY <2>1, <2>2, <2>5 DEF Shows, BrowserTypes
  <2>8. \A u \in Tabs \ {t} : Shows(u)'
    BY <2>1, <2>2 DEF Shows, BrowserTypes
  <2> QED BY <2>3, <2>4, <2>6, <2>7, <2>8
<1>6. CASE ReportAppend(t)
  <2>1. /\ tab[t].op = "appended" /\ webLock = {t} /\ ~tab[t].failed
        /\ tab[t].live + 1 = next /\ UNCHANGED <<rows, next, webLock>>
    BY <1>6 DEF ReportAppend, Shows
  <2>2. CASE Show(t, [tab[t] EXCEPT !.op = "open", !.live = tab[t].live + 1, !.record = None])
             /\ confirmed' = Listed(rows)
    <3> DEFINE n == tab[t].live + 1
               s == [tab[t] EXCEPT !.op = "open", !.live = n, !.record = None]
    <3>1. tab' = [tab EXCEPT ![t] = s] /\ n = next /\ n \in Nat
      BY <2>1, <2>2 DEF Show, BrowserTypes
    <3> HIDE DEF n
    <3>2. s \in TabStates /\ s.op = "open" /\ s.live = n
      BY <1>1, <3>1 DEF TabStates
    <3> HIDE DEF s
    <3>3. Shows(t)'
      BY <2>1, <3>1, <3>2 DEF Shows, BrowserTypes
    <3>4. Starts(confirmed', rows)
      BY <2>2, ListedTable
    <3> QED BY <1>1, <2>1, <3>1, <3>2, <3>3, <3>4, TabOnly
  <2>3. CASE Show(t, [tab[t] EXCEPT !.op = "open", !.failed = TRUE, !.record = None])
             /\ UNCHANGED confirmed
    <3> DEFINE s == [tab[t] EXCEPT !.op = "open", !.failed = TRUE, !.record = None]
    <3>1. tab' = [tab EXCEPT ![t] = s]
      BY <2>3 DEF Show
    <3>2. s \in TabStates /\ s.op = "open" /\ s.failed
      BY <1>1 DEF TabStates
    <3> HIDE DEF s
    <3>3. Shows(t)'
      BY <2>1, <3>1, <3>2 DEF Shows, BrowserTypes
    <3> QED BY <1>1, <2>1, <2>3, <3>1, <3>2, <3>3, TabOnly
  <2> QED BY <1>6, <2>2, <2>3 DEF ReportAppend
<1>7. CASE AbortAppend(t)
  <2> DEFINE s == [tab[t] EXCEPT !.op = "open", !.failed = TRUE, !.record = None]
  <2>1. /\ tab' = [tab EXCEPT ![t] = s] /\ UNCHANGED <<rows, next, webLock, confirmed>>
        /\ tab[t].op = "appending" /\ webLock = {t}
    BY <1>7 DEF AbortAppend, Show, Shows
  <2>2. s \in TabStates /\ s.op = "open" /\ s.failed
    BY <1>1 DEF TabStates
  <2> HIDE DEF s
  <2>3. Shows(t)'
    BY <2>1, <2>2 DEF Shows, BrowserTypes
  <2> QED BY <1>1, <2>1, <2>2, <2>3, TabOnly
<1>8. CASE BeginErase(t)
  <2> DEFINE s == [Closed EXCEPT !.op = "erasing"]
  <2>1. /\ tab' = [tab EXCEPT ![t] = s] /\ UNCHANGED <<rows, next, confirmed>>
        /\ webLock = {} /\ webLock' = {t}
    BY <1>8 DEF BeginErase, Show
  <2>2. s \in TabStates /\ s.op = "erasing"
    BY DEF TabStates, Closed
  <2> HIDE DEF s
  <2>3. Shows(t)'
    BY <2>1, <2>2 DEF Shows, BrowserTypes
  <2>4. \A u \in Tabs \ {t} : webLock # {u}
    BY <2>1
  <2> QED BY <1>1, <2>1, <2>2, <2>3, <2>4, TabOnly
<1>9. CASE EndErase(t)
  <2>1. /\ webLock = {t} /\ webLock' = {} /\ tab' = [tab EXCEPT ![t] = Closed]
        /\ \/ rows' = Empty /\ next' = 0 /\ confirmed' = <<>>
           \/ UNCHANGED <<rows, next, confirmed>>
    BY <1>9 DEF EndErase, Show, Shows
  <2>2. Holds(rows', next') /\ Starts(confirmed', rows')
    BY <2>1, EmptyHolds, StartsNothing
  <2>3. BrowserTypes'
    BY <1>1, <2>1, <2>2 DEF BrowserTypes, Holds
  <2>4. \A u \in Tabs : tab'[u].op = "closed"
    BY <1>1, <2>1 DEF BrowserTypes, Shows
  <2>5. \A u \in Tabs : Shows(u)'
    BY <2>4 DEF Shows
  <2> QED BY <2>2, <2>3, <2>5
<1> QED BY <1>2, <1>3, <1>4, <1>5, <1>6, <1>7, <1>8, <1>9 DEF TabStep

(***************************************************************************)
(* Either build.                                                           *)
(***************************************************************************)
StoreInv == FileInv /\ BrowserInv

LEMMA StoreStart == Init => StoreInv
  BY FilesStart, BrowserStart DEF Init, StoreInv

LEMMA StoreStep ==
    ASSUME StoreInv, [Next]_storageVars
    PROVE  StoreInv'
<1> USE DEF StoreInv
<1>1. UNCHANGED fileVars => FileInv'
  <2> SUFFICES ASSUME UNCHANGED fileVars PROVE FileInv'
    OBVIOUS
  <2>1. FileTypes'
    BY DEF fileVars, FileInv, FileTypes
  <2>2. \A w \in Wallets : Directory(w)'
    BY SameDirectory DEF fileVars, FileInv, Directory
  <2>3. \A p \in Processes : Works(p)'
    BY Undisturbed DEF fileVars, FileInv
  <2> QED BY <2>1, <2>2, <2>3 DEF FileInv
<1>2. UNCHANGED browserVars => BrowserInv'
  BY DEF browserVars, BrowserInv, BrowserTypes, Shows
<1>3. FilesNext => FileInv'
  BY FilesStep
<1>4. BrowserNext => BrowserInv'
  BY TabSteps DEF BrowserNext
<1>5. \/ FilesNext /\ UNCHANGED browserVars
      \/ BrowserNext /\ UNCHANGED fileVars
      \/ UNCHANGED fileVars /\ UNCHANGED browserVars
  BY DEF Next, storageVars
<1> QED BY <1>1, <1>2, <1>3, <1>4, <1>5

LEMMA StoreIsIntact == StoreInv => RecoveredLogIsIntact
<1> SUFFICES ASSUME StoreInv PROVE RecoveredLogIsIntact
  OBVIOUS
<1>1. FilesIntact
  <2> SUFFICES ASSUME NEW w \in Wallets
               PROVE  /\ Complete(files[w]) /\ Complete(disk[w])
                      /\ entry[w] = "synced" /\ ~wiped[w] =>
                            /\ IsPrefix(acked[w], Listed(disk[w]))
                            /\ IsPrefix(acked[w], Listed(files[w]))
    BY DEF FilesIntact
  <2>1. Directory(w) /\ files[w] \in Tables /\ disk[w] \in Tables
    BY DEF StoreInv, FileInv, FileTypes
  <2>2. /\ Complete(files[w]) /\ Holds(files[w], Count(files[w]))
        /\ Complete(disk[w]) /\ Holds(disk[w], Count(disk[w]))
    BY <2>1, CompleteHolds DEF Directory
  <2>3. ASSUME entry[w] = "synced", ~wiped[w]
        PROVE  Starts(acked[w], disk[w]) /\ Starts(acked[w], files[w])
    <3>1. Starts(acked[w], disk[w]) /\ Extends(disk[w], files[w])
      BY <2>1, <2>3 DEF Directory
    <3> QED BY <2>2, <3>1, StartsExtends
  <2> QED BY <2>2, <2>3, StartsIsPrefix
<1>2. RowsIntact
  BY HoldsCount, StartsIsPrefix DEF RowsIntact, Loads, StoreInv, BrowserInv
<1>3. WritersAreCurrent
  BY DEF WritersAreCurrent, StoreInv, FileInv, BrowserInv, Works, Shows
<1> QED BY <1>1, <1>2, <1>3 DEF RecoveredLogIsIntact

\* What is read back is intact: whichever build it is, and after any crashes, power losses,
\* failed appends, interrupted clears and cancelled transactions, a log has no gap and begins
\* with everything acknowledged since the last clear, and a writer that may append knows how
\* long it is (src/internal/storage/files_native.go, src/internal/storage/browser_js.go).
THEOREM RecoveredLogs == Spec => []RecoveredLogIsIntact
<1>1. Init => StoreInv
  BY StoreStart
<1>2. StoreInv /\ [Next]_storageVars => StoreInv'
  BY StoreStep
<1>3. StoreInv => RecoveredLogIsIntact
  BY StoreIsIntact
<1> QED BY <1>1, <1>2, <1>3, PTL DEF Spec

(***************************************************************************)
(* The log that the game is written against: what a step of either build   *)
(* does to the records that are promised, and to those a reader finds.     *)
(***************************************************************************)
LEMMA ExtendsPrefix ==
    ASSUME NEW f, NEW g, NEW n, NEW k, Holds(f, n), Holds(g, k), Extends(f, g)
    PROVE  IsPrefix(Listed(f), Listed(g))
  BY ListedTable, StartsExtends, StartsIsPrefix

LEMMA ListedEmpty == Listed(Empty) = <<>>
  BY EmptyHolds, ListedTable

LEMMA NothingIsPrefix == ASSUME NEW s \in Seq(Records) PROVE IsPrefix(<<>>, s)
  BY DEF IsPrefix

LEMMA WholeIsPrefix == ASSUME NEW s \in Seq(Records) PROVE IsPrefix(s, s)
  BY DEF IsPrefix

LEMMA ListedMore ==
    ASSUME NEW f, NEW n, Holds(f, n), n < MaxRecords, NEW r \in Records
    PROVE  Listed([f EXCEPT ![n] = r]) = Append(Listed(f), r)
<1> DEFINE g == [f EXCEPT ![n] = r]
<1>1. Holds(g, n + 1) /\ n \in Slots
  BY OneMore
<1>2. n \in Nat /\ f \in Tables /\ MaxRecords \in Nat
  BY StoreAssumption DEF Holds
<1>3. /\ Listed(f) \in Seq(Records) /\ Len(Listed(f)) = n
      /\ \A i \in 1..n : Listed(f)[i] = f[i - 1]
  BY ListedTable
<1>4. /\ Listed(g) \in Seq(Records) /\ Len(Listed(g)) = n + 1
      /\ \A i \in 1..(n + 1) : Listed(g)[i] = g[i - 1]
  BY <1>1, ListedTable
<1>5. \A i \in 1..n : g[i - 1] = f[i - 1]
  BY <1>1, <1>2 DEF Tables, Slots
<1>6. g[n] = r
  BY <1>1, <1>2 DEF Tables
<1> HIDE DEF g
<1>7. \A i \in 1..(n + 1) : Listed(g)[i] = Append(Listed(f), r)[i]
  <2> TAKE i \in 1..(n + 1)
  <2>1. CASE i = n + 1
    <3>1. Listed(g)[i] = g[n]
      BY <1>2, <1>4, <2>1
    <3> QED BY <1>2, <1>3, <1>6, <2>1, <3>1
  <2>2. CASE i # n + 1
    <3>1. i \in 1..n
      BY <1>2, <2>2
    <3> QED BY <1>2, <1>3, <1>4, <1>5, <3>1
  <2> QED BY <2>1, <2>2
<1>8. Listed(g) \in Seq(Records) /\ Append(Listed(f), r) \in Seq(Records)
      /\ Len(Listed(g)) = n + 1 /\ Len(Append(Listed(f), r)) = n + 1
  BY <1>3, <1>4
<1>9. Listed(g) = Append(Listed(f), r)
  BY <1>2, <1>7, <1>8
<1> QED BY <1>9 DEF g

LEMMA ListedLess ==
    ASSUME NEW f, NEW n, Holds(f, n), f # Empty
    PROVE  IsPrefix(Listed([f EXCEPT ![LastOf(f)] = None]), Listed(f))
<1> DEFINE g == [f EXCEPT ![LastOf(f)] = None]
<1>1. Holds(g, n - 1)
  BY OneLess
<1> HIDE DEF g
<1>2. Count(g) = n - 1 /\ Count(f) = n /\ n \in Nat /\ n - 1 \in Nat /\ f \in Tables
  <2>1. Count(g) = n - 1 /\ Count(f) = n
    BY <1>1, HoldsCount
  <2>2. n \in Nat /\ n - 1 \in Nat /\ f \in Tables
    BY <1>1, StoreAssumption DEF Holds
  <2> QED BY <2>1, <2>2
<1>3. \A i \in Slots : i < n - 1 => g[i] = f[i]
  <2> TAKE i \in Slots
  <2>1. g[i] # None => g[i] = f[i]
    BY <1>2 DEF Tables, g
  <2>2. i < n - 1 => g[i] # None
    BY <1>1 DEF Holds
  <2> QED BY <2>1, <2>2
<1>4. Extends(g, f)
  BY <1>2, <1>3 DEF Extends
<1> QED BY <1>1, <1>4, ExtendsPrefix DEF g

\* What is acknowledged in a directory that exists is what a reader finds first.
LEMMA AckedIsSeen ==
    ASSUME FileInv, NEW w \in Wallets
    PROVE  /\ Holds(files[w], Count(files[w])) /\ Holds(disk[w], Count(disk[w]))
           /\ Listed(files[w]) \in Seq(Records)
           /\ acked[w] \in Seq(Records)
           /\ entry[w] # "absent" => IsPrefix(acked[w], Listed(files[w]))
           /\ wiped[w] => acked[w] = <<>>
<1>1. Directory(w) /\ files[w] \in Tables /\ disk[w] \in Tables /\ acked[w] \in Seq(Records)
  BY DEF FileInv, FileTypes
<1>2. Holds(files[w], Count(files[w])) /\ Holds(disk[w], Count(disk[w]))
  BY <1>1, CompleteHolds DEF Directory
<1>3. Listed(files[w]) \in Seq(Records)
  BY <1>2, ListedTable
<1>4. ASSUME entry[w] # "absent", ~wiped[w] PROVE IsPrefix(acked[w], Listed(files[w]))
  <2>1. Starts(acked[w], disk[w]) /\ Extends(disk[w], files[w])
    BY <1>1, <1>4 DEF Directory
  <2> QED BY <1>2, <2>1, StartsExtends, StartsIsPrefix
<1>5. wiped[w] => acked[w] = <<>>
  BY <1>1 DEF Directory
<1> QED BY <1>1, <1>2, <1>3, <1>4, <1>5, NothingIsPrefix

\* The log as the directory of a wallet shows it, and what a step may do to it.
Kept(w) == IF Promised(w) THEN acked[w] ELSE <<>>
Seen(w) == Listed(files[w])
LogStep(w) ==
    \/ UNCHANGED <<Kept(w), Seen(w), wiped[w]>>
    \/ (\E r \in Records : Seen(w)' = Append(Seen(w), r)) /\ UNCHANGED <<Kept(w), wiped[w]>>
    \/ /\ IsPrefix(Kept(w), Kept(w)') /\ IsPrefix(Kept(w)', Seen(w))
       /\ wiped'[w] \in {wiped[w], FALSE} /\ UNCHANGED Seen(w)
    \/ /\ IsPrefix(Kept(w), Seen(w)') /\ (wiped[w] \/ IsPrefix(Seen(w)', Seen(w)))
       /\ UNCHANGED <<Kept(w), wiped[w]>>
    \/ Kept(w)' = <<>> /\ IsPrefix(Seen(w)', Seen(w)) /\ wiped'[w]

LEMMA FileLogSteps ==
    ASSUME FileTypes', \A w \in Wallets : LogStep(w)
    PROVE  [FileLog!LogNext]_(FileLog!logVars)
<1>1. \A w \in Wallets :
         \/ FileLog!Untouched(w) \/ FileLog!Attempt(w) \/ FileLog!Acknowledge(w)
         \/ FileLog!Revert(w) \/ FileLog!Erase(w)
  <2> TAKE w \in Wallets
  <2> USE DEF Kept, Seen, FileLog!Keeps
  <2>1. CASE UNCHANGED <<Kept(w), Seen(w), wiped[w]>>
    BY <2>1 DEF FileLog!Untouched
  <2>2. CASE (\E r \in Records : Seen(w)' = Append(Seen(w), r)) /\ UNCHANGED <<Kept(w), wiped[w]>>
    BY <2>2 DEF FileLog!Attempt
  <2>3. CASE /\ IsPrefix(Kept(w), Kept(w)') /\ IsPrefix(Kept(w)', Seen(w))
             /\ wiped'[w] \in {wiped[w], FALSE} /\ UNCHANGED Seen(w)
    BY <2>3 DEF IsPrefix, FileLog!Acknowledge, FileLog!IsPrefix
  <2>4. CASE /\ IsPrefix(Kept(w), Seen(w)') /\ (wiped[w] \/ IsPrefix(Seen(w)', Seen(w)))
             /\ UNCHANGED <<Kept(w), wiped[w]>>
    BY <2>4 DEF IsPrefix, FileLog!Revert, FileLog!IsPrefix
  <2>5. CASE Kept(w)' = <<>> /\ IsPrefix(Seen(w)', Seen(w)) /\ wiped'[w]
    BY <2>5 DEF IsPrefix, FileLog!Erase, FileLog!IsPrefix
  <2> QED BY <2>1, <2>2, <2>3, <2>4, <2>5 DEF LogStep
<1> QED BY <1>1 DEF FileTypes, FileLog!LogNext

\* Steps in which the wallet's directory is not touched, or its own entry becomes durable.
LEMMA PromiseStep ==
    ASSUME FileInv, NEW o \in Wallets, UNCHANGED <<files, acked, wiped>>,
           entry'[o] \in {entry[o], "synced"},
           entry'[o] # entry[o] => entry[o] # "absent"
    PROVE  LogStep(o)
<1>1. UNCHANGED <<Seen(o), wiped[o]>>
  BY DEF Seen, Listed, Count, Present
<1>2. CASE entry'[o] = entry[o] \/ Promised(o)
  BY <1>1, <1>2 DEF LogStep, Kept, Promised
<1>3. CASE entry'[o] # entry[o] /\ ~Promised(o)
  <2>1. Kept(o) = <<>> /\ Kept(o)' = acked[o] /\ acked[o] \in Seq(Records)
        /\ IsPrefix(acked[o], Seen(o))
    BY <1>3, AckedIsSeen DEF Kept, Promised, Seen
  <2>2. IsPrefix(Kept(o), Kept(o)')
    BY <2>1, NothingIsPrefix
  <2> QED BY <1>1, <2>1, <2>2 DEF LogStep
<1> QED BY <1>2, <1>3

LEMMA LoggedFiles ==
    ASSUME FileInv, FilesNext, NEW o \in Wallets
    PROVE  LogStep(o)
<1>1. /\ Holds(files[o], Count(files[o])) /\ Holds(disk[o], Count(disk[o]))
      /\ Seen(o) \in Seq(Records) /\ acked[o] \in Seq(Records)
      /\ entry[o] # "absent" => IsPrefix(acked[o], Seen(o))
      /\ wiped[o] => acked[o] = <<>>
  BY AckedIsSeen DEF Seen
<1>2. Kept(o) \in Seq(Records) /\ IsPrefix(Kept(o), Seen(o)) /\ IsPrefix(Kept(o), Kept(o))
      /\ IsPrefix(<<>>, Seen(o)) /\ IsPrefix(Seen(o), Seen(o))
  <2>1. Kept(o) \in Seq(Records)
    BY <1>1 DEF Kept
  <2>2. IsPrefix(<<>>, Seen(o)) /\ IsPrefix(Kept(o), Kept(o)) /\ IsPrefix(Seen(o), Seen(o))
    BY <1>1, <2>1, NothingIsPrefix, WholeIsPrefix
  <2> QED BY <1>1, <2>1, <2>2 DEF Kept, Promised
<1>3. ASSUME NEW p \in Processes, NEW w \in Wallets, MakeDirectory(p, w)
      PROVE  LogStep(o)
  <2>1. UNCHANGED files
    BY <1>3 DEF MakeDirectory
  <2>2. UNCHANGED Seen(o)
    BY <2>1 DEF Seen, Listed, Count, Present
  <2>3. CASE w = o
    <3>1. Kept(o) = <<>> /\ Kept(o)' = <<>> /\ wiped'[o] = FALSE
      BY <1>3, <2>3 DEF MakeDirectory, Kept, Promised, FileInv, FileTypes
    <3> QED BY <1>2, <2>2, <3>1 DEF LogStep
  <2>4. CASE w # o
    <3>1. UNCHANGED <<entry[o], acked[o], wiped[o]>>
      BY <1>3, <2>4 DEF MakeDirectory, FileInv, FileTypes
    <3> QED BY <2>2, <3>1 DEF LogStep, Kept, Promised
  <2> QED BY <2>3, <2>4
<1>4. ASSUME NEW p \in Processes, SyncParent(p)
      PROVE  LogStep(o)
  <2>1. proc[p].wallet \in Wallets /\ entry[proc[p].wallet] # "absent"
    BY <1>4 DEF SyncParent, FileInv, Works
  <2>2. entry'[o] \in {entry[o], "synced"} /\ (entry'[o] # entry[o] => entry[o] # "absent")
    BY <1>4, <2>1 DEF SyncParent, FileInv, FileTypes
  <2> QED BY <1>4, <2>2, PromiseStep DEF SyncParent
<1>5. ASSUME NEW p \in Processes,
             \/ \E w \in Wallets : OpenFiles(p, w) \/ BeginClear(p, {w})
             \/ CloseFiles(p) \/ (\E r \in Records : Stage(p, r))
             \/ BeginClear(p, Existing) \/ ClearFails(p) \/ Die(p)
      PROVE  LogStep(o)
  <2>1. UNCHANGED <<entry, files, acked, wiped>>
    BY <1>5 DEF OpenFiles, BeginClear, CloseFiles, Stage, ClearFails, Die
  <2> QED BY <2>1, PromiseStep
<1>6. ASSUME NEW p \in Processes, Rename(p)
      PROVE  LogStep(o)
  <2>1. UNCHANGED <<entry, acked, wiped>>
    BY <1>6 DEF Rename
  <2>2. UNCHANGED Kept(o)
    BY <2>1 DEF Kept, Promised
  <2>3. PICK w \in Wallets, k \in Nat, r \in Records :
           /\ w = proc[p].wallet /\ k = proc[p].count /\ r = proc[p].record
           /\ k = Count(files[w]) /\ k < MaxRecords
    BY <1>6 DEF Rename, FileInv, Works, FileTypes, ProcessStates
  <2>4. files' = [files EXCEPT ![w] = [files[w] EXCEPT ![k] = r]] \/ files' = files
    BY <1>6, <2>3 DEF Rename
  <2>5. CASE files'[o] = files[o]
    BY <2>1, <2>5 DEF LogStep, Kept, Promised, Seen, Listed, Count, Present
  <2>6. CASE files'[o] # files[o]
    <3>1. files' = [files EXCEPT ![w] = [files[w] EXCEPT ![k] = r]] /\ w = o
      BY <2>4, <2>6 DEF FileInv, FileTypes
    <3>2. files'[o] = [files[o] EXCEPT ![k] = r]
      BY <3>1 DEF FileInv, FileTypes
    <3>3. Listed([files[o] EXCEPT ![k] = r]) = Append(Listed(files[o]), r)
      BY <1>1, <2>3, <3>1, ListedMore
    <3>4. Seen(o)' = Append(Seen(o), r)
      <4>1. Seen(o)' = Listed(files'[o])
        BY DEF Seen, Listed, Count, Present
      <4> QED BY <3>2, <3>3, <4>1 DEF Seen
    <3> QED BY <2>1, <2>2, <3>4 DEF LogStep
  <2> QED BY <2>5, <2>6
<1>7. ASSUME NEW p \in Processes, SyncDirectory(p)
      PROVE  LogStep(o)
  <2>1. UNCHANGED <<entry, files>> /\ UNCHANGED Seen(o)
    BY <1>7 DEF SyncDirectory, Seen, Listed, Count, Present
  <2>2. PICK w \in Wallets : w = proc[p].wallet
    BY <1>7 DEF SyncDirectory, FileInv, Works
  <2>3. \/ UNCHANGED <<acked, wiped>>
        \/ /\ acked' = [acked EXCEPT ![w] = Listed(files[w])]
           /\ wiped' = [wiped EXCEPT ![w] = FALSE]
    BY <1>7, <2>2 DEF SyncDirectory
  <2>4. \/ acked'[o] = acked[o] /\ wiped'[o] = wiped[o]
        \/ acked'[o] = Seen(o) /\ wiped'[o] = FALSE
    BY <2>2, <2>3 DEF FileInv, FileTypes, Seen
  <2>5. CASE acked'[o] = acked[o] /\ wiped'[o] = wiped[o]
    BY <2>1, <2>5 DEF LogStep, Kept, Promised
  <2>6. CASE acked'[o] = Seen(o) /\ wiped'[o] = FALSE
    <3>1. Kept(o)' = IF Promised(o) THEN Seen(o) ELSE <<>>
      BY <2>1, <2>6 DEF Kept, Promised
    <3>2. IsPrefix(Kept(o), Kept(o)') /\ IsPrefix(Kept(o)', Seen(o))
      BY <1>2, <3>1 DEF Kept
    <3> QED BY <2>1, <2>6, <3>2 DEF LogStep
  <2> QED BY <2>4, <2>5, <2>6
<1>8. ASSUME NEW p \in Processes, NEW w \in Wallets, RemoveEntry(p, w)
      PROVE  LogStep(o)
  <2>1. CASE w # o
    <3>1. UNCHANGED <<entry[o], files[o], acked[o], wiped[o]>>
      BY <1>8, <2>1 DEF RemoveEntry, FileInv, FileTypes
    <3> QED BY <3>1 DEF LogStep, Kept, Promised, Seen, Listed, Count, Present
  <2>2. CASE w = o
    <3>1. acked'[o] = <<>> /\ wiped'[o] = TRUE
      BY <1>8, <2>2 DEF RemoveEntry, FileInv, FileTypes
    <3>2. Kept(o)' = <<>>
      BY <3>1 DEF Kept, Promised
    <3>3. files'[o] = files[o] \/ (files[o] # Empty
                                   /\ files'[o] = [files[o] EXCEPT ![LastOf(files[o])] = None])
      BY <1>8, <2>2 DEF RemoveEntry, FileInv, FileTypes
    <3>4. Seen(o)' = Listed(files'[o])
      BY DEF Seen, Listed, Count, Present
    <3>5. IsPrefix(Seen(o)', Seen(o))
      <4>1. CASE files'[o] = files[o]
        BY <1>2, <3>4, <4>1 DEF Seen
      <4>2. CASE files[o] # Empty /\ files'[o] = [files[o] EXCEPT ![LastOf(files[o])] = None]
        BY <1>1, <3>4, <4>2, ListedLess DEF Seen
      <4> QED BY <3>3, <4>1, <4>2
    <3> QED BY <3>1, <3>2, <3>5 DEF LogStep
  <2> QED BY <2>1, <2>2
<1>9. ASSUME NEW p \in Processes, NEW w \in Wallets, SyncCleared(p, w)
      PROVE  LogStep(o)
  <2>1. UNCHANGED <<entry, files, acked>> /\ wiped' = [wiped EXCEPT ![w] = FALSE]
    BY <1>9 DEF SyncCleared
  <2>2. UNCHANGED <<Kept(o), Seen(o)>>
    BY <2>1 DEF Kept, Promised, Seen, Listed, Count, Present
  <2>3. wiped'[o] \in {wiped[o], FALSE}
    BY <2>1 DEF FileInv, FileTypes
  <2> QED BY <1>2, <2>2, <2>3 DEF LogStep
<1>10. ASSUME NEW w \in Wallets, WriteBack(w)
       PROVE  LogStep(o)
  <2>1. entry'[o] \in {entry[o], "synced"} /\ (entry'[o] # entry[o] => entry[o] # "absent")
    BY <1>10 DEF WriteBack, FileInv, FileTypes
  <2> QED BY <1>10, <2>1, PromiseStep DEF WriteBack
<1>11. CASE PowerLoss
  <2>1. UNCHANGED <<acked, wiped>>
    BY <1>11 DEF PowerLoss
  <2>2. /\ entry'[o] = IF entry[o] = "made" THEN "absent" ELSE entry[o]
        /\ files'[o] = IF entry[o] = "synced" THEN disk[o] ELSE Empty
    BY <1>11 DEF PowerLoss
  <2>3. UNCHANGED Kept(o)
    BY <2>1, <2>2 DEF Kept, Promised
  <2>4. Seen(o)' = IF Promised(o) THEN Listed(disk[o]) ELSE <<>>
    <3>1. Seen(o)' = Listed(files'[o])
      BY DEF Seen, Listed, Count, Present
    <3> QED BY <2>2, <3>1, ListedEmpty DEF Promised
  <2>5. IsPrefix(Kept(o), Seen(o)')
    <3>1. CASE ~Promised(o)
      BY <1>2, <2>4, <3>1 DEF Kept
    <3>2. CASE Promised(o) /\ wiped[o]
      <4>1. Kept(o) = <<>> /\ Listed(disk[o]) \in Seq(Records)
        BY <1>1, <3>2, ListedTable DEF Kept
      <4> QED BY <2>4, <3>2, <4>1, NothingIsPrefix
    <3>3. CASE Promised(o) /\ ~wiped[o]
      <4>1. Starts(acked[o], disk[o])
        BY <3>3 DEF FileInv, Directory, Promised
      <4> QED BY <1>1, <2>4, <3>3, <4>1, StartsIsPrefix DEF Kept
    <3> QED BY <3>1, <3>2, <3>3
  <2>6. wiped[o] \/ IsPrefix(Seen(o)', Seen(o))
    <3>1. CASE ~Promised(o)
      BY <1>2, <2>4, <3>1
    <3>2. CASE Promised(o) /\ ~wiped[o]
      <4>1. Extends(disk[o], files[o])
        BY <3>2 DEF FileInv, Directory, Promised
      <4> QED BY <1>1, <2>4, <3>2, <4>1, ExtendsPrefix DEF Seen
    <3> QED BY <3>1, <3>2
  <2> QED BY <2>1, <2>3, <2>5, <2>6 DEF LogStep
<1> QED BY <1>3, <1>4, <1>5, <1>6, <1>7, <1>8, <1>9, <1>10, <1>11 DEF FilesNext, ProcessStep

LEMMA BrowserLogSteps ==
    ASSUME LET R == Listed(rows) IN
           \/ UNCHANGED <<confirmed, R>>
           \/ (\E r \in Records : R' = Append(R, r)) /\ UNCHANGED confirmed
           \/ IsPrefix(confirmed, confirmed') /\ IsPrefix(confirmed', R) /\ UNCHANGED R
           \/ confirmed' = <<>> /\ IsPrefix(R', R) /\ R' = <<>>
    PROVE  [BrowserLog!LogNext]_(BrowserLog!logVars)
<1>1. \A o \in Origin :
         BrowserLog!Untouched(o) \/ BrowserLog!Attempt(o) \/ BrowserLog!Acknowledge(o)
         \/ BrowserLog!Erase(o)
  BY DEF IsPrefix, BrowserLog!Untouched, BrowserLog!Attempt, BrowserLog!Acknowledge,
     BrowserLog!Erase, BrowserLog!Keeps, BrowserLog!IsPrefix
<1> QED BY <1>1 DEF BrowserLog!LogNext

LEMMA LoggedRows ==
    ASSUME BrowserInv, BrowserNext
    PROVE  [BrowserLog!LogNext]_(BrowserLog!logVars)
<1>1. Holds(rows, next) /\ Starts(confirmed, rows)
  BY DEF BrowserInv
<1>2. Listed(rows) \in Seq(Records) /\ IsPrefix(confirmed, Listed(rows))
      /\ IsPrefix(Listed(rows), Listed(rows)) /\ IsPrefix(<<>>, Listed(rows))
  BY <1>1, ListedTable, StartsIsPrefix, NothingIsPrefix, WholeIsPrefix
<1>3. Listed(rows)' = Listed(rows')
  BY DEF Listed, Count, Present
<1>4. ASSUME NEW t \in Tabs, CommitAppend(t)
      PROVE  [BrowserLog!LogNext]_(BrowserLog!logVars)
  <2>1. tab[t].record \in Records /\ next < MaxRecords /\ UNCHANGED confirmed
        /\ rows' = [rows EXCEPT ![next] = tab[t].record]
    BY <1>4 DEF CommitAppend, BrowserInv, Shows
  <2>2. Listed(rows') = Append(Listed(rows), tab[t].record)
    BY <1>1, <2>1, ListedMore
  <2> QED BY <1>3, <2>1, <2>2, BrowserLogSteps
<1>5. ASSUME NEW t \in Tabs, ReportAppend(t)
      PROVE  [BrowserLog!LogNext]_(BrowserLog!logVars)
  <2>1. rows' = rows /\ confirmed' \in {confirmed, Listed(rows)}
    BY <1>5 DEF ReportAppend
  <2> QED BY <1>2, <1>3, <2>1, BrowserLogSteps
<1>6. ASSUME NEW t \in Tabs, EndErase(t)
      PROVE  [BrowserLog!LogNext]_(BrowserLog!logVars)
  <2>1. \/ rows' = Empty /\ confirmed' = <<>>
        \/ UNCHANGED <<rows, confirmed>>
    BY <1>6 DEF EndErase
  <2> QED BY <1>2, <1>3, <2>1, ListedEmpty, BrowserLogSteps
<1>7. ASSUME NEW t \in Tabs,
             \/ OpenTab(t) \/ LeaveTab(t) \/ (\E r \in Records : BeginTransaction(t, r))
             \/ AbortAppend(t) \/ BeginErase(t)
      PROVE  [BrowserLog!LogNext]_(BrowserLog!logVars)
  <2>1. UNCHANGED <<rows, confirmed>>
    BY <1>7 DEF OpenTab, LeaveTab, BeginTransaction, AbortAppend, BeginErase
  <2> QED BY <1>3, <2>1, BrowserLogSteps
<1> QED BY <1>4, <1>5, <1>6, <1>7 DEF BrowserNext, TabStep

\* Either build is the log the game is written against: what is acknowledged stays, in
\* order, until the user clears it; a failure only takes away what nobody acknowledged, and
\* of an unconfirmed clear it only brings records back
\* (src/internal/storage/log.go, src/internal/storage/protocol.md).
THEOREM LogIsImplemented == Spec => ImplementsLog
<1>1. Init => StoreInv /\ FileLog!LogInit /\ BrowserLog!LogInit
  <2> SUFFICES ASSUME Init PROVE FileLog!LogInit /\ BrowserLog!LogInit
    BY StoreStart
  <2>1. \A w \in Wallets : files[w] = Empty /\ ~Promised(w) /\ wiped[w] = FALSE
    BY DEF Init, FilesInit, Promised
  <2>2. rows = Empty /\ confirmed = <<>> /\ wiped = [w \in Wallets |-> FALSE]
    BY DEF Init, FilesInit, BrowserInit
  <2> QED BY <2>1, <2>2, ListedEmpty DEF FileLog!LogInit, BrowserLog!LogInit
<1>2. StoreInv /\ [Next]_storageVars => StoreInv'
  BY StoreStep
<1>3. StoreInv /\ [Next]_storageVars => [FileLog!LogNext]_(FileLog!logVars)
  <2> SUFFICES ASSUME StoreInv, [Next]_storageVars
               PROVE  [FileLog!LogNext]_(FileLog!logVars)
    OBVIOUS
  <2>1. ASSUME NEW w \in Wallets, UNCHANGED fileVars PROVE LogStep(w)
    BY <2>1 DEF fileVars, LogStep, Kept, Promised, Seen, Listed, Count, Present
  <2>2. \A w \in Wallets : LogStep(w)
    BY <2>1, LoggedFiles DEF StoreInv, Next, storageVars
  <2>3. FileTypes'
    BY <1>2 DEF StoreInv, FileInv
  <2> QED BY <2>2, <2>3, FileLogSteps
<1>4. StoreInv /\ [Next]_storageVars => [BrowserLog!LogNext]_(BrowserLog!logVars)
  <2>1. UNCHANGED browserVars => [BrowserLog!LogNext]_(BrowserLog!logVars)
    BY BrowserLogSteps DEF browserVars, Listed, Count, Present
  <2> QED BY <2>1, LoggedRows DEF StoreInv, Next, storageVars
<1> QED BY <1>1, <1>2, <1>3, <1>4, PTL DEF Spec, ImplementsLog, FileLog!LogSpec, BrowserLog!LogSpec
=============================================================================
